-------------------------- MODULE HandshakeProofs --------------------------
(***************************************************************************)
(* TypeOK, QpsOwned, the refinement of PairCommit and Agreement, proved of *)
(* the connection handshake for every number of clients and connections,   *)
(* every list of NIC names, any number of QPs per connection and of        *)
(* faults.  They rest on one inductive invariant, IInv: the two sides of a *)
(* connection are in step (Lockstep), so the accepting side finds in its   *)
(* socket only what it expects (UpShape), and each QP is of the pair its   *)
(* side is at or of one that side has put into its qp_map (OwnedA,         *)
(* OwnedP).  Agreement needs a second one on top of it, Agreed: without    *)
(* faults both sides count the same pairs in the same order.               *)
(***************************************************************************)
EXTENDS Handshake, SequenceTheorems, FiniteSetTheorems, TLAPS

-----------------------------------------------------------------------------
(* Sequences of sequences, and the pairs of NICs                           *)

\* A set of naturals that is not empty has a least member.
LEMMA LeastNatural ==
  ASSUME NEW T, T \subseteq Nat, T # {}
  PROVE  \E x \in T : \A y \in T : x <= y
<1> DEFINE R == {ss \in Nat \X Nat : ss[1] < ss[2]}
<1>1. IsWellFoundedOn(R, Nat)
  BY NatLessThanWellFounded DEF OpToRel
<1> HIDE DEF R
<1>2. \E x \in T : \A y \in T : ~ (<<y, x>> \in R)
  BY <1>1, WFMin
<1>3. PICK x \in T : \A y \in T : ~ (<<y, x>> \in R)
  BY <1>2
<1>4. \A y \in T : ~ (y < x)
  BY <1>3 DEF R
<1> QED BY <1>4

\* Induction over the naturals, for a set instead of a predicate.
LEMMA NatSetInduction ==
  ASSUME NEW S, 0 \in S, \A n \in Nat : n \in S => n+1 \in S
  PROVE  Nat \subseteq S
<1>1. SUFFICES ASSUME Nat \ S # {} PROVE FALSE
  OBVIOUS
<1>2. PICK x \in Nat \ S : \A y \in Nat \ S : x <= y
  BY <1>1, LeastNatural
<1>4. x \in Nat /\ x - 1 \in Nat
  BY <1>2
<1>5. x - 1 \in S
  BY <1>4, <1>2
<1>6. (x - 1) + 1 = x
  BY <1>4
<1> QED BY <1>4, <1>5, <1>6, <1>2

\* f[i] is the concatenation of the first i of the sequences.
Prefix(seqs, f, m) == f = [i \in 1..m |-> IF i = 1 THEN seqs[i] ELSE f[i-1] \o seqs[i]]
\* There is such a function for every m: the CHOOSE of FlattenSeq has something to
\* choose.
LEMMA FlattenExists ==
  ASSUME NEW seqs
  PROVE  \A m \in Nat : \E f : Prefix(seqs, f, m)
<1> DEFINE S == {m \in Nat : \E f : Prefix(seqs, f, m)}
<1>1. 0 \in S
  <2>1. Prefix(seqs, [i \in 1..0 |-> {}], 0)
    BY DEF Prefix
  <2> QED BY <2>1
<1>2. ASSUME NEW m \in Nat, m \in S PROVE m + 1 \in S
  <2>1. PICK f : Prefix(seqs, f, m)
    BY <1>2
  <2> DEFINE g == [i \in 1..(m+1) |-> IF i = 1 THEN seqs[i] ELSE f[i-1] \o seqs[i]]
  <2>2. ASSUME NEW i \in 1..(m+1), i # 1 PROVE g[i-1] = f[i-1]
    <3>1. i - 1 \in 1..m /\ i - 1 \in 1..(m+1)
      BY <2>2
    <3>2. f[i-1] = IF i - 1 = 1 THEN seqs[i-1] ELSE f[i-1-1] \o seqs[i-1]
      BY <3>1, <2>1 DEF Prefix
    <3> QED BY <3>1, <3>2
  <2>3. g = [i \in 1..(m+1) |-> IF i = 1 THEN seqs[i] ELSE g[i-1] \o seqs[i]]
    <3> HIDE DEF g
    <3>1. \A i \in 1..(m+1) : (IF i = 1 THEN seqs[i] ELSE f[i-1] \o seqs[i]) = (IF i = 1 THEN seqs[i] ELSE g[i-1] \o seqs[i])
      BY <2>2
    <3>2. g = [i \in 1..(m+1) |-> IF i = 1 THEN seqs[i] ELSE f[i-1] \o seqs[i]]
      BY DEF g
    <3> QED BY <3>1, <3>2
  <2> HIDE DEF g
  <2>4. Prefix(seqs, g, m + 1)
    BY <2>3, Zenon DEF Prefix
  <2> QED BY <2>4
<1> HIDE DEF S
<1>3. Nat \subseteq S
  BY <1>1, <1>2, NatSetInduction
<1> QED BY <1>3 DEF S

\* FlattenSeq is the last of the concatenations.
LEMMA FlattenIs ==
  ASSUME NEW seqs, Len(seqs) \in Nat, Len(seqs) # 0
  PROVE  \E f : Prefix(seqs, f, Len(seqs)) /\ FlattenSeq(seqs) = f[Len(seqs)]
<1> DEFINE flat == CHOOSE f : f = [i \in 1..Len(seqs) |-> IF i = 1 THEN seqs[i] ELSE f[i-1] \o seqs[i]]
<1>1. \E f : f = [i \in 1..Len(seqs) |-> IF i = 1 THEN seqs[i] ELSE f[i-1] \o seqs[i]]
  BY FlattenExists DEF Prefix
<1>2. flat = [i \in 1..Len(seqs) |-> IF i = 1 THEN seqs[i] ELSE flat[i-1] \o seqs[i]]
  BY <1>1, Zenon
<1>3. FlattenSeq(seqs) = flat[Len(seqs)]
  BY Zenon DEF FlattenSeq
<1> HIDE DEF flat
<1>4. Prefix(seqs, flat, Len(seqs))
  BY <1>2, Zenon DEF Prefix
<1> QED BY <1>3, <1>4

\* Sequences of sequences without a repetition, in one of them or across two.
Apart(seqs) ==
  \A i, j \in DOMAIN seqs : \A k \in DOMAIN seqs[i], l \in DOMAIN seqs[j] :
      seqs[i][k] = seqs[j][l] => i = j /\ k = l

\* Every element of s is one of the first m sequences; s is without a repetition.
From(seqs, s, m) == \A x \in DOMAIN s : \E i \in 1..m : \E k \in DOMAIN seqs[i] : s[x] = seqs[i][k]
Distinct(s) == \A x, y \in DOMAIN s : s[x] = s[y] => x = y

\* One sequence more.
LEMMA ConcatFacts ==
  ASSUME NEW A, NEW seqs \in Seq(Seq(A)), Apart(seqs), NEW m \in 1..Len(seqs), NEW t \in Seq(A),
         From(seqs, t, m - 1), Distinct(t)
  PROVE  /\ t \o seqs[m] \in Seq(A) /\ From(seqs, t \o seqs[m], m) /\ Distinct(t \o seqs[m])
         /\ Len(t \o seqs[m]) = Len(t) + Len(seqs[m])
<1> DEFINE u == t \o seqs[m]
<1>1. seqs[m] \in Seq(A)
  OBVIOUS
<1>2. /\ u \in Seq(A) /\ Len(u) = Len(t) + Len(seqs[m])
      /\ \A x \in 1..Len(t) : u[x] = t[x]
      /\ \A x \in DOMAIN u : x > Len(t) => x - Len(t) \in DOMAIN seqs[m] /\ u[x] = seqs[m][x - Len(t)]
      /\ DOMAIN t = 1..Len(t) /\ DOMAIN u = 1..Len(u) /\ Len(t) \in Nat /\ Len(u) \in Nat
  BY <1>1
<1> HIDE DEF u
<1>3. From(seqs, u, m)
  <2> SUFFICES ASSUME NEW x \in DOMAIN u PROVE \E i \in 1..m : \E k \in DOMAIN seqs[i] : u[x] = seqs[i][k]
    BY DEF From
  <2>1. CASE x \in 1..Len(t)
    <3>1. PICK i \in 1..(m-1) : \E k \in DOMAIN seqs[i] : t[x] = seqs[i][k]
      BY <2>1, <1>2 DEF From
    <3> QED BY <3>1, <2>1, <1>2
  <2>2. CASE x > Len(t)
    BY <2>2, <1>2
  <2> QED BY <2>1, <2>2, <1>2
<1>4. ASSUME NEW x \in DOMAIN u, NEW y \in DOMAIN u, u[x] = u[y], x <= Len(t), y > Len(t) PROVE FALSE
  <2>0. x \in DOMAIN t
    BY <1>4, <1>2
  <2>1. PICK i \in 1..(m-1) : \E k \in DOMAIN seqs[i] : t[x] = seqs[i][k]
    BY <2>0, From(seqs, t, m - 1) DEF From
  <2>2. PICK k \in DOMAIN seqs[i] : t[x] = seqs[i][k]
    BY <2>1
  <2>3. y - Len(t) \in DOMAIN seqs[m] /\ u[y] = seqs[m][y - Len(t)] /\ u[x] = t[x]
    BY <1>4, <1>2
  <2>4. i \in DOMAIN seqs /\ m \in DOMAIN seqs /\ i # m
    OBVIOUS
  <2>5. seqs[i][k] # seqs[m][y - Len(t)]
    BY <2>2, <2>3, <2>4 DEF Apart
  <2> QED BY <2>2, <2>3, <2>5, <1>4
<1>5. ASSUME NEW x \in DOMAIN u, NEW y \in DOMAIN u, u[x] = u[y], x > Len(t), y > Len(t) PROVE x = y
  <2>1. /\ x - Len(t) \in DOMAIN seqs[m] /\ u[x] = seqs[m][x - Len(t)]
        /\ y - Len(t) \in DOMAIN seqs[m] /\ u[y] = seqs[m][y - Len(t)]
    BY <1>5, <1>2
  <2>2. x - Len(t) = y - Len(t)
    <3>1. m \in DOMAIN seqs
      OBVIOUS
    <3>2. \A k, l \in DOMAIN seqs[m] : seqs[m][k] = seqs[m][l] => k = l
      BY <3>1 DEF Apart
    <3> QED BY <2>1, <3>2, <1>5
  <2> QED BY <2>2, <1>2
<1>6. ASSUME NEW x \in DOMAIN u, NEW y \in DOMAIN u, u[x] = u[y], x <= Len(t), y <= Len(t) PROVE x = y
  <2>1. x \in DOMAIN t /\ y \in DOMAIN t /\ t[x] = t[y]
    BY <1>6, <1>2
  <2> QED BY <2>1 DEF Distinct
<1>7. Distinct(u)
  <2> SUFFICES ASSUME NEW x \in DOMAIN u, NEW y \in DOMAIN u, u[x] = u[y] PROVE x = y
    BY DEF Distinct
  <2>1. x <= Len(t) \/ x > Len(t)
    BY <1>2
  <2>2. y <= Len(t) \/ y > Len(t)
    BY <1>2
  <2> QED BY <1>4, <1>5, <1>6, <2>1, <2>2
<1> QED BY <1>2, <1>3, <1>7 DEF u

\* What every concatenation of the first ones is.
LEMMA PrefixFacts ==
  ASSUME NEW A, NEW seqs \in Seq(Seq(A)), Apart(seqs), NEW f, Prefix(seqs, f, Len(seqs))
  PROVE  \A m \in 1..Len(seqs) : /\ f[m] \in Seq(A) /\ From(seqs, f[m], m) /\ Distinct(f[m])
                                 /\ f[m] = IF m = 1 THEN seqs[1] ELSE f[m-1] \o seqs[m]
<1> DEFINE Good(m) == f[m] \in Seq(A) /\ From(seqs, f[m], m) /\ Distinct(f[m])
           S == {m \in Nat : m \in 1..Len(seqs) => Good(m)}
<1>0. /\ Len(seqs) \in Nat /\ DOMAIN seqs = 1..Len(seqs)
      /\ \A m \in 1..Len(seqs) : f[m] = IF m = 1 THEN seqs[1] ELSE f[m-1] \o seqs[m]
  <2> DEFINE g == [i \in 1..Len(seqs) |-> IF i = 1 THEN seqs[i] ELSE f[i-1] \o seqs[i]]
  <2>1. f = g
    BY Zenon DEF Prefix
  <2>2. \A m \in 1..Len(seqs) : g[m] = IF m = 1 THEN seqs[1] ELSE f[m-1] \o seqs[m]
    OBVIOUS
  <2> HIDE DEF g
  <2>3. \A m \in 1..Len(seqs) : f[m] = IF m = 1 THEN seqs[1] ELSE f[m-1] \o seqs[m]
    BY <2>1, <2>2
  <2> QED BY <2>3
<1>1. 0 \in S
  OBVIOUS
<1>2. ASSUME NEW m \in Nat, m \in S PROVE m + 1 \in S
  <2>1. SUFFICES ASSUME m + 1 \in 1..Len(seqs) PROVE Good(m + 1)
    OBVIOUS
  <2>2. CASE m = 0
    <3>1. f[1] = seqs[1] /\ 1 \in DOMAIN seqs /\ seqs[1] \in Seq(A)
      BY <1>0, <2>1, <2>2
    <3>2. From(seqs, f[1], 1)
      BY <3>1 DEF From
    <3>3. Distinct(f[1])
      BY <3>1 DEF Distinct, Apart
    <3> QED BY <3>1, <3>2, <3>3, <2>2
  <2>3. CASE m # 0
    <3>1. m \in 1..Len(seqs) /\ (m + 1) - 1 = m /\ m + 1 # 1
      BY <2>1, <2>3, <1>0
    <3>2. Good(m)
      BY <3>1, <1>2
    <3>3. f[m + 1] = f[m] \o seqs[m + 1]
      BY <1>0, <2>1, <3>1
    <3> QED BY <3>1, <3>2, <3>3, <2>1, ConcatFacts
  <2> QED BY <2>2, <2>3
<1> HIDE DEF S
<1>3. Nat \subseteq S
  BY <1>1, <1>2, NatSetInduction
<1>4. \A m \in 1..Len(seqs) : Good(m)
  BY <1>3, <1>0 DEF S
<1> QED BY <1>4, <1>0

\* The host has a NIC of that suffix, once or not at all.
Has(n) == n >= 0 /\ \E l \in DOMAIN suffix[2] : suffix[2][l] = n
Count(n) == IF Has(n) THEN 1 ELSE 0

\* Named finds a NIC of that suffix if there is one.
LEMMA NamedFacts ==
  ASSUME suffix \in Topologies, NEW n \in Int
  PROVE  /\ Named(suffix[2], n) \in Seq(DOMAIN suffix[2])
         /\ Len(Named(suffix[2], n)) = Count(n)
         /\ \A k \in DOMAIN Named(suffix[2], n) : k = 1 /\ suffix[2][Named(suffix[2], n)[k]] = n
<1> DEFINE names == suffix[2]
           found == {i \in DOMAIN names : names[i] = n /\ n >= 0}
           first == CHOOSE i \in found : \A j \in found : i <= j
<1>1. names \in Seq(Int) /\ DOMAIN names = 1..Len(names) /\ Len(names) \in Nat
  BY NamesAssumption
<1> HIDE DEF names
<1>2. CASE found = {}
  <2>1. Named(suffix[2], n) = <<>>
    BY <1>2, Zenon DEF Named, names
  <2>2. ~ Has(n)
    BY <1>2 DEF Has, names
  <2> QED BY <2>1, <2>2 DEF Count
<1>3. CASE found # {}
  <2>1. found \subseteq Nat
    BY <1>1
  <2>2. \E i \in found : \A j \in found : i <= j
    <3> HIDE DEF found
    <3> QED BY <2>1, <1>3, LeastNatural
  <2>3. first \in found
    <3> HIDE DEF found
    <3> QED BY <2>2, Zenon
  <2>4. Named(suffix[2], n) = <<first>>
    BY <1>3, Zenon DEF Named, names
  <2>5. Has(n)
    BY <2>3 DEF Has, names
  <2> HIDE DEF first
  <2>6. <<first>> \in Seq(DOMAIN names)
    BY <2>3
  <2>7. first \in DOMAIN names /\ names[first] = n
    BY <2>3
  <2> QED BY <2>4, <2>5, <2>6, <2>7 DEF Count, names
<1> QED BY <1>2, <1>3

\* The pairs of one NIC of the client: none, one or two, all different.
LEMMA TargetsOfFacts ==
  ASSUME suffix \in Topologies, NEW local \in DOMAIN suffix[1]
  PROVE  /\ TargetsOf(local) \in Seq(PairsOf(suffix))
         /\ \A k \in DOMAIN TargetsOf(local) : TargetsOf(local)[k][1] = local
         /\ Distinct(TargetsOf(local))
         /\ Len(TargetsOf(local)) = Count(suffix[1][local]) + Count(Cross(suffix[1][local]))
<1> DEFINE n == suffix[1][local]
           a == Named(suffix[2], n)
           b == Named(suffix[2], Cross(n))
           remote == a \o b
<1>1. suffix[1] \in Seq(Int) /\ suffix[2] \in Seq(Int) /\ n \in Int /\ Cross(n) \in Int /\ n # Cross(n)
  BY NamesAssumption, SMTT(30) DEF Cross
<1>2. TargetsOf(local) = [k \in DOMAIN remote |-> <<local, remote[k]>>]
  BY Zenon DEF TargetsOf
<1>3. /\ a \in Seq(DOMAIN suffix[2]) /\ Len(a) = Count(n)
      /\ \A k \in DOMAIN a : k = 1 /\ suffix[2][a[k]] = n
  BY <1>1, NamedFacts
<1>4. /\ b \in Seq(DOMAIN suffix[2]) /\ Len(b) = Count(Cross(n))
      /\ \A k \in DOMAIN b : k = 1 /\ suffix[2][b[k]] = Cross(n)
  <2> DEFINE m == Cross(n)
  <2>1. m \in Int
    BY <1>1
  <2> HIDE DEF m
  <2>2. /\ Named(suffix[2], m) \in Seq(DOMAIN suffix[2]) /\ Len(Named(suffix[2], m)) = Count(m)
        /\ \A k \in DOMAIN Named(suffix[2], m) : k = 1 /\ suffix[2][Named(suffix[2], m)[k]] = m
    BY <2>1, NamedFacts
  <2> QED BY <2>2 DEF m
<1> HIDE DEF a, b, n
<1>5. Count(n) \in {0, 1} /\ Count(Cross(n)) \in {0, 1}
  BY DEF Count
<1>6. /\ remote \in Seq(DOMAIN suffix[2]) /\ Len(remote) = Count(n) + Count(Cross(n))
      /\ DOMAIN remote = 1..Len(remote)
      /\ \A k \in DOMAIN remote : IF k <= Len(a) THEN remote[k] = a[k] /\ k \in DOMAIN a
                                  ELSE remote[k] = b[k - Len(a)] /\ k - Len(a) \in DOMAIN b
  BY <1>3, <1>4
<1> HIDE DEF remote
<1>7. \A x, y \in DOMAIN remote : remote[x] = remote[y] => x = y
  BY <1>6, <1>3, <1>4, <1>1, <1>5
<1>8. DOMAIN TargetsOf(local) = DOMAIN remote /\ \A k \in DOMAIN remote : TargetsOf(local)[k] = <<local, remote[k]>>
  BY <1>2
<1>9. Len(remote) \in Nat /\ DOMAIN suffix[1] = 1..Len(suffix[1])
  BY <1>6, <1>1
<1>10. \A k \in DOMAIN remote : <<local, remote[k]>> \in PairsOf(suffix)
  BY <1>6 DEF PairsOf
<1>11. TargetsOf(local) \in Seq(PairsOf(suffix)) /\ Len(TargetsOf(local)) = Len(remote)
  BY <1>2, <1>6, <1>9, <1>10
<1>12. Distinct(TargetsOf(local))
  BY <1>7, <1>8 DEF Distinct
<1> QED BY <1>6, <1>8, <1>11, <1>12 DEF n

\* The pairs by NIC of the client.
Nested == [local \in DOMAIN suffix[1] |-> TargetsOf(local)]

\* No pair comes twice, of one NIC or of two.
LEMMA NestedFacts ==
  ASSUME suffix \in Topologies
  PROVE  /\ Nested \in Seq(Seq(PairsOf(suffix))) /\ Len(Nested) = Len(suffix[1]) /\ Len(Nested) \in Nat
         /\ \A i \in DOMAIN suffix[1] : Nested[i] = TargetsOf(i)
         /\ Apart(Nested)
<1>1. suffix[1] \in Seq(Int) /\ DOMAIN suffix[1] = 1..Len(suffix[1]) /\ Len(suffix[1]) \in Nat
  BY NamesAssumption
<1>2. \A i \in DOMAIN suffix[1] : TargetsOf(i) \in Seq(PairsOf(suffix))
  BY TargetsOfFacts
<1>3. /\ Nested \in Seq(Seq(PairsOf(suffix))) /\ Len(Nested) = Len(suffix[1])
      /\ \A i \in DOMAIN suffix[1] : Nested[i] = TargetsOf(i)
      /\ DOMAIN Nested = DOMAIN suffix[1]
  BY <1>1, <1>2 DEF Nested
<1>4. Apart(Nested)
  <2> SUFFICES ASSUME NEW i \in DOMAIN suffix[1], NEW j \in DOMAIN suffix[1],
                      NEW k \in DOMAIN TargetsOf(i), NEW l \in DOMAIN TargetsOf(j),
                      TargetsOf(i)[k] = TargetsOf(j)[l]
               PROVE  i = j /\ k = l
    BY <1>3 DEF Apart
  <2>1. i = j
    BY TargetsOfFacts
  <2>2. Distinct(TargetsOf(i))
    BY TargetsOfFacts
  <2> QED BY <2>1, <2>2 DEF Distinct
<1> QED BY <1>1, <1>3, <1>4

\* connect() goes through every pair once.
LEMMA TargetsFacts ==
  ASSUME suffix \in Topologies
  PROVE  Targets \in Seq(PairsOf(suffix)) /\ Distinct(Targets)
<1>1. Targets = FlattenSeq(Nested)
  BY Zenon DEF Targets, Nested
<1>2. /\ Nested \in Seq(Seq(PairsOf(suffix))) /\ Len(Nested) \in Nat /\ Apart(Nested)
  BY NestedFacts
<1>3. CASE Len(Nested) = 0
  <2>1. Targets = Nested /\ Nested = <<>>
    BY <1>1, <1>2, <1>3 DEF FlattenSeq
  <2> QED BY <2>1 DEF Distinct
<1>4. CASE Len(Nested) # 0
  <2>1. PICK f : Prefix(Nested, f, Len(Nested)) /\ FlattenSeq(Nested) = f[Len(Nested)]
    BY <1>2, <1>4, FlattenIs
  <2>2. Len(Nested) \in 1..Len(Nested)
    BY <1>2, <1>4
  <2>3. f[Len(Nested)] \in Seq(PairsOf(suffix)) /\ Distinct(f[Len(Nested)])
    BY <2>1, <2>2, <1>2, PrefixFacts
  <2> QED BY <2>1, <2>3, <1>1
<1> QED BY <1>3, <1>4

\* One element more of an initial segment.
LEMMA CountOneMore ==
  ASSUME NEW T, NEW m \in Nat
  PROVE  /\ Cardinality(T \cap (1..m)) \in Nat
         /\ Cardinality(T \cap (1..(m+1))) = Cardinality(T \cap (1..m)) + IF m + 1 \in T THEN 1 ELSE 0
<1>1. IsFiniteSet(T \cap (1..m))
  <2>1. IsFiniteSet(1..m)
    BY FS_Interval
  <2> QED BY <2>1, FS_Subset
<1>2. Cardinality(T \cap (1..m)) \in Nat
  BY <1>1, FS_CardinalityType
<1>3. CASE m + 1 \in T
  <2>1. T \cap (1..(m+1)) = (T \cap (1..m)) \cup {m + 1} /\ m + 1 \notin T \cap (1..m)
    BY <1>3
  <2>2. Cardinality((T \cap (1..m)) \cup {m + 1}) = Cardinality(T \cap (1..m)) + 1
    BY <1>1, <2>1, FS_AddElement
  <2> QED BY <1>2, <1>3, <2>1, <2>2
<1>4. CASE m + 1 \notin T
  <2>1. T \cap (1..(m+1)) = T \cap (1..m)
    BY <1>4
  <2> QED BY <1>2, <1>4, <2>1
<1> QED BY <1>2, <1>3, <1>4

\* The length of a concatenation.
LEMMA LenConcat ==
  ASSUME NEW A, NEW s \in Seq(A), NEW u \in Seq(A)
  PROVE  Len(s \o u) = Len(s) + Len(u)
OBVIOUS

\* The accepting side counts exactly the pairs the connecting side goes through,
\* whatever the NICs of the two hosts are called: "must match active side exactly".
THEOREM CountsAgree ==
  ASSUME suffix \in Topologies
  PROVE  Len(Targets) = ExpectedConnections
<1> DEFINE A == {r \in DOMAIN suffix[1] : Has(suffix[1][r])}
           B == {r \in DOMAIN suffix[1] : Has(Cross(suffix[1][r]))}
           n == Len(suffix[1])
           Two(m) == Cardinality(A \cap (1..m)) + Cardinality(B \cap (1..m))
<1>1. /\ n \in Nat /\ DOMAIN suffix[1] = 1..n
      /\ Nested \in Seq(Seq(PairsOf(suffix))) /\ Len(Nested) = n /\ Apart(Nested)
      /\ \A i \in 1..n : Nested[i] = TargetsOf(i)
  <2>1. suffix[1] \in Seq(Int)
    BY NamesAssumption
  <2>2. n \in Nat /\ DOMAIN suffix[1] = 1..n
    BY <2>1
  <2>3. /\ Nested \in Seq(Seq(PairsOf(suffix))) /\ Len(Nested) = n /\ Apart(Nested)
        /\ \A i \in DOMAIN suffix[1] : Nested[i] = TargetsOf(i)
    BY NestedFacts
  <2> HIDE DEF n
  <2> QED BY <2>2, <2>3
<1>2. ExpectedConnections = Two(n)
  <2>1. ExpectedConnections = Cardinality(A) + Cardinality(B)
    BY Zenon DEF ExpectedConnections, Has
  <2>2. A \cap (1..n) = A /\ B \cap (1..n) = B
    <3> HIDE DEF n
    <3> QED BY <1>1
  <2> QED BY <2>1, <2>2, Zenon
<1>3. Targets = FlattenSeq(Nested)
  BY Zenon DEF Targets, Nested
<1>4. ASSUME NEW m \in Nat, m + 1 \in 1..n
      PROVE  Two(m) \in Nat /\ Two(m + 1) = Two(m) + Len(Nested[m + 1])
  <2>1. Len(Nested[m + 1]) = Count(suffix[1][m + 1]) + Count(Cross(suffix[1][m + 1]))
    <3> HIDE DEF n
    <3>1. m + 1 \in DOMAIN suffix[1] /\ Nested[m + 1] = TargetsOf(m + 1)
      BY <1>1, <1>4
    <3>2. PICK k : k = m + 1
      OBVIOUS
    <3>3. Len(TargetsOf(k)) = Count(suffix[1][k]) + Count(Cross(suffix[1][k]))
      BY <3>1, <3>2, TargetsOfFacts
    <3> QED BY <3>1, <3>2, <3>3, Zenon
  <2>2. m + 1 \in A <=> Has(suffix[1][m + 1])
    BY <1>1, <1>4
  <2>3. m + 1 \in B <=> Has(Cross(suffix[1][m + 1]))
    BY <1>1, <1>4
  <2> HIDE DEF A, B, n
  <2>4. /\ Cardinality(A \cap (1..m)) \in Nat
        /\ Cardinality(A \cap (1..(m+1))) = Cardinality(A \cap (1..m)) + Count(suffix[1][m + 1])
    BY <2>2, CountOneMore DEF Count
  <2>5. /\ Cardinality(B \cap (1..m)) \in Nat
        /\ Cardinality(B \cap (1..(m+1))) = Cardinality(B \cap (1..m)) + Count(Cross(suffix[1][m + 1]))
    BY <2>3, CountOneMore DEF Count
  <2>6. Count(suffix[1][m + 1]) \in Nat /\ Count(Cross(suffix[1][m + 1])) \in Nat
    BY DEF Count
  <2> QED BY <2>1, <2>4, <2>5, <2>6
<1>5. Two(0) = 0
  <2>1. A \cap (1..0) = {} /\ B \cap (1..0) = {}
    OBVIOUS
  <2> HIDE DEF A, B
  <2>2. Cardinality(A \cap (1..0)) = 0 /\ Cardinality(B \cap (1..0)) = 0
    BY <2>1, FS_EmptySet
  <2> QED BY <2>2
<1> HIDE DEF A, B, n, Two
<1>6. CASE n = 0
  <2>1. Targets = Nested /\ Len(Nested) = 0
    BY <1>1, <1>3, <1>6 DEF FlattenSeq
  <2> QED BY <1>2, <1>5, <1>6, <2>1
<1>7. CASE n # 0
  <2>1. PICK f : Prefix(Nested, f, Len(Nested)) /\ FlattenSeq(Nested) = f[Len(Nested)]
    BY <1>1, <1>7, FlattenIs
  <2>2. \A m \in 1..n : /\ f[m] \in Seq(PairsOf(suffix))
                        /\ f[m] = IF m = 1 THEN Nested[1] ELSE f[m-1] \o Nested[m]
    BY <1>1, <2>1, PrefixFacts
  <2> DEFINE S == {m \in Nat : m \in 1..n => Len(f[m]) = Two(m)}
  <2>3. 0 \in S
    OBVIOUS
  <2>4. ASSUME NEW m \in Nat, m \in S PROVE m + 1 \in S
    <3> SUFFICES ASSUME m + 1 \in 1..n PROVE Len(f[m + 1]) = Two(m + 1)
      OBVIOUS
    <3>1. Two(m) \in Nat /\ Two(m + 1) = Two(m) + Len(Nested[m + 1])
      BY <1>4
    <3>2. Nested[m + 1] \in Seq(PairsOf(suffix)) /\ Len(Nested[m + 1]) \in Nat
      BY <1>1
    <3>3. CASE m = 0
      <4>1. f[1] = Nested[1]
        BY <2>2, <3>3
      <4>2. Two(1) = Len(Nested[1])
        BY <1>5, <3>1, <3>2, <3>3
      <4> QED BY <3>3, <4>1, <4>2
    <3>4. CASE m # 0
      <4>1. m \in 1..n /\ (m + 1) - 1 = m /\ m + 1 # 1
        BY <1>1, <3>4
      <4>2. f[m + 1] = f[m] \o Nested[m + 1] /\ f[m] \in Seq(PairsOf(suffix)) /\ Len(f[m]) = Two(m)
        BY <2>2, <2>4, <4>1
      <4>3. Len(f[m] \o Nested[m + 1]) = Len(f[m]) + Len(Nested[m + 1])
        BY <3>2, <4>2, LenConcat
      <4> QED BY <3>1, <4>2, <4>3
    <3> QED BY <3>3, <3>4
  <2> HIDE DEF S
  <2>5. Nat \subseteq S
    BY <2>3, <2>4, NatSetInduction
  <2>6. n \in 1..n
    BY <1>1, <1>7
  <2>7. Len(f[n]) = Two(n)
    BY <1>1, <2>5, <2>6 DEF S
  <2> QED BY <1>1, <1>2, <1>3, <2>1, <2>7
<1> QED BY <1>6, <1>7

-----------------------------------------------------------------------------
(* The inductive invariant                                                 *)

\* The number of QPs of a pair.
N == ActualQps

\* The accept thread serves a connection; connect() is in the loop over the pairs.
Serving == srv.phase \in {"hello", "info", "status"}
InPairs(c) == conn[c].phase \in {"create", "wait"}

\* A pair has all its QPs in RTS on the connecting side; the last QP of a pair is in
\* RTS on the accepting side, on the connecting side.
ReadyA(s, p) == PairQps(s, p) \subseteq qps["active"].rts
LastP(s, p) == <<s, p, N>> \in qps["passive"].rts
LastA(s, p) == <<s, p, N>> \in qps["active"].rts

\* The messages, the states of connect() and of the thread, the ends and the QPs.
Msg == [kind : {"num_nics", "numa", "names", "qps", "info", "success", "failure"},
        pair : AllPairs \cup {<<0, 0>>}, qp : 0..N]

Call == [phase : {"idle", "hello", "create", "wait", "ok", "error"},
         attempt : 0..MaxConnects, step : 1..8, pair : Nat \ {0},
         qp : 1..ActualQps, skipped : SUBSET AllPairs]
Service == [phase : {"loop", "accept", "hello", "info", "status", "exited"},
            socket : Sockets \cup {None}, step : 1..8, pair : AllPairs \cup {<<0, 0>>},
            qp : 1..ActualQps, count : Nat]
Ends == (Sockets \cup {<<None, 0>>}) \X {"active", "passive"}
QpSets == [init : SUBSET QpIds, rts : SUBSET QpIds]

\* TypeOK, and the types of what TypeOK leaves out.
Typed ==
    /\ suffix \in Topologies
    /\ conn \in [Clients -> Call]
    /\ host \in [Clients -> [attempt : 0..MaxConnects, pairs : SUBSET AllPairs]]
    /\ qpMap \in [Clients -> [AllPairs -> 0..MaxConnects]]
    /\ up \in [Sockets -> Seq(Msg)] /\ down \in [Sockets -> Seq(Msg)]
    /\ shut \subseteq Ends
    /\ qps \in [{"active", "passive"} -> QpSets]
    /\ srv \in Service
    /\ stored \subseteq Sockets \X AllPairs /\ peers \subseteq Sockets
    /\ backlog \in Seq(Sockets \cup {<<None, 0>>})
    /\ stop \in {"no", "joining", "closed"} /\ faults \in 0..MaxFaults

\* The accept thread: what it counts, and that the last QP of its pair is not made.
SrvInv ==
    /\ IF Serving THEN Sock \in Sockets ELSE Sock = None
    /\ srv.count <= ExpectedConnections
    /\ srv.phase = "status" \/ srv.qp > 1 => (Serving => srv.count < ExpectedConnections)
    /\ srv.phase = "hello" \/ (srv.phase = "info" /\ srv.qp = 1) => srv.pair = <<0, 0>>
    /\ srv.phase = "hello" => srv.qp = 1
    /\ srv.phase \in {"info", "status"} => ~ LastP(Sock, srv.pair)
    /\ srv.phase = "status" => srv.pair \in AllPairs

\* connect() has not made the last QP of a pair it has not come to, and has made the
\* ones of its pair before the QP it is at.
ConnOk(c) ==
        /\ conn[c].phase # "idle" => conn[c].attempt > 0
        /\ conn[c].phase = "wait" => conn[c].pair <= Len(Targets)
        /\ conn[c].phase = "hello" => conn[c].pair = 1 /\ conn[c].qp = 1
        /\ conn[c].phase = "create" /\ conn[c].qp > 1 => conn[c].pair <= Len(Targets)
        /\ (InPairs(c) \/ conn[c].phase = "hello") => \A k \in conn[c].pair..Len(Targets) : ~ LastA(SocketOf(c), Targets[k])
        /\ InPairs(c) => \A q \in 1..(conn[c].qp - 1) : <<SocketOf(c), PairOf(c), q>> \in qps["active"].rts

\* Every call of connect().
ConnInv == \A c \in Clients : ConnOk(c)

\* A socket that no call has opened yet.
Fresh ==
    \A s \in Sockets : s[2] > conn[s[1]].attempt =>
        /\ up[s] = <<>> /\ down[s] = <<>>
        /\ s \notin Range(backlog) /\ ~ (Serving /\ Sock = s)
        /\ <<s, "active">> \notin shut /\ <<s, "passive">> \notin shut
        /\ \A id \in qps["active"].init \cup qps["active"].rts : id[1] # s

\* A connection that broke or was given up by both ends.
Broken(s) == {<<s, "active">>, <<s, "passive">>} \subseteq shut /\ up[s] = <<>> /\ down[s] = <<>>

\* A connection that was not accepted yet: its client has sent one message at most.
Waits(s) == \/ Broken(s)
            \/ LET c == s[1] IN
               /\ conn[c].attempt = s[2] /\ conn[c].phase = "hello" /\ down[s] = <<>>
               /\ <<s, "active">> \notin shut /\ <<s, "passive">> \notin shut
               /\ \/ conn[c].step = 1 /\ up[s] = <<>>
                  \/ conn[c].step = 2 /\ Len(up[s]) = 1

\* The backlog holds such connections, each once, and the dummy after a stop only.
Queued ==
    /\ \A i \in DOMAIN backlog : backlog[i] = <<None, 0>> => stop # "no"
    /\ \A i \in DOMAIN backlog : backlog[i] \in Sockets =>
          /\ Waits(backlog[i])
          /\ ~ (Serving /\ Sock = backlog[i])
          /\ \A j \in DOMAIN backlog : j # i => backlog[j] # backlog[i]

\* What the accepting side finds in its socket, whatever has become of the other side.
UpShape ==
    LET u == up[Sock] IN
    /\ srv.phase = "info" =>
         \/ u = <<>>
         \/ Len(u) = 1 /\ u[1].kind = "info" /\ (srv.qp > 1 => u[1].pair = srv.pair)
                       /\ ~ LastP(Sock, u[1].pair) /\ u[1].pair \in AllPairs
    /\ srv.phase = "status" =>
         \/ u = <<>>
         \/ /\ Len(u) \in {1, 2}
            /\ u[1].kind \in {"success", "failure"}
            /\ u[1].kind = "success" /\ srv.qp = N => ReadyA(Sock, srv.pair)
            /\ Len(u) = 2 =>
                 /\ u[2].kind = "info" /\ ~ LastP(Sock, u[2].pair) /\ u[2].pair \in AllPairs
                 /\ u[1].kind = "success" => (srv.qp = N <=> u[2].pair # srv.pair)

\* Where the connecting side is when the accepting side is at srv.qp and got st
After(c, st) ==
    IF st.kind = "success" /\ srv.qp < N
    THEN conn[c].qp = srv.qp + 1 /\ conn[c].pair <= Len(Targets) /\ PairOf(c) = srv.pair
    ELSE conn[c].qp = 1

\* The two sides of a connection are at the same place of the exchange, or one is a
\* message ahead.
Sync(c) ==
    LET u == up[Sock] d == down[Sock] i == conn[c].step j == srv.step IN
    /\ srv.phase = "hello" =>
         /\ conn[c].phase = "hello"
         /\ \/ j = i /\ u = <<>> /\ d = <<>>
            \/ i \in {2, 4, 6, 8} /\ j = i - 1 /\ Len(u) = 1 /\ d = <<>>
            \/ i \in {2, 4, 6, 8} /\ j = i + 1 /\ u = <<>> /\ Len(d) = 1
    /\ srv.phase = "info" =>
         \/ conn[c].phase = "hello" /\ i = 8 /\ u = <<>> /\ Len(d) = 1 /\ srv.qp = 1
         \/ /\ InPairs(c) /\ d = <<>> /\ srv.qp = conn[c].qp /\ (srv.qp > 1 => srv.pair = PairOf(c))
            /\ IF conn[c].phase = "create" THEN u = <<>> ELSE Len(u) = 1 /\ u[1].pair = PairOf(c)
    /\ srv.phase = "status" =>
         \/ conn[c].phase = "create" /\ d = <<>> /\ Len(u) = 1 /\ After(c, u[1])
         \/ conn[c].phase = "wait" /\ u = <<>> /\ Len(d) = 1 /\ srv.pair = PairOf(c) /\ srv.qp = conn[c].qp
         \/ conn[c].phase = "wait" /\ d = <<>> /\ Len(u) = 2 /\ After(c, u[1]) /\ u[2].pair = PairOf(c)

\* A connection that is served broke, is in step, or was left by connect(), which had
\* sent everything.
Lockstep ==
    Serving =>
        \/ Broken(Sock)
        \/ /\ conn[Sock[1]].attempt = Sock[2] /\ (InPairs(Sock[1]) \/ conn[Sock[1]].phase = "hello")
           /\ <<Sock, "active">> \notin shut /\ <<Sock, "passive">> \notin shut
           /\ Sync(Sock[1])
        \/ /\ conn[Sock[1]].attempt = Sock[2] => conn[Sock[1]].phase \in {"ok", "error"}
           /\ srv.phase # "hello"

\* The last QP of a pair is ready on the accepting side only if the pair is on the
\* connecting side.
Follows == \A s \in Sockets, p \in AllPairs : LastP(s, p) => ReadyA(s, p)

\* Every QP of the accepting side is in its qp_map or of the pair it is at.
OwnedP == \A q \in qps["passive"].init \cup qps["passive"].rts :
    <<q[1], q[2]>> \in stored \/ (srv.phase \in {"info", "status"} /\ q[1] = Sock /\ q[2] = srv.pair)

\* Every QP of the connecting side is in its qp_map, with the whole pair, or of the
\* pair it is at.
OwnedA == \A q \in qps["active"].init \cup qps["active"].rts :
    \/ qpMap[q[1][1]][q[2]] >= q[1][2] /\ ReadyA(q[1], q[2])
    \/ LET c == q[1][1] IN InPairs(c) /\ SocketOf(c) = q[1] /\ conn[c].pair <= Len(Targets) /\ q[2] = PairOf(c)

\* The constants.
LEMMA ConstFacts ==
  /\ N \in Nat \ {0} /\ <<0, 0>> \notin AllPairs
  /\ <<None, 0>> \notin Sockets /\ None \notin Sockets /\ MaxConnects \in Nat /\ MaxFaults \in Nat
<1>1. N \in Nat \ {0}
  BY QpsAssumption DEF N, ActualQps
<1>2. <<0, 0>> \notin AllPairs
  <2> SUFFICES ASSUME NEW top \in Topologies PROVE <<0, 0>> \notin PairsOf(top)
    BY Zenon DEF AllPairs
  <2>1. top[1] \in Seq(Int)
    BY NamesAssumption
  <2>2. 0 \notin DOMAIN top[1]
    BY <2>1
  <2> QED BY <2>2 DEF PairsOf
<1>3. <<None, 0>> \notin Sockets /\ None \notin Sockets
  BY NoneAssumption DEF Sockets
<1> QED BY <1>1, <1>2, <1>3, BoundsAssumption

\* What the NIC names make of the pairs.
LEMMA NamesFacts ==
  ASSUME suffix \in Topologies
  PROVE  /\ Targets \in Seq(AllPairs) /\ Len(Targets) \in Nat
         /\ \A k \in 1..Len(Targets) : Targets[k] \in AllPairs
         /\ \A j, k \in 1..Len(Targets) : Targets[j] = Targets[k] => j = k
         /\ Range(Targets) \subseteq AllPairs
         /\ ExpectedConnections \in Nat
<1>1. PairsOf(suffix) \subseteq AllPairs
  BY DEF AllPairs
<1>2. Targets \in Seq(PairsOf(suffix)) /\ Distinct(Targets)
  BY TargetsFacts
<1>3. Targets \in Seq(AllPairs) /\ Len(Targets) \in Nat /\ DOMAIN Targets = 1..Len(Targets)
  BY <1>1, <1>2
<1>4. ExpectedConnections \in Nat
  <2> DEFINE A == {r \in DOMAIN suffix[1] : suffix[1][r] >= 0 /\ \E l \in DOMAIN suffix[2] : suffix[2][l] = suffix[1][r]}
             B == {r \in DOMAIN suffix[1] : Cross(suffix[1][r]) >= 0 /\ \E l \in DOMAIN suffix[2] : suffix[2][l] = Cross(suffix[1][r])}
  <2>1. suffix[1] \in Seq(Int)
    BY NamesAssumption
  <2>2. IsFiniteSet(DOMAIN suffix[1])
    <3>1. DOMAIN suffix[1] = 1..Len(suffix[1]) /\ Len(suffix[1]) \in Int
      BY <2>1
    <3> QED BY <3>1, FS_Interval
  <2>3. Cardinality(A) \in Nat /\ Cardinality(B) \in Nat
    <3>1. A \in SUBSET DOMAIN suffix[1] /\ B \in SUBSET DOMAIN suffix[1]
      OBVIOUS
    <3> HIDE DEF A, B
    <3>2. IsFiniteSet(A) /\ IsFiniteSet(B)
      BY <3>1, <2>2, FS_Subset
    <3> QED BY <3>2, FS_CardinalityType
  <2>4. ExpectedConnections = Cardinality(A) + Cardinality(B)
    BY Zenon DEF ExpectedConnections
  <2> HIDE DEF A, B
  <2> QED BY <2>3, <2>4
<1>5. \A j, k \in 1..Len(Targets) : Targets[j] = Targets[k] => j = k
  BY <1>2, <1>3 DEF Distinct
<1>6. Range(Targets) \subseteq AllPairs /\ \A k \in 1..Len(Targets) : Targets[k] \in AllPairs
  BY <1>3 DEF Range
<1> QED BY <1>3, <1>4, <1>5, <1>6

\* Who sends and who receives in the exchange before the QPs.
LEMMA ScriptFacts ==
  \A i \in 1..8 :
     /\ ActiveScript[i][1] \in {"send", "recv"} /\ PassiveScript[i][1] \in {"send", "recv"}
     /\ ActiveScript[i][2] \in {"num_nics", "numa", "names", "qps"}
     /\ PassiveScript[i][2] \in {"num_nics", "numa", "names", "qps"}
     /\ ActiveScript[i][1] = "recv" <=> i \in {2, 4, 6, 8}
     /\ PassiveScript[i][1] = "send" <=> i \in {2, 4, 6, 8}
     /\ Len(ActiveScript) = 8 /\ Len(PassiveScript) = 8
  BY DEF ActiveScript, PassiveScript

\* What is sent is a message.
LEMMA Messages ==
  /\ \A kind \in {"num_nics", "numa", "names", "qps"} : Hello(kind) \in Msg
  /\ \A pair \in AllPairs, qp \in 1..N : Info(pair, qp) \in Msg
  /\ Status(TRUE) \in Msg /\ Status(FALSE) \in Msg
  BY ConstFacts DEF Hello, Info, Status, Msg

\* The types hold at first.
LEMMA TypedInit == Init => Typed
<1> SUFFICES ASSUME Init PROVE Typed
  OBVIOUS
<1> USE ConstFacts DEF Init
<1>1. conn \in [Clients -> Call]
  BY DEF Call, N
<1>2. srv \in Service
  BY DEF Service, N
<1>3. host \in [Clients -> [attempt : 0..MaxConnects, pairs : SUBSET AllPairs]]
  BY DEF NoConn
<1>4. qpMap \in [Clients -> [AllPairs -> 0..MaxConnects]]
  OBVIOUS
<1>5. up \in [Sockets -> Seq(Msg)] /\ down \in [Sockets -> Seq(Msg)]
  OBVIOUS
<1>6. qps \in [{"active", "passive"} -> QpSets]
  BY DEF QpSets
<1>7. suffix \in Topologies /\ shut \subseteq Ends /\ stored \subseteq Sockets \X AllPairs /\ peers \subseteq Sockets
      /\ backlog \in Seq(Sockets \cup {<<None, 0>>}) /\ stop \in {"no", "joining", "closed"}
      /\ faults \in 0..MaxFaults
  OBVIOUS
<1> QED BY <1>1, <1>2, <1>3, <1>4, <1>5, <1>6, <1>7 DEF Typed

\* The inductive invariant.
IInv == /\ Typed /\ SrvInv /\ ConnInv /\ Fresh /\ Queued /\ UpShape /\ Lockstep
        /\ Follows /\ OwnedP /\ OwnedA

\* Sending keeps the type of a queue.
LEMMA SentType ==
  ASSUME NEW queue \in [Sockets -> Seq(Msg)], NEW s \in Sockets, NEW peer, NEW m \in Msg
  PROVE  Sent(queue, s, peer, m) \in [Sockets -> Seq(Msg)]
<1>1. Append(queue[s], m) \in Seq(Msg)
  OBVIOUS
<1> QED BY <1>1 DEF Sent

\* Receiving keeps the type of a queue.
LEMMA TailType ==
  ASSUME NEW queue \in [Sockets -> Seq(Msg)], NEW s \in Sockets, queue[s] # <<>>
  PROVE  /\ [queue EXCEPT ![s] = Tail(@)] \in [Sockets -> Seq(Msg)]
         /\ Head(queue[s]) \in Msg
  OBVIOUS

\* Creating, connecting and destroying QPs keep the type of the sets.
LEMMA QpsType ==
  ASSUME Typed, NEW side \in {"active", "passive"}, NEW id \in QpIds, NEW ids
  PROVE  /\ CreateQp(side, id) => qps' \in [{"active", "passive"} -> QpSets]
         /\ ReadyQp(side, id) => qps' \in [{"active", "passive"} -> QpSets]
         /\ DestroyQps(side, ids) => qps' \in [{"active", "passive"} -> QpSets]
<1>1. qps \in [{"active", "passive"} -> QpSets]
  BY DEF Typed
<1>2. CreateQp(side, id) => qps' \in [{"active", "passive"} -> QpSets]
  BY <1>1 DEF CreateQp, QpSets
<1>3. ReadyQp(side, id) => qps' \in [{"active", "passive"} -> QpSets]
  BY <1>1 DEF ReadyQp, QpSets
<1>4. DestroyQps(side, ids) => qps' \in [{"active", "passive"} -> QpSets]
  BY <1>1 DEF DestroyQps, QpSets
<1> QED BY <1>2, <1>3, <1>4

\* The socket, the pair and the QP that connect() is at.
LEMMA CurrentFacts ==
  ASSUME Typed, ConnInv, NEW c \in Clients
  PROVE  /\ conn[c] \in Call
         /\ conn[c].phase # "idle" => SocketOf(c) \in Sockets
         /\ conn[c].pair <= Len(Targets) => PairOf(c) \in AllPairs
         /\ conn[c].phase # "idle" /\ conn[c].pair <= Len(Targets) => QpOf(c) \in QpIds
         /\ conn[c].phase # "idle" => /\ <<SocketOf(c), "active">> \in Ends
                                      /\ <<SocketOf(c), "passive">> \in Ends
<1>1. conn[c] \in Call
  BY DEF Typed
<1>2. conn[c].phase # "idle" => SocketOf(c) \in Sockets
  BY <1>1 DEF ConnInv, ConnOk, SocketOf, Sockets, Call
<1>3. conn[c].pair <= Len(Targets) => PairOf(c) \in AllPairs
  <2>1. conn[c].pair <= Len(Targets) => conn[c].pair \in 1..Len(Targets)
    BY <1>1, NamesFacts DEF Call, Typed
  <2> QED BY <2>1, NamesFacts DEF PairOf, Typed
<1>4. conn[c].phase # "idle" /\ conn[c].pair <= Len(Targets) => QpOf(c) \in QpIds
  BY <1>1, <1>2, <1>3 DEF QpOf, QpIds, Call
<1> QED BY <1>1, <1>2, <1>3, <1>4 DEF Ends

\* The socket and the QP that the thread is at.
LEMMA ServerFacts ==
  ASSUME Typed, SrvInv, Serving
  PROVE  /\ srv \in Service /\ Sock \in Sockets /\ srv.qp \in 1..N
         /\ <<Sock, "active">> \in Ends /\ <<Sock, "passive">> \in Ends
         /\ ServerLoop \in Service
<1>1. srv \in Service /\ Sock \in Sockets
  BY DEF Typed, SrvInv
<1> QED BY <1>1 DEF Service, Ends, ServerLoop, N

\* The connection that accept() takes.
LEMMA BacklogFacts ==
  ASSUME Typed, backlog # <<>>
  PROVE  /\ Head(backlog) \in Sockets \cup {<<None, 0>>}
         /\ Tail(backlog) \in Seq(Sockets \cup {<<None, 0>>})
         /\ <<Head(backlog), "passive">> \in Ends
         /\ 1 \in DOMAIN backlog /\ Head(backlog) = backlog[1]
<1>1. backlog \in Seq(Sockets \cup {<<None, 0>>})
  BY DEF Typed
<1> QED BY <1>1 DEF Ends

\* At most MaxConnects attempts of one client.
LEMMA AttemptBound ==
  ASSUME Typed, NEW c \in Clients, Connect(c)
  PROVE  conn[c].attempt + 1 \in 1..MaxConnects
<1> DEFINE used == {s \in Sockets : s[2] <= conn[s[1]].attempt}
           mine == {s \in Sockets : s[1] = c}
<1>1. Cardinality(used) < MaxConnects
  BY DEF Connect
<1>2. conn[c].attempt \in 0..MaxConnects
  BY DEF Typed, Call
<1>3. SUFFICES ASSUME conn[c].attempt = MaxConnects PROVE FALSE
  BY <1>2, ConstFacts
<1>4. IsFiniteSet(1..MaxConnects) /\ Cardinality(1..MaxConnects) = MaxConnects
  BY FS_Interval, ConstFacts
<1>5. IsFiniteSet(Sockets)
  BY <1>4, ClientsAssumption, FS_Product DEF Sockets
<1>6. IsFiniteSet(used)
  BY <1>5, FS_Subset
<1>7. \A n \in 1..MaxConnects : <<c, n>> \in used
  BY <1>3, <1>2 DEF Sockets
<1> DEFINE f == [n \in 1..MaxConnects |-> <<c, n>>]
<1>8. f \in Injection(1..MaxConnects, used)
  <2> HIDE DEF used
  <2> QED BY <1>7 DEF Injection, IsInjective
<1> HIDE DEF f, used
<1>9. Cardinality(1..MaxConnects) <= Cardinality(used)
  BY <1>6, <1>8, FS_Injection
<1>10. Cardinality(used) \in Nat
  BY <1>6, FS_CardinalityType
<1> QED BY <1>1, <1>4, <1>9, <1>10, ConstFacts

\* What the steps make of a call is a call.
LEMMA CallUpdates ==
  ASSUME NEW r \in Call, NEW q \in 1..ActualQps, NEW p \in AllPairs
  PROVE  /\ [r EXCEPT !.phase = "create", !.qp = q] \in Call
         /\ [r EXCEPT !.phase = "create", !.qp = q, !.pair = @ + 1] \in Call
         /\ [r EXCEPT !.phase = "create", !.qp = q, !.pair = @ + 1, !.skipped = @ \cup {p}] \in Call
<1>1. [r EXCEPT !.phase = "create"] \in Call
  BY DEF Call
<1> DEFINE r2 == [[r EXCEPT !.phase = "create"] EXCEPT !.qp = q]
<1>2. r2 \in Call /\ r2 = [r EXCEPT !.phase = "create", !.qp = q]
  BY <1>1 DEF Call
<1> HIDE DEF r2
<1> DEFINE r3 == [r2 EXCEPT !.pair = @ + 1]
<1>3. r3 \in Call /\ r3 = [r EXCEPT !.phase = "create", !.qp = q, !.pair = @ + 1]
  <2>1. r3 \in Call
    <3>1. r2.pair + 1 \in Nat \ {0}
      BY <1>2 DEF Call
    <3> QED BY <3>1, <1>2 DEF Call
  <2>2. r3 = [r EXCEPT !.phase = "create", !.qp = q, !.pair = @ + 1]
    BY <1>2 DEF Call
  <2> QED BY <2>1, <2>2
<1> HIDE DEF r3
<1>4. [r3 EXCEPT !.skipped = @ \cup {p}] \in Call
  BY <1>3 DEF Call
<1>5. [r3 EXCEPT !.skipped = @ \cup {p}] = [r EXCEPT !.phase = "create", !.qp = q, !.pair = @ + 1, !.skipped = @ \cup {p}]
  BY <1>3 DEF Call
<1> QED BY <1>2, <1>3, <1>4, <1>5

\* Which variables the shape of the state is about, and that each action keeps it.
LEMMA TypedActive ==
  ASSUME Typed, ConnInv, NEW c \in Clients,
         Connect(c) \/ Active(c) \/ ActiveCreateFails(c) \/ ActiveSkipPair(c)
  PROVE  Typed'
<1> DEFINE s == SocketOf(c)
<1>1. /\ conn[c] \in Call
      /\ conn[c].phase # "idle" => s \in Sockets
      /\ conn[c].pair <= Len(Targets) => PairOf(c) \in AllPairs
      /\ conn[c].phase # "idle" /\ conn[c].pair <= Len(Targets) => QpOf(c) \in QpIds
      /\ conn[c].phase # "idle" => /\ <<s, "active">> \in Ends /\ <<s, "passive">> \in Ends
  BY CurrentFacts
<1> HIDE DEF s
<1>2. conn \in [Clients -> Call] /\ up \in [Sockets -> Seq(Msg)] /\ down \in [Sockets -> Seq(Msg)]
      /\ shut \subseteq Ends /\ faults \in 0..MaxFaults
      /\ backlog \in Seq(Sockets \cup {<<None, 0>>})
      /\ host \in [Clients -> [attempt : 0..MaxConnects, pairs : SUBSET AllPairs]]
      /\ qpMap \in [Clients -> [AllPairs -> 0..MaxConnects]]
  BY DEF Typed
<1>3. CASE Connect(c)
  <2>1. conn' \in [Clients -> Call]
    <3>1. conn[c].attempt + 1 \in 1..MaxConnects
      BY <1>3, AttemptBound
    <3>2. [phase |-> "hello", attempt |-> conn[c].attempt + 1, step |-> 1, pair |-> 1, qp |-> 1,
           skipped |-> {}] \in Call
      BY <3>1, ConstFacts DEF Call, N
    <3> QED BY <3>2, <1>2, <1>3 DEF Connect
  <2>2. backlog' \in Seq(Sockets \cup {<<None, 0>>})
    <3>1. <<c, conn[c].attempt + 1>> \in Sockets
      BY <1>3, AttemptBound DEF Sockets
    <3> QED BY <3>1, <1>2, <1>3 DEF Connect
  <2> QED BY <1>3, <2>1, <2>2 DEF Connect, Typed
<1>4. CASE ActiveHello(c)
  <2>1. s \in Sockets /\ conn[c].step \in 1..8
    BY <1>1, <1>4 DEF ActiveHello, Call
  <2>2. ActiveScript[conn[c].step][1] \in {"send", "recv"} /\ ActiveScript[conn[c].step][2] \in {"num_nics", "numa", "names", "qps"}
        /\ Len(ActiveScript) = 8
    BY <2>1, ScriptFacts
  <2>3. conn' \in [Clients -> Call]
    <3>1. [conn[c] EXCEPT !.phase = "create"] \in Call
      BY <1>1 DEF Call
    <3>2. conn[c].step # 8 => [conn[c] EXCEPT !.step = @ + 1] \in Call
      BY <1>1, <2>1 DEF Call
    <3> QED BY <3>1, <3>2, <2>2, <1>2, <1>4 DEF ActiveHello
  <2>4. Sent(up, s, "passive", Hello(ActiveScript[conn[c].step][2])) \in [Sockets -> Seq(Msg)]
    BY <2>1, <2>2, <1>2, Messages, SentType
  <2>5. up' \in [Sockets -> Seq(Msg)] /\ down' \in [Sockets -> Seq(Msg)] /\ shut' = shut
    <3>1. CASE ActiveScript[conn[c].step][1] = "send"
      BY <3>1, <2>4, <1>2, <1>4 DEF ActiveHello, s
    <3>2. CASE ActiveScript[conn[c].step][1] = "recv"
      <4>1. down[s] # <<>> /\ down' = [down EXCEPT ![s] = Tail(@)] /\ up' = up /\ shut' = shut
        BY <3>2, <1>4 DEF ActiveHello, s
      <4> QED BY <4>1, <1>2, <2>1, TailType
    <3> QED BY <3>1, <3>2, <2>2
  <2> QED BY <1>4, <2>3, <2>5 DEF ActiveHello, Typed
<1> DEFINE Errs == [conn EXCEPT ![c].phase = "error"]
<1>5. conn[c].phase # "idle" => Errs \in [Clients -> Call] /\ shut \cup {<<s, "active">>} \subseteq Ends
  <2>1. [conn[c] EXCEPT !.phase = "error"] \in Call
    BY <1>1 DEF Call
  <2> QED BY <2>1, <1>1, <1>2
<1>6. CASE ActiveHelloLost(c)
  BY <1>6, <1>5 DEF ActiveHelloLost, Fails, Typed, s
<1>7. CASE ActiveCreate(c)
  <2>1. s \in Sockets /\ QpOf(c) \in QpIds /\ PairOf(c) \in AllPairs /\ conn[c].qp \in 1..N
    BY <1>1, <1>7 DEF ActiveCreate, Call, N
  <2>2. qps' \in [{"active", "passive"} -> QpSets]
    BY <2>1, <1>7, QpsType DEF ActiveCreate
  <2>3. up' \in [Sockets -> Seq(Msg)]
    BY <2>1, <1>2, <1>7, Messages, SentType DEF ActiveCreate, s
  <2>4. conn' \in [Clients -> Call]
    BY <1>1, <1>2, <1>7 DEF ActiveCreate, Call
  <2> QED BY <1>7, <2>2, <2>3, <2>4 DEF ActiveCreate, Typed
<1>8. ASSUME FailsInPair(c), conn[c].phase # "idle", faults' \in 0..MaxFaults PROVE Typed'
  <2>1. PICK id \in QpIds \cup {0} : TRUE
    OBVIOUS
  <2>2. qps' \in [{"active", "passive"} -> QpSets]
    BY <1>8 DEF FailsInPair, DestroyQps, Typed, QpSets
  <2> QED BY <1>8, <2>2, <1>5 DEF FailsInPair, Fails, Typed, s
<1>9. CASE ActiveCreateFails(c)
  BY <1>9, <1>8, <1>2, ConstFacts DEF ActiveCreateFails, Fault
<1>10. CASE ActiveInfoLost(c)
  BY <1>10, <1>8, <1>2 DEF ActiveInfoLost
<1>11. CASE ActiveConnectQp(c)
  <2>1. s \in Sockets /\ QpOf(c) \in QpIds /\ PairOf(c) \in AllPairs /\ conn[c].qp \in 1..N
    BY <1>1, <1>11 DEF ActiveConnectQp, Call, N, ConnInv, ConnOk
  <2>2. qps' \in [{"active", "passive"} -> QpSets]
    BY <2>1, <1>11, QpsType DEF ActiveConnectQp
  <2>3. up' \in [Sockets -> Seq(Msg)]
    BY <2>1, <1>2, <1>11, Messages, SentType DEF ActiveConnectQp, s
  <2>4. down' \in [Sockets -> Seq(Msg)]
    BY <2>1, <1>2, <1>11, TailType DEF ActiveConnectQp, s
  <2>5. conn' \in [Clients -> Call]
    <3>1. CASE conn[c].qp < ActualQps
      <4>1. [conn[c] EXCEPT !.phase = "create", !.qp = @ + 1] \in Call
        <5>1. conn[c].qp + 1 \in 1..ActualQps
          BY <3>1, <1>1, ConstFacts DEF Call, N
        <5> QED BY <5>1, <1>1, <2>1, CallUpdates, Zenon
      <4>2. conn' = [conn EXCEPT ![c] = [conn[c] EXCEPT !.phase = "create", !.qp = @ + 1]]
        BY <3>1, <1>1, <1>2, <1>11 DEF ActiveConnectQp
      <4> QED BY <4>1, <4>2, <1>2
    <3>2. CASE ~ (conn[c].qp < ActualQps)
      <4>1. [conn[c] EXCEPT !.phase = "create", !.qp = 1, !.pair = @ + 1] \in Call
        <5>1. 1 \in 1..ActualQps
          BY ConstFacts DEF N
        <5> QED BY <5>1, <1>1, <2>1, CallUpdates, Zenon
      <4>2. conn' = [conn EXCEPT ![c] = [conn[c] EXCEPT !.phase = "create", !.qp = 1, !.pair = @ + 1]]
        BY <3>2, <1>1, <1>2, <1>11 DEF ActiveConnectQp
      <4> QED BY <4>1, <4>2, <1>2
    <3> QED BY <3>1, <3>2
  <2>6. qpMap' \in [Clients -> [AllPairs -> 0..MaxConnects]]
    <3>1. conn[c].attempt \in 0..MaxConnects
      BY <1>1 DEF Call
    <3>2. CASE conn[c].qp < ActualQps
      BY <3>2, <1>2, <1>11 DEF ActiveConnectQp
    <3>3. CASE ~ (conn[c].qp < ActualQps)
      <4>1. qpMap' = [qpMap EXCEPT ![c][PairOf(c)] = conn[c].attempt]
        BY <3>3, <1>11 DEF ActiveConnectQp
      <4> QED BY <4>1, <3>1, <1>2, <2>1
    <3> QED BY <3>2, <3>3
  <2> QED BY <1>11, <2>2, <2>3, <2>4, <2>5, <2>6 DEF ActiveConnectQp, Typed
<1>12. CASE ActiveSkipPair(c)
  <2>1. s \in Sockets /\ PairOf(c) \in AllPairs
    BY <1>1, <1>12 DEF ActiveSkipPair, ConnInv, ConnOk
  <2>2. qps' \in [{"active", "passive"} -> QpSets]
    BY <1>12 DEF ActiveSkipPair, DestroyQps, Typed, QpSets
  <2>3. up' \in [Sockets -> Seq(Msg)]
    BY <2>1, <1>2, <1>12, Messages, SentType DEF ActiveSkipPair, FailureStatus, s
  <2>4. down' \in [Sockets -> Seq(Msg)]
    BY <2>1, <1>2, <1>12, TailType DEF ActiveSkipPair, s
  <2>5. conn' \in [Clients -> Call]
    <3>1. [conn[c] EXCEPT !.phase = "create", !.qp = 1, !.pair = @ + 1, !.skipped = @ \cup {PairOf(c)}] \in Call
      <4>1. 1 \in 1..ActualQps
        BY ConstFacts DEF N
      <4> QED BY <4>1, <1>1, <2>1, CallUpdates, Zenon
    <3>2. conn' = [conn EXCEPT ![c] = [conn[c] EXCEPT !.phase = "create", !.qp = 1, !.pair = @ + 1,
                                                    !.skipped = @ \cup {PairOf(c)}]]
      BY <1>1, <1>2, <1>12 DEF ActiveSkipPair
    <3> QED BY <3>1, <3>2, <1>2
  <2>6. faults' \in 0..MaxFaults
    BY <1>2, <1>12, ConstFacts DEF ActiveSkipPair, Fault
  <2> QED BY <1>12, <2>2, <2>3, <2>4, <2>5, <2>6 DEF ActiveSkipPair, Typed
<1>13. CASE ActiveFinish(c)
  <2>1. conn' \in [Clients -> Call]
    <3>1. [conn[c] EXCEPT !.phase = "error"] \in Call /\ [conn[c] EXCEPT !.phase = "ok"] \in Call
      BY <1>1 DEF Call
    <3>2. CASE Range(Targets) \ conn[c].skipped = {}
      BY <3>1, <3>2, <1>2, <1>13 DEF ActiveFinish
    <3>3. CASE Range(Targets) \ conn[c].skipped # {}
      BY <3>1, <3>3, <1>2, <1>13 DEF ActiveFinish
    <3> QED BY <3>2, <3>3
  <2>2. host' \in [Clients -> [attempt : 0..MaxConnects, pairs : SUBSET AllPairs]]
    <3>1. [attempt |-> conn[c].attempt, pairs |-> Range(Targets) \ conn[c].skipped]
             \in [attempt : 0..MaxConnects, pairs : SUBSET AllPairs]
      BY <1>1, NamesFacts DEF Call, Typed
    <3> QED BY <3>1, <1>2, <1>13 DEF ActiveFinish
  <2>3. shut' \subseteq Ends
    BY <1>1, <1>2, <1>13 DEF ActiveFinish, s
  <2> QED BY <1>13, <2>1, <2>2, <2>3 DEF ActiveFinish, Typed
<1> QED BY <1>3, <1>4, <1>6, <1>7, <1>9, <1>10, <1>11, <1>12, <1>13 DEF Active

\* The steps of the accept thread keep the types.
LEMMA TypedPassive ==
  ASSUME Typed, SrvInv, UpShape, Queued,
         Passive \/ PassiveCreateFails \/ PassiveConnectFails
  PROVE  Typed'
<1>1. /\ srv \in Service /\ up \in [Sockets -> Seq(Msg)] /\ down \in [Sockets -> Seq(Msg)]
      /\ shut \subseteq Ends /\ faults \in 0..MaxFaults /\ backlog \in Seq(Sockets \cup {<<None, 0>>})
      /\ stored \subseteq Sockets \X AllPairs /\ peers \subseteq Sockets
      /\ qps \in [{"active", "passive"} -> QpSets]
  BY DEF Typed
<1>2. Serving => /\ Sock \in Sockets /\ srv.qp \in 1..N
                 /\ <<Sock, "active">> \in Ends /\ <<Sock, "passive">> \in Ends
                 /\ ServerLoop \in Service
  BY ServerFacts
<1>3. ASSUME up[Sock] # <<>>, Serving
      PROVE  /\ [up EXCEPT ![Sock] = Tail(@)] \in [Sockets -> Seq(Msg)]
             /\ Head(up[Sock]) \in Msg /\ Head(up[Sock]) = up[Sock][1]
  BY <1>1, <1>2, <1>3, TailType
<1>4. /\ \A p \in {"loop", "accept", "hello", "info", "status", "exited"} : [srv EXCEPT !.phase = p] \in Service
      /\ NextPair \in Service
  <2>1. \A p \in {"loop", "accept", "hello", "info", "status", "exited"} : [srv EXCEPT !.phase = p] \in Service
    BY <1>1 DEF Service
  <2> DEFINE r1 == [srv EXCEPT !.phase = "info"]
             r2 == [r1 EXCEPT !.pair = <<0, 0>>]
             r3 == [r2 EXCEPT !.qp = 1]
             r4 == [r3 EXCEPT !.count = @ + 1]
  <2>2. r2 \in Service
    BY <2>1 DEF Service
  <2> HIDE DEF r2
  <2>3. r3 \in Service
    BY <2>2, ConstFacts DEF Service, N
  <2> HIDE DEF r3
  <2>4. r3.count + 1 \in Nat
    BY <2>3 DEF Service
  <2>5. r4 \in Service
    BY <2>3, <2>4 DEF Service
  <2> USE DEF r2, r3
  <2>6. NextPair = r4
    BY <1>1 DEF NextPair, Service
  <2> QED BY <2>1, <2>5, <2>6
<1>5. CASE AcceptHead
  BY <1>5, <1>4 DEF AcceptHead, Typed
<1>6. CASE Accept
  <2>1. Head(backlog) \in Sockets \cup {<<None, 0>>} /\ Tail(backlog) \in Seq(Sockets \cup {<<None, 0>>})
        /\ <<Head(backlog), "passive">> \in Ends /\ 1 \in DOMAIN backlog /\ Head(backlog) = backlog[1]
    BY <1>6, BacklogFacts DEF Accept
  <2>2. CASE stop = "no"
    <3>1. Head(backlog) \in Sockets
      BY <2>1, <2>2 DEF Queued
    <3>2. srv' \in Service
      BY <3>1, <2>2, <1>6, ConstFacts DEF Accept, Service, N
    <3> QED BY <3>2, <2>1, <2>2, <1>6 DEF Accept, Typed
  <2>3. CASE stop # "no"
    BY <2>1, <2>3, <1>6, <1>4, <1>1 DEF Accept, Typed
  <2> QED BY <2>2, <2>3
<1>7. CASE PassiveHello
  <2>1. Serving /\ srv.step \in 1..8
    BY <1>7, <1>1 DEF PassiveHello, Serving, Service
  <2>2. PassiveScript[srv.step][1] \in {"send", "recv"} /\ PassiveScript[srv.step][2] \in {"num_nics", "numa", "names", "qps"}
        /\ Len(PassiveScript) = 8
    BY <2>1, ScriptFacts
  <2>3. Sent(down, Sock, "active", Hello(PassiveScript[srv.step][2])) \in [Sockets -> Seq(Msg)]
    BY <2>1, <2>2, <1>1, <1>2, Messages, SentType
  <2>4. up' \in [Sockets -> Seq(Msg)] /\ down' \in [Sockets -> Seq(Msg)]
    BY <2>1, <2>2, <2>3, <1>1, <1>3, <1>7 DEF PassiveHello
  <2>5. srv' \in Service
    <3>1. srv.step # 8 => [srv EXCEPT !.step = @ + 1] \in Service
      <4>1. srv.step # 8 => srv.step + 1 \in 1..8
        BY <2>1
      <4> QED BY <4>1, <1>1 DEF Service
    <3> QED BY <3>1, <1>4, <1>7, <2>2 DEF PassiveHello
  <2> QED BY <1>7, <2>4, <2>5 DEF PassiveHello, Typed
<1>8. ASSUME PassiveFails, Serving, up' \in [Sockets -> Seq(Msg)], faults' \in 0..MaxFaults PROVE Typed'
  <2>1. qps' \in [{"active", "passive"} -> QpSets]
    BY <1>8, <1>1 DEF PassiveFails, DestroyQps, QpSets
  <2> QED BY <1>8, <1>2, <2>1 DEF PassiveFails, Typed
<1>9. Fault => faults' \in 0..MaxFaults
  BY <1>1, ConstFacts DEF Fault
<1>10. CASE PassiveLost
  BY <1>10, <1>8, <1>1 DEF PassiveLost, Serving
<1>11. CASE PassiveCreateFails
  BY <1>11, <1>8, <1>3, <1>9 DEF PassiveCreateFails, Serving
<1>12. CASE PassiveConnectFails
  BY <1>12, <1>8, <1>3, <1>9 DEF PassiveConnectFails, GotStatus, Serving
<1>13. CASE PassiveCreate
  <2> DEFINE pair == Head(up[Sock]).pair
  <2>1. Serving /\ up[Sock] # <<>> /\ srv.phase = "info"
    BY <1>13 DEF PassiveCreate, Serving
  <2>2. pair \in AllPairs
    BY <2>1, <1>3 DEF UpShape
  <2>3. qps' \in [{"active", "passive"} -> QpSets]
    <3>1. <<Sock, pair, srv.qp>> \in QpIds
      BY <2>1, <2>2, <1>2 DEF QpIds, N
    <3> QED BY <3>1, <1>13, QpsType DEF PassiveCreate
  <2>4. down' \in [Sockets -> Seq(Msg)]
    <3>1. Info(pair, srv.qp) \in Msg
      BY <2>1, <2>2, <1>2, Messages
    <3> HIDE DEF pair
    <3>2. Sent(down, Sock, "active", Info(pair, srv.qp)) \in [Sockets -> Seq(Msg)]
      BY <3>1, <2>1, <1>1, <1>2, SentType
    <3> QED BY <3>2, <1>13 DEF PassiveCreate, pair
  <2>5. srv' \in Service
    <3> HIDE DEF pair
    <3>1. [srv EXCEPT !.phase = "status"] \in Service
      BY <1>4
    <3>2. [[srv EXCEPT !.phase = "status"] EXCEPT !.pair = pair] \in Service
      BY <3>1, <2>2 DEF Service
    <3>3. srv' = [[srv EXCEPT !.phase = "status"] EXCEPT !.pair = pair]
      BY <1>13, <1>1 DEF PassiveCreate, pair, Service
    <3> QED BY <3>2, <3>3
  <2> QED BY <1>13, <2>1, <2>3, <2>4, <2>5, <1>3 DEF PassiveCreate, Typed
<1>14. CASE PassiveSkipPair
  <2>1. qps' \in [{"active", "passive"} -> QpSets]
    BY <1>14, <1>1 DEF PassiveSkipPair, DestroyQps, QpSets
  <2> QED BY <1>14, <2>1, <1>3, <1>4 DEF PassiveSkipPair, GotStatus, Serving, Typed
<1>15. CASE PassiveConnectQp
  <2>1. Serving /\ up[Sock] # <<>> /\ srv.phase = "status"
    BY <1>15 DEF PassiveConnectQp, GotStatus, Serving
  <2>2. srv.pair \in AllPairs
    BY <2>1 DEF SrvInv
  <2>3. qps' \in [{"active", "passive"} -> QpSets]
    <3>1. <<Sock, srv.pair, srv.qp>> \in QpIds
      BY <2>1, <2>2, <1>2 DEF QpIds, N
    <3> QED BY <3>1, <1>15, QpsType DEF PassiveConnectQp
  <2>4. CASE srv.qp < ActualQps
    <3>1. [srv EXCEPT !.phase = "info"] \in Service /\ srv.qp + 1 \in 1..ActualQps
      <4>1. srv.qp + 1 \in 1..ActualQps
        BY <2>1, <1>2, <2>4, ConstFacts DEF N
      <4> QED BY <4>1, <1>4
    <3>2. [[srv EXCEPT !.phase = "info"] EXCEPT !.qp = @ + 1] \in Service
      BY <3>1, <1>1 DEF Service
    <3>3. [srv EXCEPT !.phase = "info", !.qp = @ + 1] = [[srv EXCEPT !.phase = "info"] EXCEPT !.qp = @ + 1]
      BY <1>1 DEF Service
    <3>4. srv' \in Service /\ stored' = stored
      BY <3>2, <3>3, <1>15, <2>4 DEF PassiveConnectQp
    <3> QED BY <3>4, <2>1, <2>3, <1>3, <1>15 DEF PassiveConnectQp, GotStatus, Typed
  <2>5. CASE ~ (srv.qp < ActualQps)
    <3>1. srv' = NextPair /\ stored' = stored \cup {<<Sock, srv.pair>>}
      BY <1>15, <2>5 DEF PassiveConnectQp
    <3>2. <<Sock, srv.pair>> \in Sockets \X AllPairs
      BY <2>1, <2>2, <1>2
    <3> QED BY <3>1, <3>2, <2>1, <2>3, <1>1, <1>3, <1>4, <1>15 DEF PassiveConnectQp, GotStatus, Typed
  <2> QED BY <2>4, <2>5
<1>16. CASE PassiveFinish
  <2>1. Serving
    BY <1>16 DEF PassiveFinish, Serving
  <2> QED BY <1>16, <2>1, <1>1, <1>2 DEF PassiveFinish, Typed
<1> QED BY <1>5, <1>6, <1>7, <1>10, <1>11, <1>12, <1>13, <1>14, <1>15, <1>16 DEF Passive

\* The other steps keep the types.
LEMMA TypedOther ==
  ASSUME Typed, StopAcceptThread \/ CloseListener \/ (\E s \in Sockets : Break(s)) \/ UNCHANGED vars
  PROVE  Typed'
<1>1. /\ up \in [Sockets -> Seq(Msg)] /\ down \in [Sockets -> Seq(Msg)] /\ shut \subseteq Ends
      /\ faults \in 0..MaxFaults /\ backlog \in Seq(Sockets \cup {<<None, 0>>})
  BY DEF Typed
<1>2. CASE StopAcceptThread
  BY <1>1, <1>2 DEF StopAcceptThread, Typed
<1>3. CASE CloseListener
  <2>1. {<<s, "passive">> : s \in Range(backlog)} \subseteq Ends
    BY <1>1 DEF Range, Ends
  <2> QED BY <1>1, <1>3, <2>1 DEF CloseListener, Typed
<1>4. CASE \E s \in Sockets : Break(s)
  BY <1>1, <1>4, ConstFacts DEF Break, Fault, Ends, Typed
<1>5. CASE UNCHANGED vars
  BY <1>5 DEF vars, Typed
<1> QED BY <1>2, <1>3, <1>4, <1>5

-----------------------------------------------------------------------------
(* What the steps of one side leave alone                                  *)

\* The steps of connect() and those of the accept thread, failures included.
ActiveStep(c) == Connect(c) \/ Active(c) \/ ActiveCreateFails(c) \/ ActiveSkipPair(c)
PassiveStep == Passive \/ PassiveCreateFails \/ PassiveConnectFails

\* The pairs and their number depend on the names only, which are fixed.
LEMMA SameTargets ==
  ASSUME suffix' = suffix
  PROVE  Targets' = Targets /\ ExpectedConnections' = ExpectedConnections
<1>1. ExpectedConnections' = ExpectedConnections
  BY Zenon DEF ExpectedConnections
<1>2. \A l : TargetsOf(l)' = TargetsOf(l)
  BY Zenon DEF TargetsOf
<1>3. [l \in DOMAIN suffix'[1] |-> TargetsOf(l)'] = [l \in DOMAIN suffix[1] |-> TargetsOf(l)]
  BY <1>2
<1>4. Targets' = FlattenSeq([l \in DOMAIN suffix'[1] |-> TargetsOf(l)'])
  BY Zenon DEF Targets
<1>5. Targets = FlattenSeq([l \in DOMAIN suffix[1] |-> TargetsOf(l)])
  BY Zenon DEF Targets
<1> QED BY <1>1, <1>3, <1>4, <1>5, Zenon

\* A message goes to one queue at most.
LEMMA SentFacts ==
  ASSUME NEW queue \in [Sockets -> Seq(Msg)], NEW s \in Sockets, NEW peer, NEW m \in Msg
  PROVE  /\ \A x \in Sockets : x # s => Sent(queue, s, peer, m)[x] = queue[x]
         /\ <<s, peer>> \in shut => Sent(queue, s, peer, m) = queue
         /\ <<s, peer>> \notin shut => Sent(queue, s, peer, m)[s] = Append(queue[s], m)
  BY DEF Sent

\* What a step of connect() leaves alone.
LEMMA ActiveFrame ==
  ASSUME Typed, ConnInv, NEW c \in Clients, ActiveStep(c)
  PROVE  /\ suffix' = suffix /\ srv' = srv /\ stored' = stored /\ peers' = peers /\ stop' = stop
         /\ qps'["passive"] = qps["passive"]
         /\ \A d \in Clients \ {c} : conn'[d] = conn[d] /\ qpMap'[d] = qpMap[d]
         /\ \A x \in Sockets : x # SocketOf(c) =>
               /\ up'[x] = up[x] /\ down'[x] = down[x]
               /\ <<x, "active">> \in shut' <=> <<x, "active">> \in shut
         /\ \A x \in Sockets : <<x, "passive">> \in shut' <=> <<x, "passive">> \in shut
         /\ \A id \in QpIds : id[1] # SocketOf(c) =>
               /\ id \in qps'["active"].init <=> id \in qps["active"].init
               /\ id \in qps'["active"].rts <=> id \in qps["active"].rts
<1> DEFINE s == SocketOf(c)
<1>1. /\ conn[c].phase # "idle" => s \in Sockets
      /\ conn[c].pair <= Len(Targets) => PairOf(c) \in AllPairs
      /\ conn[c].phase # "idle" /\ conn[c].pair <= Len(Targets) => QpOf(c) \in QpIds
      /\ conn[c] \in Call
  BY CurrentFacts
<1>2. conn \in [Clients -> Call] /\ up \in [Sockets -> Seq(Msg)] /\ down \in [Sockets -> Seq(Msg)]
      /\ qps \in [{"active", "passive"} -> QpSets]
      /\ qpMap \in [Clients -> [AllPairs -> 0..MaxConnects]]
  BY DEF Typed
<1>q. ASSUME NEW id, NEW ids,
             \/ CreateQp("active", id) /\ id[1] = s
             \/ ReadyQp("active", id) /\ id[1] = s
             \/ DestroyQps("active", ids) /\ \A k \in ids : k[1] = s
             \/ qps' = qps
      PROVE  /\ qps'["passive"] = qps["passive"]
             /\ \A k \in QpIds : k[1] # s =>
                   /\ k \in qps'["active"].init <=> k \in qps["active"].init
                   /\ k \in qps'["active"].rts <=> k \in qps["active"].rts
  BY <1>q, <1>2 DEF CreateQp, ReadyQp, DestroyQps, QpSets
<1>p. \A k \in PairQps(s, PairOf(c)) : k[1] = s
  BY DEF PairQps
<1>d. QpOf(c)[1] = s
  BY DEF QpOf
<1> HIDE DEF s
<1>3. CASE Connect(c)
  BY <1>3, <1>2 DEF Connect
<1>4. CASE ActiveHello(c)
  <2>1. s \in Sockets /\ conn[c].step \in 1..8
    BY <1>1, <1>4 DEF ActiveHello, Call
  <2>2. ActiveScript[conn[c].step][2] \in {"num_nics", "numa", "names", "qps"}
    BY <2>1, ScriptFacts
  <2>3. \A x \in Sockets : x # s => up'[x] = up[x] /\ down'[x] = down[x]
    BY <2>1, <1>2, <1>4 DEF ActiveHello, s, Sent
  <2>4. shut' = shut /\ conn' = [conn EXCEPT ![c] = conn'[c]]
    BY <1>2, <1>4 DEF ActiveHello
  <2> QED BY <1>2, <1>4, <2>3, <2>4 DEF ActiveHello, s
<1>5. CASE ActiveHelloLost(c)
  BY <1>5, <1>1, <1>2 DEF ActiveHelloLost, Fails, s
<1>6. CASE ActiveCreate(c)
  <2>1. s \in Sockets /\ Info(PairOf(c), conn[c].qp) \in Msg
    BY <1>1, <1>6, Messages DEF ActiveCreate, Call, N
  <2>2. \A x \in Sockets : x # s => up'[x] = up[x]
    BY <2>1, <1>2, <1>6 DEF ActiveCreate, s, Sent
  <2>3. /\ qps'["passive"] = qps["passive"]
        /\ \A k \in QpIds : k[1] # s => /\ k \in qps'["active"].init <=> k \in qps["active"].init
                                        /\ k \in qps'["active"].rts <=> k \in qps["active"].rts
    BY <1>6, <1>q, <1>d DEF ActiveCreate
  <2> QED BY <1>6, <1>2, <2>2, <2>3 DEF ActiveCreate, s
<1>7. ASSUME FailsInPair(c), conn[c].phase # "idle"
      PROVE  /\ suffix' = suffix /\ srv' = srv /\ stored' = stored /\ peers' = peers /\ stop' = stop
             /\ qpMap' = qpMap /\ up' = up /\ down' = down
             /\ shut' = shut \cup {<<s, "active">>}
             /\ conn' = [conn EXCEPT ![c].phase = "error"]
             /\ qps'["passive"] = qps["passive"]
             /\ \A k \in QpIds : k[1] # s => /\ k \in qps'["active"].init <=> k \in qps["active"].init
                                             /\ k \in qps'["active"].rts <=> k \in qps["active"].rts
  <2>1. DestroyQps("active", PairQps(s, PairOf(c)))
    BY <1>7 DEF FailsInPair, s
  <2>2. /\ qps'["passive"] = qps["passive"]
        /\ \A k \in QpIds : k[1] # s => /\ k \in qps'["active"].init <=> k \in qps["active"].init
                                        /\ k \in qps'["active"].rts <=> k \in qps["active"].rts
    BY <2>1, <1>q, <1>p
  <2> QED BY <1>7, <2>2 DEF FailsInPair, Fails, s
<1>8. CASE ActiveCreateFails(c)
  <2>1. FailsInPair(c) /\ conn[c].phase # "idle"
    BY <1>8 DEF ActiveCreateFails
  <2> QED BY <2>1, <1>7, <1>1, <1>2 DEF s
<1>9. CASE ActiveInfoLost(c)
  <2>1. FailsInPair(c) /\ conn[c].phase # "idle"
    BY <1>9 DEF ActiveInfoLost
  <2> QED BY <2>1, <1>7, <1>1, <1>2 DEF s
<1>10. CASE ActiveConnectQp(c)
  <2>1. s \in Sockets /\ Status(TRUE) \in Msg
    BY <1>1, <1>10, Messages DEF ActiveConnectQp
  <2>2. \A x \in Sockets : x # s => up'[x] = up[x] /\ down'[x] = down[x]
    BY <2>1, <1>2, <1>10 DEF ActiveConnectQp, s, Sent
  <2>3. /\ qps'["passive"] = qps["passive"]
        /\ \A k \in QpIds : k[1] # s => /\ k \in qps'["active"].init <=> k \in qps["active"].init
                                        /\ k \in qps'["active"].rts <=> k \in qps["active"].rts
    BY <1>10, <1>q, <1>d DEF ActiveConnectQp
  <2>4. \A d \in Clients \ {c} : conn'[d] = conn[d] /\ qpMap'[d] = qpMap[d]
    BY <1>2, <1>10 DEF ActiveConnectQp
  <2> QED BY <1>10, <2>2, <2>3, <2>4 DEF ActiveConnectQp, s
<1>11. CASE ActiveSkipPair(c)
  <2>1. s \in Sockets /\ Status(FALSE) \in Msg
    BY <1>1, <1>11, Messages DEF ActiveSkipPair
  <2>2. \A x \in Sockets : x # s => up'[x] = up[x] /\ down'[x] = down[x]
    BY <2>1, <1>2, <1>11 DEF ActiveSkipPair, s, Sent
  <2>3. /\ qps'["passive"] = qps["passive"]
        /\ \A k \in QpIds : k[1] # s => /\ k \in qps'["active"].init <=> k \in qps["active"].init
                                        /\ k \in qps'["active"].rts <=> k \in qps["active"].rts
    <3>1. DestroyQps("active", PairQps(s, PairOf(c)))
      BY <1>11 DEF ActiveSkipPair, s
    <3> QED BY <3>1, <1>q, <1>p
  <2>4. \A d \in Clients \ {c} : conn'[d] = conn[d]
    BY <1>2, <1>11 DEF ActiveSkipPair
  <2> QED BY <1>11, <2>2, <2>3, <2>4 DEF ActiveSkipPair, s
<1>12. CASE ActiveFinish(c)
  <2>1. \A d \in Clients \ {c} : conn'[d] = conn[d]
    BY <1>2, <1>12 DEF ActiveFinish
  <2> QED BY <1>12, <1>1, <2>1 DEF ActiveFinish, s
<1> QED BY <1>3, <1>4, <1>5, <1>6, <1>8, <1>9, <1>10, <1>11, <1>12 DEF ActiveStep, Active

\* All QPs of the connecting side.
Ids == qps["active"].init \cup qps["active"].rts

\* What a step of connect() does to the QPs: it touches those of its pair.
LEMMA ActiveQpSets ==
  ASSUME Typed, ConnInv, NEW c \in Clients, ActiveStep(c)
  PROVE  /\ \A id \in qps["active"].rts : \/ id \in qps'["active"].rts
                                          \/ /\ InPairs(c) /\ conn[c].pair <= Len(Targets)
                                             /\ id \in PairQps(SocketOf(c), PairOf(c))
         /\ \A id \in qps'["active"].rts : \/ id \in qps["active"].rts
                                           \/ id = QpOf(c) /\ ActiveConnectQp(c)
         /\ \A id \in qps'["active"].init \cup qps'["active"].rts :
               \/ id \in qps["active"].init \cup qps["active"].rts
               \/ id = QpOf(c) /\ InPairs(c) /\ conn[c].pair <= Len(Targets)
<1> DEFINE mine == PairQps(SocketOf(c), PairOf(c))
<1>1. qps \in [{"active", "passive"} -> QpSets]
  BY DEF Typed
<1>2. conn[c].phase = "wait" => InPairs(c) /\ conn[c].pair <= Len(Targets)
  BY DEF ConnInv, ConnOk, InPairs
<1>3. ASSUME qps' = qps PROVE (/\ \A id \in qps["active"].rts : id \in qps'["active"].rts
                               /\ \A id \in qps'["active"].init \cup qps'["active"].rts : id \in qps["active"].init \cup qps["active"].rts
                               /\ \A id \in qps'["active"].rts : id \in qps["active"].rts)
  BY <1>3
<1>4. ASSUME DestroyQps("active", mine)
      PROVE  (/\ \A id \in qps["active"].rts : id \in qps'["active"].rts \/ id \in mine
              /\ \A id \in qps'["active"].init \cup qps'["active"].rts : id \in qps["active"].init \cup qps["active"].rts
              /\ \A id \in qps'["active"].rts : id \in qps["active"].rts)
  BY <1>4, <1>1 DEF DestroyQps, QpSets
<1>5. ASSUME CreateQp("active", QpOf(c))
      PROVE  (/\ qps'["active"].rts = qps["active"].rts
              /\ qps'["active"].init = qps["active"].init \cup {QpOf(c)})
  BY <1>5, <1>1 DEF CreateQp, QpSets
<1>6. ASSUME ReadyQp("active", QpOf(c))
      PROVE  (/\ qps'["active"].rts = qps["active"].rts \cup {QpOf(c)}
              /\ qps'["active"].init = qps["active"].init \ {QpOf(c)})
  BY <1>6, <1>1 DEF ReadyQp, QpSets
<1>7. CASE Connect(c) \/ ActiveHello(c) \/ ActiveHelloLost(c) \/ ActiveFinish(c)
  <2>1. qps' = qps
    BY <1>7 DEF Connect, ActiveHello, ActiveHelloLost, ActiveFinish
  <2> QED BY <2>1, <1>3
<1>8. CASE ActiveCreate(c)
  BY <1>8, <1>5 DEF ActiveCreate, InPairs
<1>9. CASE ActiveCreateFails(c) \/ ActiveInfoLost(c) \/ ActiveSkipPair(c)
  <2>1. DestroyQps("active", mine) /\ InPairs(c) /\ conn[c].pair <= Len(Targets)
    BY <1>9, <1>2 DEF ActiveCreateFails, ActiveInfoLost, ActiveSkipPair, FailsInPair, InPairs
  <2> QED BY <2>1, <1>4
<1>10. CASE ActiveConnectQp(c)
  <2>1. InPairs(c) /\ conn[c].pair <= Len(Targets)
    BY <1>10, <1>2 DEF ActiveConnectQp
  <2> QED BY <1>10, <2>1, <1>6 DEF ActiveConnectQp
<1> QED BY <1>7, <1>8, <1>9, <1>10 DEF ActiveStep, Active

\* A pair that is ready on the connecting side stays so.
LEMMA ActiveReadyKept ==
  ASSUME Typed, ConnInv, NEW c \in Clients, ActiveStep(c), NEW s \in Sockets, NEW p \in AllPairs, ReadyA(s, p)
  PROVE  ReadyA(s, p)'
<1>1. SUFFICES ASSUME NEW id \in PairQps(s, p) PROVE id \in qps'["active"].rts
  BY DEF ReadyA, PairQps
<1>2. id \in qps["active"].rts /\ id[1] = s /\ id[2] = p
  BY <1>1 DEF ReadyA, PairQps
<1>3. ASSUME InPairs(c), conn[c].pair <= Len(Targets), id \in PairQps(SocketOf(c), PairOf(c)) PROVE FALSE
  <2>1. s = SocketOf(c) /\ p = PairOf(c)
    BY <1>2, <1>3 DEF PairQps
  <2>2. LastA(s, p)
    BY ConstFacts DEF ReadyA, LastA, PairQps, N
  <2>3. conn[c].pair \in conn[c].pair..Len(Targets)
    BY <1>3, CurrentFacts, NamesFacts DEF Call, Typed
  <2> QED BY <2>1, <2>2, <2>3, <1>3 DEF ConnInv, ConnOk, PairOf
<1> QED BY <1>2, <1>3, ActiveQpSets

\* A step of connect() keeps Follows.
LEMMA ActiveFollows ==
  ASSUME Typed, ConnInv, Follows, NEW c \in Clients, ActiveStep(c)
  PROVE  Follows'
<1>1. SUFFICES ASSUME NEW s \in Sockets, NEW p \in AllPairs, LastP(s, p)' PROVE ReadyA(s, p)'
  BY DEF Follows
<1>2. LastP(s, p)
  BY <1>1, ActiveFrame DEF LastP, N
<1> QED BY <1>2, ActiveReadyKept DEF Follows

\* A step of connect() keeps what is about the accept thread.
LEMMA ActiveSrvInv ==
  ASSUME Typed, ConnInv, SrvInv, OwnedP, NEW c \in Clients, ActiveStep(c)
  PROVE  SrvInv' /\ OwnedP'
<1>1. srv' = srv /\ qps'["passive"] = qps["passive"] /\ ExpectedConnections' = ExpectedConnections /\ stored' = stored
  BY ActiveFrame, SameTargets
<1>2. SrvInv'
  BY <1>1 DEF SrvInv, Serving, Sock, LastP, N
<1>3. OwnedP'
  BY <1>1, Zenon DEF OwnedP, Sock
<1> QED BY <1>2, <1>3

\* A step of connect() keeps ConnInv.
LEMMA ActiveConnInv ==
  ASSUME Typed, ConnInv, Fresh, NEW c \in Clients, ActiveStep(c)
  PROVE  ConnInv'
<1>0. /\ suffix' = suffix /\ Targets' = Targets
      /\ \A d \in Clients \ {c} : conn'[d] = conn[d]
      /\ \A id \in QpIds : id[1] # SocketOf(c) => (id \in qps'["active"].rts <=> id \in qps["active"].rts)
  BY ActiveFrame, SameTargets
<1>t. Typed'
  BY TypedActive DEF ActiveStep
<1>k. /\ Len(Targets) \in Nat /\ \A k \in 1..Len(Targets) : Targets[k] \in AllPairs
      /\ \A j, k \in 1..Len(Targets) : Targets[j] = Targets[k] => j = k
  BY NamesFacts DEF Typed
<1>1. ASSUME NEW d \in Clients, d # c PROVE ConnOk(d)'
  <2>1. conn'[d] = conn[d] /\ conn[d] \in Call /\ ConnOk(d)
    BY <1>0, <1>1, CurrentFacts DEF ConnInv
  <2>2. SocketOf(d)' = SocketOf(d) /\ PairOf(d)' = PairOf(d) /\ InPairs(d)' = InPairs(d) /\ SocketOf(d) # SocketOf(c)
    BY <2>1, <1>0, <1>1 DEF SocketOf, PairOf, InPairs
  <2>3. SocketOf(d) \in Sockets \/ conn[d].phase = "idle"
    BY CurrentFacts
  <2>4. ASSUME InPairs(d) \/ conn[d].phase = "hello", NEW k \in conn[d].pair..Len(Targets)
        PROVE  LastA(SocketOf(d), Targets[k])' <=> LastA(SocketOf(d), Targets[k])
    <3>1. k \in 1..Len(Targets)
      BY <2>1, <1>k DEF Call
    <3>2. SocketOf(d) \in Sockets
      BY <2>3, <2>4 DEF InPairs
    <3>3. <<SocketOf(d), Targets[k], N>> \in QpIds
      BY <3>1, <3>2, <1>k, ConstFacts DEF QpIds, N
    <3> QED BY <3>3, <2>2, <1>0 DEF LastA, N
  <2>5. ASSUME InPairs(d), NEW q \in 1..(conn[d].qp - 1)
        PROVE  <<SocketOf(d), PairOf(d), q>> \in qps'["active"].rts
    <3>1. <<SocketOf(d), PairOf(d), q>> \in qps["active"].rts
      BY <2>1, <2>5 DEF ConnOk
    <3>2. <<SocketOf(d), PairOf(d), q>> \in QpIds
      BY <3>1 DEF Typed, QpSets
    <3> QED BY <3>1, <3>2, <2>2, <1>0
  <2>6. \A k \in conn[d].pair..Len(Targets) : InPairs(d) \/ conn[d].phase = "hello" => ~ LastA(SocketOf(d), Targets[k])'
    BY <2>1, <2>4 DEF ConnOk
  <2> QED BY <2>1, <2>2, <2>5, <2>6, <1>0 DEF ConnOk, LastA, N
<1>c. conn[c] \in Call /\ conn \in [Clients -> Call] /\ ConnOk(c) /\ ActualQps \in Nat \ {0}
  BY CurrentFacts, ConstFacts DEF ConnInv, Typed, N
<1>e. ASSUME conn'[c].phase \in {"error", "ok"}, conn'[c].attempt > 0 PROVE ConnOk(c)'
  BY <1>e DEF ConnOk, InPairs
<1>2. ConnOk(c)'
  <2>1. CASE Connect(c)
    <3>1. /\ conn'[c] = [phase |-> "hello", attempt |-> conn[c].attempt + 1, step |-> 1, pair |-> 1,
                         qp |-> 1, skipped |-> {}]
          /\ qps' = qps
      BY <2>1, <1>c DEF Connect
    <3>2. conn[c].attempt + 1 \in 1..MaxConnects
      BY <2>1, AttemptBound
    <3>3. SocketOf(c)' = <<c, conn[c].attempt + 1>> /\ <<c, conn[c].attempt + 1>> \in Sockets
      BY <3>1, <3>2 DEF SocketOf, Sockets
    <3>4. \A id \in qps["active"].rts : id[1] # <<c, conn[c].attempt + 1>>
      <4>1. conn[c].attempt \in Nat
        BY <1>c DEF Call
      <4> DEFINE x == <<c, conn[c].attempt + 1>>
      <4>2. x \in Sockets /\ x[1] = c /\ x[2] = conn[c].attempt + 1
        BY <3>3
      <4> HIDE DEF x
      <4>3. x[2] > conn[x[1]].attempt
        BY <4>1, <4>2
      <4>4. \A id \in qps["active"].rts : id[1] # x
        BY <4>2, <4>3 DEF Fresh
      <4> QED BY <4>4 DEF x
    <3>5. \A k : ~ LastA(SocketOf(c), Targets[k])'
      BY <3>1, <3>3, <3>4, <1>0 DEF LastA, N
    <3> QED BY <3>1, <3>2, <3>5, <1>0 DEF ConnOk, InPairs
  <2>2. CASE ActiveHello(c)
    <3>1. /\ conn'[c] = [conn[c] EXCEPT !.phase = "create"] \/ conn'[c] = [conn[c] EXCEPT !.step = @ + 1]
          /\ conn[c].phase = "hello" /\ qps' = qps
      BY <2>2, <1>c DEF ActiveHello
    <3>2. /\ conn'[c].pair = 1 /\ conn'[c].qp = 1 /\ conn'[c].attempt = conn[c].attempt /\ conn[c].attempt > 0
          /\ conn'[c].phase \in {"hello", "create"} /\ conn[c].pair = 1
      BY <3>1, <1>c DEF Call, ConnOk
    <3>3. SocketOf(c)' = SocketOf(c)
      BY <3>2 DEF SocketOf
    <3>4. \A k \in 1..Len(Targets) : ~ LastA(SocketOf(c), Targets[k])'
      BY <3>1, <3>2, <3>3, <1>0, <1>c DEF ConnOk, LastA, N
    <3> QED BY <3>2, <3>4, <1>0 DEF ConnOk, InPairs
  <2>3. CASE ActiveHelloLost(c) \/ ActiveCreateFails(c) \/ ActiveInfoLost(c)
    <3>1. conn' = [conn EXCEPT ![c].phase = "error"] /\ conn[c].phase # "idle"
      BY <2>3 DEF ActiveHelloLost, ActiveCreateFails, ActiveInfoLost, FailsInPair, Fails
    <3>2. conn'[c].phase = "error" /\ conn'[c].attempt = conn[c].attempt
      BY <3>1, <1>c DEF Call
    <3> QED BY <3>1, <3>2, <1>c, <1>e DEF ConnOk
  <2>4. CASE ActiveFinish(c)
    <3>1. conn'[c].phase \in {"error", "ok"} /\ conn'[c].attempt = conn[c].attempt /\ conn[c].phase # "idle"
      <4>1. CASE Range(Targets) \ conn[c].skipped = {}
        BY <4>1, <2>4, <1>c DEF ActiveFinish, Call
      <4>2. CASE Range(Targets) \ conn[c].skipped # {}
        BY <4>2, <2>4, <1>c DEF ActiveFinish, Call
      <4> QED BY <4>1, <4>2
    <3> QED BY <3>1, <1>c, <1>e DEF ConnOk
  <2>5. CASE ActiveCreate(c)
    <3>1. /\ conn'[c] = [conn[c] EXCEPT !.phase = "wait"]
          /\ conn[c].phase = "create" /\ conn[c].pair <= Len(Targets)
      BY <2>5, <1>c DEF ActiveCreate
    <3>2. conn'[c].phase = "wait" /\ conn'[c].attempt = conn[c].attempt /\ conn'[c].pair = conn[c].pair
          /\ conn'[c].qp = conn[c].qp
      BY <3>1, <1>c DEF Call
    <3>3. qps'["active"].rts = qps["active"].rts
      BY <2>5 DEF ActiveCreate, CreateQp, Typed, QpSets
    <3>4. SocketOf(c)' = SocketOf(c) /\ PairOf(c)' = PairOf(c)
      BY <3>2, <1>0 DEF SocketOf, PairOf
    <3> QED BY <3>1, <3>2, <3>3, <3>4, <1>0, <1>c DEF ConnOk, InPairs, LastA, N
  <2>6. CASE ActiveConnectQp(c)
    <3>0. conn[c].phase = "wait" /\ conn[c].pair \in 1..Len(Targets) /\ conn[c].qp \in 1..N /\ conn[c].attempt > 0
      BY <2>6, <1>c, <1>k DEF ActiveConnectQp, ConnOk, Call, N
    <3>1. qps'["active"].rts = qps["active"].rts \cup {QpOf(c)}
      BY <2>6 DEF ActiveConnectQp, ReadyQp, Typed, QpSets
    <3>2. CASE conn[c].qp < ActualQps
      <4>1. conn'[c] = [conn[c] EXCEPT !.phase = "create", !.qp = @ + 1]
        BY <2>6, <3>2, <1>c DEF ActiveConnectQp
      <4>2. conn'[c].phase = "create" /\ conn'[c].qp = conn[c].qp + 1 /\ conn'[c].pair = conn[c].pair
            /\ conn'[c].attempt = conn[c].attempt
        BY <4>1, <1>c DEF Call
      <4>3. SocketOf(c)' = SocketOf(c) /\ PairOf(c)' = PairOf(c)
        BY <4>2, <1>0 DEF SocketOf, PairOf
      <4>4. \A k \in conn[c].pair..Len(Targets) : ~ LastA(SocketOf(c), Targets[k])'
        BY <3>0, <3>1, <3>2, <4>3, <1>0, <1>c DEF ConnOk, InPairs, LastA, QpOf, N
      <4>5. \A q \in 1..(conn'[c].qp - 1) : <<SocketOf(c)', PairOf(c)', q>> \in qps'["active"].rts
        <5> SUFFICES ASSUME NEW q \in 1..conn[c].qp PROVE <<SocketOf(c), PairOf(c), q>> \in qps'["active"].rts
          BY <4>2, <4>3, <3>0
        <5>1. CASE q = conn[c].qp
          BY <5>1, <3>1 DEF QpOf
        <5>2. CASE q # conn[c].qp
          <6>1. q \in 1..(conn[c].qp - 1)
            BY <5>2, <3>0, ConstFacts
          <6> QED BY <6>1, <3>0, <3>1, <1>c DEF ConnOk, InPairs
        <5> QED BY <5>1, <5>2
      <4> QED BY <3>0, <4>2, <4>4, <4>5, <1>0 DEF ConnOk, InPairs
    <3>3. CASE ~ (conn[c].qp < ActualQps)
      <4>1. conn'[c] = [conn[c] EXCEPT !.phase = "create", !.qp = 1, !.pair = @ + 1]
        BY <2>6, <3>3, <1>c DEF ActiveConnectQp
      <4>2. conn'[c].phase = "create" /\ conn'[c].qp = 1 /\ conn'[c].pair = conn[c].pair + 1
            /\ conn'[c].attempt = conn[c].attempt
        BY <4>1, <1>c DEF Call
      <4>3. SocketOf(c)' = SocketOf(c)
        BY <4>2 DEF SocketOf
      <4>4. ASSUME NEW k \in (conn[c].pair + 1)..Len(Targets) PROVE ~ LastA(SocketOf(c), Targets[k])'
        <5>1. k \in conn[c].pair..Len(Targets) /\ k \in 1..Len(Targets) /\ k # conn[c].pair
          BY <3>0, <1>k
        <5>2. Targets[k] # PairOf(c)
          BY <5>1, <3>0, <1>k DEF PairOf
        <5>3. ~ LastA(SocketOf(c), Targets[k])
          BY <5>1, <3>0, <1>c DEF ConnOk, InPairs
        <5> QED BY <5>2, <5>3, <4>3, <3>1, <1>0 DEF LastA, QpOf, N
      <4> QED BY <3>0, <4>2, <4>4, <1>0 DEF ConnOk, InPairs
    <3> QED BY <3>2, <3>3
  <2>7. CASE ActiveSkipPair(c)
    <3>0. conn[c].phase = "wait" /\ conn[c].pair \in 1..Len(Targets) /\ conn[c].attempt > 0
      BY <2>7, <1>c, <1>k DEF ActiveSkipPair, ConnOk, Call
    <3>1. \A id \in qps'["active"].rts : id \in qps["active"].rts
      BY <2>7 DEF ActiveSkipPair, DestroyQps, Typed, QpSets
    <3>2. conn'[c] = [conn[c] EXCEPT !.phase = "create", !.qp = 1, !.pair = @ + 1, !.skipped = @ \cup {PairOf(c)}]
      BY <2>7, <1>c DEF ActiveSkipPair
    <3>3. conn'[c].phase = "create" /\ conn'[c].qp = 1 /\ conn'[c].pair = conn[c].pair + 1
          /\ conn'[c].attempt = conn[c].attempt
      BY <3>2, <1>c DEF Call
    <3>4. SocketOf(c)' = SocketOf(c)
      BY <3>3 DEF SocketOf
    <3>5. ASSUME NEW k \in (conn[c].pair + 1)..Len(Targets) PROVE ~ LastA(SocketOf(c), Targets[k])'
      <4>1. k \in conn[c].pair..Len(Targets)
        BY <3>0
      <4>2. ~ LastA(SocketOf(c), Targets[k])
        BY <4>1, <3>0, <1>c DEF ConnOk, InPairs
      <4> QED BY <4>2, <3>4, <3>1, <1>0 DEF LastA, N
    <3> QED BY <3>0, <3>3, <3>5, <1>0 DEF ConnOk, InPairs
  <2> QED BY <2>1, <2>2, <2>3, <2>4, <2>5, <2>6, <2>7 DEF ActiveStep, Active
<1> QED BY <1>1, <1>2 DEF ConnInv

\* Attempts only grow, by connect() alone.
LEMMA ActiveAttempt ==
  ASSUME Typed, ConnInv, NEW c \in Clients, ActiveStep(c)
  PROVE  /\ \A d \in Clients : conn'[d].attempt >= conn[d].attempt
         /\ \/ Connect(c) /\ conn'[c].attempt = conn[c].attempt + 1
            \/ ~ Connect(c) /\ conn'[c].attempt = conn[c].attempt /\ backlog' = backlog
                            /\ conn[c].phase \in {"hello", "create", "wait"}
<1>1. conn \in [Clients -> Call] /\ conn[c] \in Call /\ \A d \in Clients : conn[d].attempt \in Nat
  BY DEF Typed, Call
<1>2. \A d \in Clients : d # c => conn'[d] = conn[d]
  BY ActiveFrame
<1>3. CASE Connect(c)
  BY <1>3, <1>1, <1>2 DEF Connect
<1>4. CASE ActiveHello(c)
  <2>1. conn'[c].attempt = conn[c].attempt /\ backlog' = backlog /\ conn[c].phase = "hello"
    <3>1. /\ conn'[c] = [conn[c] EXCEPT !.phase = "create"] \/ conn'[c] = [conn[c] EXCEPT !.step = @ + 1]
          /\ conn[c].phase = "hello" /\ backlog' = backlog
      BY <1>4, <1>1 DEF ActiveHello
    <3> QED BY <3>1, <1>1 DEF Call
  <2> QED BY <2>1, <1>1, <1>2 DEF Connect
<1>5. CASE ActiveHelloLost(c) \/ ActiveCreateFails(c) \/ ActiveInfoLost(c)
  <2>1. conn' = [conn EXCEPT ![c].phase = "error"] /\ backlog' = backlog /\ conn[c].phase \in {"hello", "create", "wait"}
    BY <1>5 DEF ActiveHelloLost, ActiveCreateFails, ActiveInfoLost, FailsInPair, Fails
  <2>2. conn'[c].attempt = conn[c].attempt
    BY <2>1, <1>1
  <2> QED BY <2>1, <2>2, <1>1, <1>2 DEF Connect
<1>6. CASE ActiveCreate(c) \/ ActiveConnectQp(c) \/ ActiveSkipPair(c)
  <2>1. conn'[c].attempt = conn[c].attempt /\ backlog' = backlog /\ conn[c].phase \in {"create", "wait"}
    <3>1. CASE ActiveCreate(c)
      BY <3>1, <1>1 DEF ActiveCreate
    <3>2. CASE ActiveConnectQp(c)
      <4>1. /\ \/ conn'[c] = [conn[c] EXCEPT !.phase = "create", !.qp = @ + 1]
               \/ conn'[c] = [conn[c] EXCEPT !.phase = "create", !.qp = 1, !.pair = @ + 1]
            /\ conn[c].phase = "wait" /\ backlog' = backlog
        <5>1. CASE conn[c].qp < ActualQps
          BY <3>2, <5>1, <1>1 DEF ActiveConnectQp
        <5>2. CASE ~ (conn[c].qp < ActualQps)
          BY <3>2, <5>2, <1>1 DEF ActiveConnectQp
        <5> QED BY <5>1, <5>2
      <4> QED BY <4>1, <1>1 DEF Call
    <3>3. CASE ActiveSkipPair(c)
      BY <3>3, <1>1 DEF ActiveSkipPair
    <3> QED BY <1>6, <3>1, <3>2, <3>3
  <2> QED BY <2>1, <1>1, <1>2 DEF Connect
<1>7. CASE ActiveFinish(c)
  <2>1. conn'[c].attempt = conn[c].attempt /\ backlog' = backlog /\ conn[c].phase = "create"
    <3>1. CASE Range(Targets) \ conn[c].skipped = {}
      BY <3>1, <1>7, <1>1 DEF ActiveFinish, Call
    <3>2. CASE Range(Targets) \ conn[c].skipped # {}
      BY <3>2, <1>7, <1>1 DEF ActiveFinish, Call
    <3> QED BY <3>1, <3>2
  <2> QED BY <2>1, <1>1, <1>2 DEF Connect
<1> QED BY <1>3, <1>4, <1>5, <1>6, <1>7 DEF ActiveStep, Active

\* A step of connect() keeps Fresh.
LEMMA ActiveFresh ==
  ASSUME Typed, ConnInv, SrvInv, Fresh, NEW c \in Clients, ActiveStep(c)
  PROVE  Fresh'
<1>1. SUFFICES ASSUME NEW s \in Sockets, s[2] > conn'[s[1]].attempt
      PROVE  /\ up'[s] = <<>> /\ down'[s] = <<>>
             /\ s \notin Range(backlog') /\ ~ (Serving' /\ Sock' = s)
             /\ <<s, "active">> \notin shut' /\ <<s, "passive">> \notin shut'
             /\ \A id \in qps'["active"].init \cup qps'["active"].rts : id[1] # s
  BY DEF Fresh
<1>2. s[1] \in Clients /\ s[2] \in Nat /\ s = <<s[1], s[2]>> /\ conn[s[1]].attempt \in Nat /\ conn'[s[1]].attempt \in Nat
  <2>1. s[1] \in Clients /\ s[2] \in Nat /\ s = <<s[1], s[2]>>
    BY DEF Sockets
  <2>2. conn \in [Clients -> Call] /\ conn' \in [Clients -> Call]
    <3>1. Typed'
      BY TypedActive DEF ActiveStep
    <3> QED BY <3>1 DEF Typed
  <2> QED BY <2>1, <2>2 DEF Call
<1>3. s[2] > conn[s[1]].attempt
  BY <1>1, <1>2, ActiveAttempt
<1>4. s # SocketOf(c) /\ s # <<c, conn'[c].attempt>>
  <2>1. s[1] = c => s[2] # conn[c].attempt /\ s[2] # conn'[c].attempt
    BY <1>1, <1>2, <1>3
  <2> QED BY <2>1 DEF SocketOf
<1>5. /\ up[s] = <<>> /\ down[s] = <<>>
      /\ s \notin Range(backlog) /\ ~ (Serving /\ Sock = s)
      /\ <<s, "active">> \notin shut /\ <<s, "passive">> \notin shut
      /\ \A id \in qps["active"].init \cup qps["active"].rts : id[1] # s
  BY <1>3 DEF Fresh
<1>6. /\ up'[s] = <<>> /\ down'[s] = <<>>
      /\ ~ (Serving' /\ Sock' = s)
      /\ <<s, "active">> \notin shut' /\ <<s, "passive">> \notin shut'
  BY <1>4, <1>5, ActiveFrame DEF Serving, Sock
<1>7. \A id \in qps'["active"].init \cup qps'["active"].rts : id[1] # s
  BY <1>4, <1>5, ActiveQpSets DEF QpOf
<1>8. s \notin Range(backlog')
  <2>1. CASE Connect(c) /\ conn'[c].attempt = conn[c].attempt + 1
    <3>1. backlog' = Append(backlog, <<c, conn'[c].attempt>>)
      BY <2>1 DEF Connect
    <3> DEFINE x == <<c, conn'[c].attempt>>
    <3>2. s # x /\ backlog \in Seq(Sockets \cup {<<None, 0>>})
      BY <1>4 DEF Typed
    <3> HIDE DEF x
    <3>3. \A i \in DOMAIN Append(backlog, x) : (i \in DOMAIN backlog /\ Append(backlog, x)[i] = backlog[i]) \/ Append(backlog, x)[i] = x
      BY <3>2
    <3>4. \A i \in DOMAIN Append(backlog, x) : Append(backlog, x)[i] # s
      BY <3>2, <3>3, <1>5 DEF Range
    <3> QED BY <3>1, <3>4 DEF Range, x
  <2>2. CASE backlog' = backlog
    BY <2>2, <1>5
  <2> QED BY <2>1, <2>2, ActiveAttempt
<1> QED BY <1>6, <1>7, <1>8

\* A step of connect() keeps OwnedA.
LEMMA ActiveOwned ==
  ASSUME Typed, ConnInv, Fresh, OwnedA, NEW c \in Clients, ActiveStep(c)
  PROVE  OwnedA'
<1> DEFINE Kept(q) == qpMap[q[1][1]][q[2]] >= q[1][2] /\ ReadyA(q[1], q[2])
           Open(q) == InPairs(q[1][1]) /\ SocketOf(q[1][1]) = q[1] /\ conn[q[1][1]].pair <= Len(Targets)
                        /\ q[2] = PairOf(q[1][1])
<1>1. SUFFICES ASSUME NEW q \in qps'["active"].init \cup qps'["active"].rts PROVE Kept(q)' \/ Open(q)'
  BY DEF OwnedA
<1>0. /\ suffix' = suffix /\ Targets' = Targets
      /\ \A d \in Clients \ {c} : conn'[d] = conn[d] /\ qpMap'[d] = qpMap[d]
  BY ActiveFrame, SameTargets
<1>2. q \in QpIds /\ q[1] \in Sockets /\ q[2] \in AllPairs /\ q[1][1] \in Clients /\ q = <<q[1], q[2], q[3]>>
      /\ q[1] = <<q[1][1], q[1][2]>> /\ q[1][2] \in 1..MaxConnects
  <2>1. q \in QpIds
    BY <1>1, TypedActive DEF Typed, QpSets, ActiveStep
  <2> QED BY <2>1 DEF QpIds, Sockets
<1>3. conn[c] \in Call /\ conn \in [Clients -> Call] /\ ConnOk(c) /\ qpMap \in [Clients -> [AllPairs -> 0..MaxConnects]]
  BY CurrentFacts DEF ConnInv, Typed
<1> DEFINE mine == InPairs(c) /\ conn[c].pair <= Len(Targets) /\ q[1] = SocketOf(c) /\ q[2] = PairOf(c)
<1>4. Kept(q) \/ mine \/ (Open(q) /\ q[1][1] # c)
  <2>1. CASE q \in qps["active"].init \cup qps["active"].rts
    <3>1. Kept(q) \/ Open(q)
      BY <2>1 DEF OwnedA
    <3>2. ASSUME Open(q), q[1][1] = c PROVE mine
      BY <3>2
    <3> HIDE DEF Kept, Open, mine
    <3> QED BY <3>1, <3>2
  <2>2. CASE q = QpOf(c) /\ InPairs(c) /\ conn[c].pair <= Len(Targets)
    <3>1. q[1] = SocketOf(c) /\ q[2] = PairOf(c)
      BY <2>2 DEF QpOf
    <3> QED BY <3>1, <2>2
  <2> QED BY <2>1, <2>2, ActiveQpSets
<1>5. ASSUME Open(q), q[1][1] # c PROVE Open(q)'
  BY <1>5, <1>0, <1>2 DEF InPairs, SocketOf, PairOf
<1>6. ASSUME Kept(q) PROVE Kept(q)'
  <2>1. ReadyA(q[1], q[2])'
    BY <1>6, <1>2, ActiveReadyKept
  <2>2. qpMap'[q[1][1]][q[2]] >= q[1][2]
    <3>1. CASE q[1][1] # c
      BY <3>1, <1>6, <1>0, <1>2
    <3>2. CASE q[1][1] = c /\ qpMap'[c] = qpMap[c]
      BY <3>2, <1>6
    <3>3. CASE q[1][1] = c /\ qpMap'[c] # qpMap[c]
      <4>1. ActiveConnectQp(c) /\ qpMap' = [qpMap EXCEPT ![c][PairOf(c)] = conn[c].attempt]
        <5>1. ActiveConnectQp(c)
          BY <3>3 DEF ActiveStep, Active, Connect, ActiveHello, ActiveHelloLost, ActiveCreate, ActiveInfoLost,
                      ActiveCreateFails, ActiveSkipPair, ActiveFinish, FailsInPair, Fails
        <5> QED BY <5>1, <3>3 DEF ActiveConnectQp
      <4>2. q[1][2] <= conn[c].attempt
        <5>1. q \in Ids \/ q[1] = SocketOf(c)
          BY ActiveQpSets DEF Ids, QpOf
        <5>2. q \in Ids => ~ (q[1][2] > conn[q[1][1]].attempt)
          BY <1>2 DEF Fresh, Ids
        <5> QED BY <5>1, <5>2, <3>3, <1>2, <1>3 DEF SocketOf, Call
      <4>3. CASE q[2] = PairOf(c)
        BY <4>1, <4>2, <4>3, <3>3, <1>2, <1>3
      <4>4. CASE q[2] # PairOf(c)
        BY <4>1, <4>4, <3>3, <1>6, <1>2, <1>3
      <4> QED BY <4>3, <4>4
    <3> QED BY <3>1, <3>2, <3>3
  <2> QED BY <2>1, <2>2
<1>7. ASSUME mine PROVE Kept(q)' \/ Open(q)'
  <2>0. c = q[1][1] /\ conn[c].phase \in {"create", "wait"} /\ conn[c].attempt > 0 /\ conn[c].pair \in 1..Len(Targets)
    BY <1>7, <1>2, <1>3, NamesFacts DEF SocketOf, InPairs, ConnOk, Typed, Call
  <2>1. CASE ActiveCreate(c)
    <3>1. conn'[c] = [conn[c] EXCEPT !.phase = "wait"]
      BY <2>1, <1>3 DEF ActiveCreate
    <3>2. conn'[c].phase = "wait" /\ conn'[c].attempt = conn[c].attempt /\ conn'[c].pair = conn[c].pair
      BY <3>1, <1>3 DEF Call
    <3> QED BY <3>2, <1>7, <2>0, <1>0 DEF InPairs, SocketOf, PairOf
  <2>2. CASE ActiveCreateFails(c) \/ ActiveInfoLost(c) \/ ActiveSkipPair(c)
    <3>1. DestroyQps("active", PairQps(SocketOf(c), PairOf(c)))
      BY <2>2 DEF ActiveCreateFails, ActiveInfoLost, ActiveSkipPair, FailsInPair
    <3>2. q \notin PairQps(SocketOf(c), PairOf(c))
      BY <3>1, <1>1 DEF DestroyQps, Typed, QpSets
    <3> QED BY <3>2, <1>2, <1>7 DEF PairQps, QpIds
  <2>3. CASE ActiveConnectQp(c)
    <3>1. CASE conn[c].qp < ActualQps
      <4>1. conn'[c] = [conn[c] EXCEPT !.phase = "create", !.qp = @ + 1]
        BY <2>3, <3>1, <1>3 DEF ActiveConnectQp
      <4>2. conn'[c].phase = "create" /\ conn'[c].attempt = conn[c].attempt /\ conn'[c].pair = conn[c].pair
        BY <4>1, <1>3 DEF Call
      <4> QED BY <4>2, <1>7, <2>0, <1>0 DEF InPairs, SocketOf, PairOf
    <3>2. CASE ~ (conn[c].qp < ActualQps)
      <4>1. qpMap' = [qpMap EXCEPT ![c][PairOf(c)] = conn[c].attempt]
        BY <2>3, <3>2 DEF ActiveConnectQp
      <4>2. qpMap'[q[1][1]][q[2]] >= q[1][2]
        BY <4>1, <2>0, <1>7, <1>2, <1>3 DEF SocketOf, Call
      <4>3. ReadyA(q[1], q[2])'
        <5>1. SUFFICES ASSUME NEW k \in 1..ActualQps PROVE <<SocketOf(c), PairOf(c), k>> \in qps'["active"].rts
          BY <1>7 DEF ReadyA, PairQps
        <5>2. qps'["active"].rts = qps["active"].rts \cup {QpOf(c)}
          BY <2>3 DEF ActiveConnectQp, ReadyQp, Typed, QpSets
        <5>3. conn[c].qp = ActualQps /\ ActualQps \in Nat
          <6>1. conn[c].qp \in 1..ActualQps /\ ActualQps \in Nat
            BY <1>3, ConstFacts DEF Call, N
          <6> QED BY <6>1, <3>2
        <5>4. CASE k = ActualQps
          BY <5>2, <5>3, <5>4 DEF QpOf
        <5>5. CASE k # ActualQps
          <6>1. k \in 1..(conn[c].qp - 1)
            BY <5>3, <5>5
          <6> QED BY <6>1, <5>2, <1>7, <1>3 DEF ConnOk
        <5> QED BY <5>4, <5>5
      <4> QED BY <4>2, <4>3
    <3> QED BY <3>1, <3>2
  <2>4. ~ (Connect(c) \/ ActiveHello(c) \/ ActiveHelloLost(c) \/ ActiveFinish(c))
    BY <2>0, NamesFacts, SMTT(30) DEF Connect, ActiveHello, ActiveHelloLost, ActiveFinish, Typed
  <2> QED BY <2>1, <2>2, <2>3, <2>4 DEF ActiveStep, Active
<1> QED BY <1>4, <1>5, <1>6, <1>7

\* What a step of connect() does to the call.
LEMMA ActiveCall ==
  ASSUME Typed, ConnInv, NEW c \in Clients
  PROVE  /\ Connect(c) => conn'[c].attempt = conn[c].attempt + 1 /\ conn'[c].phase = "hello" /\ conn'[c].step = 1
         /\ ActiveHello(c) =>
               /\ conn'[c].attempt = conn[c].attempt /\ conn'[c].pair = conn[c].pair /\ conn'[c].qp = conn[c].qp
               /\ conn[c].step = 8 => conn'[c].phase = "create"
               /\ conn[c].step # 8 => conn'[c].phase = "hello" /\ conn'[c].step = conn[c].step + 1
         /\ ActiveCreate(c) =>
               /\ conn'[c].attempt = conn[c].attempt /\ conn'[c].pair = conn[c].pair /\ conn'[c].qp = conn[c].qp
               /\ conn'[c].phase = "wait"
         /\ Fails(c) => conn'[c].attempt = conn[c].attempt /\ conn'[c].phase = "error"
         /\ ActiveConnectQp(c) =>
               /\ conn'[c].attempt = conn[c].attempt /\ conn'[c].phase = "create"
               /\ conn[c].qp < N => conn'[c].pair = conn[c].pair /\ conn'[c].qp = conn[c].qp + 1
               /\ conn[c].qp = N => conn'[c].pair = conn[c].pair + 1 /\ conn'[c].qp = 1
         /\ ActiveSkipPair(c) =>
               /\ conn'[c].attempt = conn[c].attempt /\ conn'[c].phase = "create"
               /\ conn'[c].pair = conn[c].pair + 1 /\ conn'[c].qp = 1
         /\ ActiveFinish(c) => conn'[c].attempt = conn[c].attempt /\ conn'[c].phase \in {"ok", "error"}
<1>1. conn \in [Clients -> Call] /\ conn[c] \in Call
  BY DEF Typed
<1>2. ASSUME Connect(c)
      PROVE  conn'[c].attempt = conn[c].attempt + 1 /\ conn'[c].phase = "hello" /\ conn'[c].step = 1
  BY <1>1, <1>2 DEF Connect
<1>3. ASSUME ActiveHello(c)
      PROVE  /\ conn'[c].attempt = conn[c].attempt /\ conn'[c].pair = conn[c].pair /\ conn'[c].qp = conn[c].qp
             /\ conn[c].step = 8 => conn'[c].phase = "create"
             /\ conn[c].step # 8 => conn'[c].phase = "hello" /\ conn'[c].step = conn[c].step + 1
  <2>1. /\ conn[c].step = 8 => conn'[c] = [conn[c] EXCEPT !.phase = "create"]
        /\ conn[c].step # 8 => conn'[c] = [conn[c] EXCEPT !.step = @ + 1]
        /\ conn[c].phase = "hello"
    <3>1. Len(ActiveScript) = 8
      BY DEF ActiveScript
    <3> QED BY <1>3, <1>1, <3>1 DEF ActiveHello
  <2> QED BY <2>1, <1>1 DEF Call
<1>4. ASSUME ActiveCreate(c)
      PROVE  /\ conn'[c].attempt = conn[c].attempt /\ conn'[c].pair = conn[c].pair /\ conn'[c].qp = conn[c].qp
             /\ conn'[c].phase = "wait"
  <2>1. conn'[c] = [conn[c] EXCEPT !.phase = "wait"]
    BY <1>1, <1>4 DEF ActiveCreate
  <2> QED BY <2>1, <1>1 DEF Call
<1>5. ASSUME Fails(c) PROVE conn'[c].attempt = conn[c].attempt /\ conn'[c].phase = "error"
  <2>1. conn'[c] = [conn[c] EXCEPT !.phase = "error"]
    BY <1>1, <1>5 DEF Fails
  <2> QED BY <2>1, <1>1 DEF Call
<1>6. ASSUME ActiveConnectQp(c)
      PROVE  /\ conn'[c].attempt = conn[c].attempt /\ conn'[c].phase = "create"
             /\ conn[c].qp < N => conn'[c].pair = conn[c].pair /\ conn'[c].qp = conn[c].qp + 1
             /\ conn[c].qp = N => conn'[c].pair = conn[c].pair + 1 /\ conn'[c].qp = 1
  <2>1. CASE conn[c].qp < ActualQps
    <3>1. conn'[c] = [conn[c] EXCEPT !.phase = "create", !.qp = @ + 1]
      BY <1>1, <1>6, <2>1 DEF ActiveConnectQp
    <3> QED BY <3>1, <2>1, <1>1, ConstFacts DEF Call, N
  <2>2. CASE ~ (conn[c].qp < ActualQps)
    <3>1. conn'[c] = [conn[c] EXCEPT !.phase = "create", !.qp = 1, !.pair = @ + 1]
      BY <1>1, <1>6, <2>2 DEF ActiveConnectQp
    <3> QED BY <3>1, <2>2, <1>1, ConstFacts DEF Call, N
  <2> QED BY <2>1, <2>2
<1>7. ASSUME ActiveSkipPair(c)
      PROVE  /\ conn'[c].attempt = conn[c].attempt /\ conn'[c].phase = "create"
             /\ conn'[c].pair = conn[c].pair + 1 /\ conn'[c].qp = 1
  <2>1. conn'[c] = [conn[c] EXCEPT !.phase = "create", !.qp = 1, !.pair = @ + 1, !.skipped = @ \cup {PairOf(c)}]
    BY <1>1, <1>7 DEF ActiveSkipPair
  <2> QED BY <2>1, <1>1 DEF Call
<1>8. ASSUME ActiveFinish(c) PROVE conn'[c].attempt = conn[c].attempt /\ conn'[c].phase \in {"ok", "error"}
  <2>1. conn'[c] = [conn[c] EXCEPT !.phase = "ok"] \/ conn'[c] = [conn[c] EXCEPT !.phase = "error"]
    BY <1>1, <1>8 DEF ActiveFinish
  <2> QED BY <2>1, <1>1 DEF Call
<1> QED BY <1>2, <1>3, <1>4, <1>5, <1>6, <1>7, <1>8

\* A broken connection stays broken: nothing arrives in it, and it is not opened again.
LEMMA ActiveBroken ==
  ASSUME Typed, ConnInv, NEW c \in Clients, ActiveStep(c), NEW s \in Sockets, Broken(s)
  PROVE  Broken(s)'
<1>1. CASE s # SocketOf(c)
  BY <1>1, ActiveFrame DEF Broken
<1>2. CASE s = SocketOf(c)
  <2>1. shut \subseteq shut'
    BY DEF ActiveStep, Active, Connect, ActiveHello, ActiveHelloLost, ActiveCreate, ActiveInfoLost, ActiveConnectQp,
           ActiveFinish, ActiveCreateFails, ActiveSkipPair, FailsInPair, Fails
  <2>2. down' = down
    BY <1>2 DEF Broken, ActiveStep, Active, Connect, ActiveHello, ActiveHelloLost, ActiveCreate, ActiveInfoLost,
                ActiveConnectQp, ActiveFinish, ActiveCreateFails, ActiveSkipPair, FailsInPair
  <2>3. up' = up
    BY <1>2 DEF Broken, Sent, ActiveStep, Active, Connect, ActiveHello, ActiveHelloLost, ActiveCreate, ActiveInfoLost,
                ActiveConnectQp, ActiveFinish, ActiveCreateFails, ActiveSkipPair, FailsInPair, Fails
  <2> QED BY <2>1, <2>2, <2>3 DEF Broken
<1> QED BY <1>1, <1>2

\* A connection in the backlog: its client has sent at most its first message.
LEMMA ActiveWaits ==
  ASSUME Typed, ConnInv, NEW c \in Clients, ActiveStep(c), NEW s \in Sockets, Waits(s)
  PROVE  Waits(s)'
<1>1. CASE Broken(s)
  BY <1>1, ActiveBroken DEF Waits
<1>2. ASSUME ~ Broken(s), s # SocketOf(c) PROVE Waits(s)'
  <2>1. s[1] \in Clients /\ s = <<s[1], s[2]>>
    BY DEF Sockets
  <2>2. s[1] # c
    BY <1>2, <2>1 DEF Waits, SocketOf
  <2> QED BY <1>2, <2>1, <2>2, ActiveFrame DEF Waits
<1>3. ASSUME ~ Broken(s), s = SocketOf(c) PROVE Waits(s)'
  <2>1. /\ conn[c].phase = "hello" /\ down[s] = <<>> /\ s[1] = c /\ s[2] = conn[c].attempt
        /\ <<s, "active">> \notin shut /\ <<s, "passive">> \notin shut
        /\ (conn[c].step = 1 /\ up[s] = <<>>) \/ (conn[c].step = 2 /\ Len(up[s]) = 1)
    BY <1>3 DEF Waits, SocketOf
  <2>2. ActiveHello(c)
    BY <2>1, <1>3 DEF ActiveStep, Active, Connect, ActiveHelloLost, Lost, ActiveCreate, ActiveInfoLost, ActiveConnectQp,
                      ActiveFinish, ActiveCreateFails, ActiveSkipPair
  <2>3. conn[c].step = 1 /\ up[s] = <<>>
    BY <2>1, <2>2, <1>3, ScriptFacts DEF ActiveHello
  <2>4. up' = Sent(up, s, "passive", Hello(ActiveScript[1][2])) /\ down' = down /\ shut' = shut
    BY <2>1, <2>2, <2>3, <1>3, ScriptFacts DEF ActiveHello
  <2>5. up'[s] = Append(up[s], Hello(ActiveScript[1][2]))
    BY <2>1, <2>4 DEF Sent, Typed
  <2>6. Len(up'[s]) = 1
    BY <2>5, <2>3
  <2>7. conn'[c].phase = "hello" /\ conn'[c].step = 2 /\ conn'[c].attempt = conn[c].attempt
    BY <2>2, <2>3, ActiveCall
  <2> QED BY <2>1, <2>4, <2>6, <2>7 DEF Waits
<1> QED BY <1>1, <1>2, <1>3

\* A step of connect() keeps Queued.
LEMMA ActiveQueued ==
  ASSUME Typed, ConnInv, Fresh, Queued, NEW c \in Clients, ActiveStep(c)
  PROVE  Queued'
<1>1. srv' = srv /\ stop' = stop
  BY ActiveFrame
<1>2. CASE ~ Connect(c)
  <2>1. backlog' = backlog
    BY <1>2, ActiveAttempt
  <2> QED BY <1>1, <2>1, ActiveWaits DEF Queued, Serving, Sock
<1>3. CASE Connect(c)
  <2>x. PICK x : x = <<c, conn[c].attempt + 1>>
    OBVIOUS
  <2>1. backlog' = Append(backlog, x) /\ up' = up /\ down' = down /\ shut' = shut
        /\ conn'[c].attempt = conn[c].attempt + 1 /\ conn'[c].phase = "hello" /\ conn'[c].step = 1
    BY <1>3, <2>x, ActiveCall DEF Connect
  <2>2. x \in Sockets /\ x[1] = c /\ x[2] > conn[c].attempt /\ x[2] = conn[c].attempt + 1 /\ x # <<None, 0>>
    <3>1. conn[c].attempt + 1 \in 1..MaxConnects /\ conn[c].attempt \in Nat
      BY <1>3, AttemptBound DEF Typed, Call
    <3>2. x \in Sockets
      BY <2>x, <3>1 DEF Sockets
    <3> QED BY <2>x, <3>1, <3>2, ConstFacts
  <2>3. /\ up[x] = <<>> /\ down[x] = <<>>
        /\ x \notin Range(backlog) /\ ~ (Serving /\ Sock = x)
        /\ <<x, "active">> \notin shut /\ <<x, "passive">> \notin shut
    BY <2>2 DEF Fresh
  <2>4. Waits(x)'
    BY <2>1, <2>2, <2>3 DEF Waits
  <2>5. /\ backlog \in Seq(Sockets \cup {<<None, 0>>})
        /\ \A i \in DOMAIN backlog' : \/ i \in DOMAIN backlog /\ backlog'[i] = backlog[i]
                                      \/ i = Len(backlog) + 1 /\ backlog'[i] = x
        /\ \A i \in DOMAIN backlog : backlog[i] # x /\ i # Len(backlog) + 1
    <3>1. backlog \in Seq(Sockets \cup {<<None, 0>>}) /\ Len(backlog) \in Nat /\ DOMAIN backlog = 1..Len(backlog)
      BY DEF Typed
    <3> QED BY <3>1, <2>1, <2>3 DEF Range
  <2>6. ASSUME NEW i \in DOMAIN backlog', backlog'[i] = <<None, 0>> PROVE stop' # "no"
    BY <2>6, <2>5, <2>2, <1>1 DEF Queued
  <2>7. ASSUME NEW i \in DOMAIN backlog', NEW y \in Sockets, y = backlog'[i]
        PROVE  /\ Waits(y)'
               /\ ~ (Serving' /\ Sock' = y)
               /\ \A j \in DOMAIN backlog' : j # i => backlog'[j] # y
    <3>1. CASE i \in DOMAIN backlog /\ backlog'[i] = backlog[i]
      <4>1. Waits(y) /\ ~ (Serving /\ Sock = y)
        BY <3>1, <2>7 DEF Queued
      <4>2. \A j \in DOMAIN backlog' : j # i => backlog'[j] # y
        BY <3>1, <2>5, <2>7 DEF Queued
      <4> QED BY <4>1, <4>2, <1>1, ActiveWaits DEF Serving, Sock
    <3>2. CASE i = Len(backlog) + 1 /\ backlog'[i] = x
      <4>1. y = x
        BY <3>2, <2>7
      <4>2. \A j \in DOMAIN backlog' : j # i => backlog'[j] # y
        BY <3>2, <4>1, <2>5
      <4> QED BY <4>1, <4>2, <2>3, <2>4, <1>1 DEF Serving, Sock
    <3> QED BY <3>1, <3>2, <2>5
  <2>8. ASSUME NEW i \in DOMAIN backlog', backlog'[i] \in Sockets
        PROVE  /\ Waits(backlog[i])'
               /\ ~ (Serving' /\ Sock' = backlog'[i])
               /\ \A j \in DOMAIN backlog' : j # i => backlog'[j] # backlog'[i]
    <3>1. PICK y \in Sockets : y = backlog'[i]
      BY <2>8
    <3> QED BY <3>1, <2>7 DEF Waits, Broken
  <2> QED BY <2>6, <2>8 DEF Queued
<1> QED BY <1>2, <1>3

\* The message a step of connect() adds to the queue of a socket that is open.
LEMMA SentOpen ==
  ASSUME Typed, NEW s \in Sockets, <<s, "passive">> \notin shut, NEW m \in Msg, up' = Sent(up, s, "passive", m)
  PROVE  up'[s] = Append(up[s], m)
  BY DEF Sent, Typed

\* A message into an empty socket.
LEMMA AppendOne ==
    ASSUME NEW q, NEW m, q = <<>>
    PROVE  Append(q, m) = <<m>> /\ Len(Append(q, m)) = 1 /\ Append(q, m)[1] = m
<1>1. Append(<<>>, m) = <<m>>
  OBVIOUS
<1>2. Len(<<m>>) = 1 /\ <<m>>[1] = m
  OBVIOUS
<1> QED BY <1>1, <1>2, Zenon

\* A message added to a queue of none or of one.
LEMMA AppendFacts ==
  /\ \A q, m : q = <<>> => Append(q, m) = <<m>> /\ Len(Append(q, m)) = 1 /\ Append(q, m)[1] = m
  /\ \A q \in Seq(Msg), m \in Msg : Len(q) = 1 => /\ Len(Append(q, m)) = 2 /\ Append(q, m)[1] = q[1]
                                                 /\ Append(q, m)[2] = m
  /\ \A q \in Seq(Msg) : Len(q) = 1 => Tail(q) = <<>> /\ Head(q) = q[1] /\ q # <<>>
<1>1. \A q, m : q = <<>> => Append(q, m) = <<m>> /\ Len(Append(q, m)) = 1 /\ Append(q, m)[1] = m
  <2>1. \A m : Append(<<>>, m) = <<m>>
    OBVIOUS
  <2>2. \A m : Len(<<m>>) = 1 /\ <<m>>[1] = m
    OBVIOUS
  <2> QED BY <2>1, <2>2, Zenon
<1>2. \A q \in Seq(Msg), m \in Msg : Len(q) = 1 => /\ Len(Append(q, m)) = 2 /\ Append(q, m)[1] = q[1]
                                                     /\ Append(q, m)[2] = m
  <2> SUFFICES ASSUME NEW S, NEW q \in Seq(S), NEW m \in S, Len(q) = 1
               PROVE  Len(Append(q, m)) = 2 /\ Append(q, m)[1] = q[1] /\ Append(q, m)[2] = m
    BY Zenon
  <2>1. /\ Len(Append(q, m)) = Len(q) + 1 /\ Append(q, m)[Len(q) + 1] = m
        /\ \A i \in 1..Len(q) : Append(q, m)[i] = q[i]
    BY AppendProperties, ZenonT(40)
  <2>2. 1 \in 1..Len(q) /\ Len(q) + 1 = 2
    OBVIOUS
  <2> QED BY <2>1, <2>2, Zenon
<1>3. \A q \in Seq(Msg) : Len(q) = 1 => Tail(q) = <<>> /\ Head(q) = q[1] /\ q # <<>>
  <2> SUFFICES ASSUME NEW S, NEW q \in Seq(S), Len(q) = 1
               PROVE  Tail(q) = <<>> /\ Head(q) = q[1] /\ q # <<>>
    BY Zenon
  <2>1. q # <<>> /\ Head(q) = q[1]
    OBVIOUS
  <2>2. Tail(q) \in Seq(S) /\ Len(Tail(q)) = 0
    BY <2>1, HeadTailProperties
  <2> QED BY <2>1, <2>2, EmptySeq
<1> QED BY <1>1, <1>2, <1>3

\* The serving thread and connect() at its other end stay in step: the case of a
\* connection both ends of which are open.
LEMMA ActiveInStep ==
  ASSUME IInv, NEW c \in Clients, ActiveStep(c), Serving,
         NEW s \in Sockets, s = SocketOf(c), Sock = s, NEW u, u = up[s], NEW d, d = down[s],
         InPairs(c) \/ conn[c].phase = "hello",
         <<s, "active">> \notin shut, <<s, "passive">> \notin shut, Sync(c)
  PROVE  UpShape' /\ Lockstep'
<1>1. /\ conn[c] \in Call /\ s \in Sockets /\ Sock = s /\ s[1] = c /\ s[2] = conn[c].attempt
      /\ conn[c].pair <= Len(Targets) => PairOf(c) \in AllPairs
      /\ Typed /\ ConnInv /\ ConnOk(c) /\ srv \in Service /\ srv.step \in 1..8 /\ srv.qp \in 1..N /\ N \in Nat
      /\ conn[c].step \in 1..8 /\ conn[c].qp \in 1..N
      /\ u \in Seq(Msg) /\ d \in Seq(Msg) /\ up \in [Sockets -> Seq(Msg)] /\ down \in [Sockets -> Seq(Msg)]
  BY CurrentFacts, ServerFacts, ConstFacts DEF IInv, SocketOf, ConnInv, Service, Typed, Call, N
<1>2. /\ srv' = srv /\ Sock' = s /\ Serving' /\ Targets' = Targets /\ suffix' = suffix
      /\ \A p : LastP(s, p)' <=> LastP(s, p)
      /\ \A p \in AllPairs : ReadyA(s, p) => ReadyA(s, p)'
  BY <1>1, ActiveFrame, SameTargets, ActiveReadyKept DEF Serving, Sock, LastP, N
<1>3. Len(Targets) \in Nat
  BY <1>1, NamesFacts DEF Typed
<1>4. /\ \A i \in 1..8 : ActiveScript[i][1] \in {"send", "recv"} /\ (ActiveScript[i][1] = "recv" <=> i \in {2, 4, 6, 8})
      /\ \A i \in 1..8 : ActiveScript[i][2] \in {"num_nics", "numa", "names", "qps"}
  BY ScriptFacts
\* The pairs that are still to come are not ready on either side.
<1>5. ASSUME conn[c].pair <= Len(Targets)
      PROVE  ~ LastA(s, PairOf(c)) /\ ~ LastP(s, PairOf(c)) /\ ~ ReadyA(s, PairOf(c))
  <2>1. conn[c].pair \in conn[c].pair..Len(Targets)
    BY <1>5, <1>1, <1>3 DEF Call
  <2>2. ~ LastA(s, PairOf(c))
    BY <2>1, <1>1 DEF ConnOk, PairOf
  <2>3. ~ ReadyA(s, PairOf(c))
    BY <2>2, ConstFacts DEF ReadyA, LastA, PairQps, N
  <2> QED BY <2>2, <2>3, <1>1, <1>5 DEF IInv, Follows
<1>6. srv.phase \in {"hello", "info", "status"}
  BY DEF Serving
<1>7. CASE ActiveHello(c)
  <2>0. conn[c].phase = "hello" /\ shut' = shut /\ ~ InPairs(c)
    BY <1>7 DEF ActiveHello, InPairs
  <2>1. /\ conn'[c].attempt = conn[c].attempt /\ conn'[c].pair = conn[c].pair /\ conn'[c].qp = conn[c].qp
        /\ conn[c].step = 8 => conn'[c].phase = "create"
        /\ conn[c].step # 8 => conn'[c].phase = "hello" /\ conn'[c].step = conn[c].step + 1
    BY <1>1, <1>7, ActiveCall
  <2>2. \/ /\ conn[c].step \in {1, 3, 5, 7} /\ down' = down
           /\ up' = Sent(up, s, "passive", Hello(ActiveScript[conn[c].step][2]))
        \/ /\ conn[c].step \in {2, 4, 6, 8} /\ d # <<>> /\ up' = up /\ down' = [down EXCEPT ![s] = Tail(@)]
    <3>1. \/ /\ ActiveScript[conn[c].step][1] = "send" /\ down' = down
             /\ up' = Sent(up, SocketOf(c), "passive", Hello(ActiveScript[conn[c].step][2]))
          \/ /\ ActiveScript[conn[c].step][1] = "recv" /\ down[SocketOf(c)] # <<>> /\ up' = up
             /\ down' = [down EXCEPT ![SocketOf(c)] = Tail(down[SocketOf(c)])]
      BY <1>7, Zenon DEF ActiveHello
    <3>2. ActiveScript[conn[c].step][1] = "send" => conn[c].step \in {1, 3, 5, 7}
      BY <1>1, <1>4, SMTT(30)
    <3>3. ActiveScript[conn[c].step][1] = "recv" => conn[c].step \in {2, 4, 6, 8}
      BY <1>1, <1>4
    <3> QED BY <3>1, <3>2, <3>3, Zenon
  <2>3. CASE srv.phase = "hello"
    <3>1. UpShape'
      BY <2>3, <1>2 DEF UpShape
    <3>2. CASE conn[c].step \in {1, 3, 5, 7}
      <4>1. /\ down' = down /\ up' = Sent(up, s, "passive", Hello(ActiveScript[conn[c].step][2]))
            /\ srv.step = conn[c].step /\ u = <<>> /\ d = <<>>
        BY <2>2, <3>2, <2>3, <1>1, <1>4 DEF Sync
      <4>2. Hello(ActiveScript[conn[c].step][2]) \in Msg
        BY <1>1, <1>4, Messages
      <4>3. up'[s] = Append(u, Hello(ActiveScript[conn[c].step][2]))
        BY <4>1, <4>2, <1>1, SentOpen
      <4>4. Len(up'[s]) = 1
        <5>1. Len(Append(u, Hello(ActiveScript[conn[c].step][2]))) = 1
          BY <4>1, AppendOne, Zenon
        <5> QED BY <4>3, <5>1, Zenon
      <4>5. conn'[c].step \in {2, 4, 6, 8} /\ conn'[c].phase = "hello" /\ conn'[c].step = srv.step + 1
        BY <4>1, <3>2, <2>1
      <4>6. Sync(c)'
        <5>1. /\ srv'.phase = "hello" /\ srv'.step = conn'[c].step - 1 /\ down'[s] = <<>>
              /\ conn'[c].step \in {2, 4, 6, 8} /\ conn'[c].phase = "hello"
          BY <4>1, <4>5, <2>3, <1>1, <1>2, SMTT(30)
        <5> QED BY <5>1, <4>4, <1>2 DEF Sync
      <4> QED BY <3>1, <4>6, <4>5, <2>0, <2>1, <1>1, <1>2 DEF Lockstep
    <3>3. CASE conn[c].step \in {2, 4, 6, 8}
      <4>1. /\ up' = up /\ down' = [down EXCEPT ![s] = Tail(@)] /\ d # <<>>
            /\ srv.step = conn[c].step + 1 /\ u = <<>> /\ Len(d) = 1
        <5>1. d # <<>> /\ up' = up /\ down' = [down EXCEPT ![s] = Tail(@)]
          BY <2>2, <3>3
        <5>2. \/ srv.step = conn[c].step /\ u = <<>> /\ d = <<>>
              \/ srv.step = conn[c].step - 1 /\ Len(u) = 1 /\ d = <<>>
              \/ srv.step = conn[c].step + 1 /\ u = <<>> /\ Len(d) = 1
          BY <2>3, <1>1 DEF Sync
        <5> QED BY <5>1, <5>2
      <4>2. down'[s] = <<>>
        BY <4>1, <1>1
      <4>3. conn'[c].phase = "hello" /\ conn'[c].step = srv.step
        BY <4>1, <2>1, <1>1, SMTT(30)
      <4>4. Sync(c)'
        BY <4>1, <4>2, <4>3, <2>3, <1>1, <1>2 DEF Sync
      <4> QED BY <3>1, <4>3, <4>4, <2>0, <2>1, <1>1, <1>2 DEF Lockstep
    <3> QED BY <3>2, <3>3, <1>1
  <2>4. CASE srv.phase = "info"
    <3>1. conn[c].step = 8 /\ u = <<>> /\ Len(d) = 1 /\ srv.qp = 1
      BY <2>4, <2>0, <1>1 DEF Sync
    <3>2. up' = up /\ down' = [down EXCEPT ![s] = Tail(@)]
      BY <3>1, <2>2
    <3>3. down'[s] = <<>> /\ conn'[c].phase = "create" /\ conn'[c].qp = 1
      BY <3>1, <3>2, <2>0, <2>1, <1>1 DEF ConnOk
    <3>4. Sync(c)'
      <4>1. /\ srv'.phase = "info" /\ srv'.qp = conn'[c].qp /\ srv'.qp = 1 /\ up'[s] = <<>>
        BY <3>1, <3>2, <3>3, <2>4, <1>2
      <4> QED BY <4>1, <3>3, <1>2 DEF Sync, InPairs
    <3>5. UpShape'
      BY <3>1, <3>2, <2>4, <1>1, <1>2 DEF UpShape
    <3> QED BY <3>3, <3>4, <3>5, <2>0, <2>1, <1>1, <1>2 DEF Lockstep, InPairs
  <2>5. srv.phase # "status"
    BY <2>0, <1>1 DEF Sync
  <2> QED BY <2>3, <2>4, <2>5, <1>6
<1>8. CASE ActiveHelloLost(c) \/ ActiveInfoLost(c)
  BY <1>8, <1>1 DEF ActiveHelloLost, ActiveInfoLost, Lost
\* The call ends here: the accepting side finds out by itself.
<1>9. ASSUME conn'[c].attempt = conn[c].attempt, conn'[c].phase \in {"ok", "error"}, up' = up, InPairs(c)
      PROVE  UpShape' /\ Lockstep'
  <2>1. srv.phase # "hello"
    BY <1>9, <1>1 DEF Sync, InPairs
  <2>2. Lockstep'
    BY <2>1, <1>9, <1>1, <1>2 DEF Lockstep
  <2>3. UpShape'
    <3>1. srv.phase = "status" => srv.pair \in AllPairs
      BY DEF IInv, SrvInv
    <3> QED BY <3>1, <1>9, <1>1, <1>2 DEF IInv, UpShape, N
  <2> QED BY <2>2, <2>3
<1>10. CASE ActiveCreateFails(c)
  <2>1. Fails(c) /\ up' = up /\ InPairs(c)
    BY <1>10 DEF ActiveCreateFails, FailsInPair, Fails, InPairs
  <2> QED BY <2>1, <1>1, <1>9, ActiveCall
<1>11. CASE ActiveFinish(c)
  <2>1. up' = up /\ InPairs(c)
    BY <1>11 DEF ActiveFinish, InPairs
  <2> QED BY <2>1, <1>1, <1>9, <1>11, ActiveCall
<1>12. ~ Connect(c)
  BY DEF Connect, InPairs
<1>13. CASE ActiveCreate(c)
  <2> DEFINE m == Info(PairOf(c), conn[c].qp)
  <2>1. /\ conn[c].phase = "create" /\ conn[c].pair <= Len(Targets) /\ shut' = shut /\ down' = down
        /\ up' = Sent(up, s, "passive", m) /\ InPairs(c)
    BY <1>13 DEF ActiveCreate, InPairs
  <2>2. /\ conn'[c].attempt = conn[c].attempt /\ conn'[c].pair = conn[c].pair /\ conn'[c].qp = conn[c].qp
        /\ conn'[c].phase = "wait"
    BY <1>1, <1>13, ActiveCall
  <2>3. PairOf(c) \in AllPairs /\ m \in Msg /\ m.kind = "info" /\ m.pair = PairOf(c) /\ PairOf(c)' = PairOf(c)
    BY <2>1, <2>2, <1>1, <1>2, Messages DEF Info, PairOf
  <2> HIDE DEF m
  <2>4. up'[s] = Append(u, m)
    BY <2>1, <2>3, <1>1, SentOpen
  <2>5. CASE srv.phase = "info"
    <3>1. u = <<>> /\ d = <<>> /\ srv.qp = conn[c].qp /\ (srv.qp > 1 => srv.pair = PairOf(c))
      BY <2>1, <2>5, <1>1 DEF Sync
    <3>2. Len(up'[s]) = 1 /\ up'[s][1] = m
      BY <3>1, <2>4
    <3>3. Sync(c)'
      BY <3>1, <3>2, <2>1, <2>2, <2>3, <2>5, <1>1, <1>2 DEF Sync, InPairs
    <3>4. UpShape'
      BY <3>1, <3>2, <2>1, <2>3, <2>5, <1>1, <1>2, <1>5 DEF UpShape
    <3> QED BY <3>3, <3>4, <2>1, <2>2, <1>1, <1>2 DEF Lockstep, InPairs
  <2>6. CASE srv.phase = "status"
    <3>1. d = <<>> /\ Len(u) = 1 /\ After(c, u[1])
      BY <2>1, <2>6, <1>1 DEF Sync
    <3>2. Len(up'[s]) = 2 /\ up'[s][1] = u[1] /\ up'[s][2] = m
      BY <3>1, <2>4, <2>3, <1>1, AppendFacts
    <3>3. After(c, u[1])'
      <4> QED BY <3>1, <3>2, <2>2, <2>3, <1>1, <1>2 DEF After, N
    <3>4. Sync(c)'
      BY <3>1, <3>2, <3>3, <2>1, <2>2, <2>3, <2>6, <1>1, <1>2 DEF Sync
    <3>5. srv.pair \in AllPairs
      BY <2>6 DEF IInv, SrvInv
    <3>6. UpShape'
      <4>1. /\ u[1].kind \in {"success", "failure"}
            /\ (u[1].kind = "success" /\ srv.qp = N) => ReadyA(s, srv.pair)
        <5>1. Len(up[Sock]) = 1 /\ up[Sock] # <<>> /\ up[Sock] = u
          BY <3>1, <1>1, AppendFacts
        <5> QED BY <5>1, <2>6, <1>1 DEF IInv, UpShape
      <4>2. u[1].kind = "success" => (srv.qp = N <=> PairOf(c) # srv.pair)
        <5>1. CASE srv.qp = N
          BY <5>1, <4>1, <2>1, <1>5
        <5>2. CASE srv.qp # N
          BY <5>2, <3>1, <1>1 DEF After
        <5> QED BY <5>1, <5>2
      <4> QED BY <4>1, <4>2, <3>2, <3>5, <2>1, <2>3, <2>6, <1>1, <1>2, <1>5 DEF UpShape, N
    <3> QED BY <3>4, <3>6, <2>1, <2>2, <1>1, <1>2 DEF Lockstep, InPairs
  <2>7. srv.phase # "hello"
    BY <2>1, <1>1 DEF Sync
  <2> QED BY <2>5, <2>6, <2>7, <1>6
<1>14. CASE ActiveConnectQp(c) \/ ActiveSkipPair(c)
  <2> DEFINE m == Status(ActiveConnectQp(c))
  <2>1. /\ conn[c].phase = "wait" /\ shut' = shut /\ d # <<>> /\ down' = [down EXCEPT ![s] = Tail(@)]
        /\ conn[c].pair <= Len(Targets) /\ InPairs(c)
    BY <1>14, <1>1 DEF ActiveConnectQp, ActiveSkipPair, InPairs, ConnOk
  <2>2. srv.phase = "status" /\ u = <<>> /\ Len(d) = 1 /\ srv.pair = PairOf(c) /\ srv.qp = conn[c].qp
    BY <2>1, <1>1, <1>6 DEF Sync
  <2>3. down'[s] = <<>>
    BY <2>1, <2>2, <1>1
  <2>4. srv.pair \in AllPairs
    BY <2>2 DEF IInv, SrvInv
  <2>5. CASE ActiveSkipPair(c)
    <3>1. /\ conn'[c].attempt = conn[c].attempt /\ conn'[c].phase = "create" /\ conn'[c].qp = 1
      BY <1>1, <2>5, ActiveCall
    <3>2. up' = Sent(up, s, "passive", Status(FALSE))
      BY <2>5 DEF ActiveSkipPair, FailureStatus
    <3>3. Status(FALSE).kind = "failure"
      BY DEF Status
    <3>4. up'[s] = Append(u, Status(FALSE))
      BY <3>2, <1>1, SentOpen, Messages
    <3>5. Len(up'[s]) = 1 /\ up'[s][1].kind = "failure"
      <4>1. u = <<>>
        BY <2>2
      <4>2. Len(Append(u, Status(FALSE))) = 1 /\ Append(u, Status(FALSE))[1] = Status(FALSE)
        BY <4>1, AppendOne, Zenon
      <4> QED BY <4>2, <3>3, <3>4
    <3>6. Sync(c)'
      BY <3>1, <3>5, <2>2, <2>3, <1>1, <1>2 DEF Sync, After
    <3>7. UpShape'
      BY <3>5, <2>2, <2>4, <1>1, <1>2 DEF UpShape
    <3> QED BY <3>1, <3>6, <3>7, <2>1, <1>1, <1>2 DEF Lockstep, InPairs
  <2>6. CASE ActiveConnectQp(c)
    <3>1. /\ conn'[c].attempt = conn[c].attempt /\ conn'[c].phase = "create"
          /\ conn[c].qp < N => conn'[c].pair = conn[c].pair /\ conn'[c].qp = conn[c].qp + 1
          /\ conn[c].qp = N => conn'[c].qp = 1
      BY <1>1, <2>6, ActiveCall
    <3>2. up' = Sent(up, s, "passive", Status(TRUE))
      BY <2>6 DEF ActiveConnectQp
    <3>3. Status(TRUE).kind = "success"
      BY DEF Status
    <3>4. up'[s] = Append(u, Status(TRUE))
      BY <3>2, <1>1, SentOpen, Messages
    <3>5. Len(up'[s]) = 1 /\ up'[s][1].kind = "success"
      <4>1. u = <<>>
        BY <2>2
      <4>2. Len(Append(u, Status(TRUE))) = 1 /\ Append(u, Status(TRUE))[1] = Status(TRUE)
        BY <4>1, AppendOne, Zenon
      <4> QED BY <4>2, <3>3, <3>4
    <3>6. PairOf(c)' = Targets[conn'[c].pair] /\ PairOf(c) = Targets[conn[c].pair]
      BY <1>2 DEF PairOf
    <3>7. conn[c].qp < N \/ conn[c].qp = N
      BY <1>1
    <3>x. PICK st : st = up'[s][1]
      OBVIOUS
    <3>8. After(c, st)'
      BY <3>x, <3>1, <3>5, <3>6, <3>7, <2>1, <2>2, <1>1, <1>2 DEF After, N
    <3>9. Sync(c)'
      BY <3>x, <3>1, <3>5, <3>8, <2>2, <2>3, <1>1, <1>2 DEF Sync, After
    <3>10. srv.qp = N => ReadyA(s, srv.pair)'
      <4>1. SUFFICES ASSUME srv.qp = N, NEW k \in 1..N PROVE <<s, PairOf(c), k>> \in qps'["active"].rts
        BY <2>2, <1>2 DEF ReadyA, PairQps, N
      <4>2. qps'["active"].rts = qps["active"].rts \cup {QpOf(c)}
        BY <2>6, <1>1 DEF ActiveConnectQp, ReadyQp, Typed, QpSets
      <4>3. CASE k = N
        BY <4>1, <4>2, <4>3, <2>2 DEF QpOf
      <4>4. CASE k # N
        <5>1. k \in 1..(conn[c].qp - 1)
          BY <4>1, <4>4, <2>2, <1>1
        <5> QED BY <5>1, <4>2, <2>1, <1>1 DEF ConnOk
      <4> QED BY <4>3, <4>4
    <3>11. UpShape'
      BY <3>5, <3>10, <2>2, <2>4, <1>1, <1>2 DEF UpShape, N
    <3> QED BY <3>1, <3>9, <3>11, <2>1, <1>1, <1>2 DEF Lockstep, InPairs
  <2> QED BY <2>5, <2>6, <1>14
<1> QED BY <1>7, <1>8, <1>10, <1>11, <1>12, <1>13, <1>14 DEF ActiveStep, Active

\* A step of connect() keeps Lockstep, of its own connection or of another.
LEMMA ActiveLockstep ==
  ASSUME IInv, NEW c \in Clients, ActiveStep(c)
  PROVE  UpShape' /\ Lockstep'
<1>1. Typed /\ ConnInv /\ SrvInv /\ UpShape /\ Lockstep /\ Fresh
  BY DEF IInv
<1>2. srv' = srv /\ Sock' = Sock /\ (Serving' <=> Serving)
  BY <1>1, ActiveFrame DEF Serving, Sock
<1>3. CASE ~ Serving
  <2>1. Lockstep'
    BY <1>2, <1>3 DEF Lockstep
  <2> QED BY <2>1, <1>2, <1>3 DEF UpShape, Serving
<1>4. CASE Serving
  <2>0. PICK s : s = Sock
    OBVIOUS
  <2>1. s \in Sockets /\ s[1] \in Clients /\ s = <<s[1], s[2]>> /\ s[2] \in Nat /\ srv.pair \in AllPairs \cup {<<0, 0>>}
        /\ Sock' = s
    BY <2>0, <1>1, <1>2, <1>4, ServerFacts DEF Sockets, Service
  \* Nothing of the connection is the step's: what the thread finds in it is what it was.
  <2>2. ASSUME up'[s] = up[s] PROVE UpShape'
    <3>1. \A p : LastP(s, p)' <=> LastP(s, p)
      BY <1>1, ActiveFrame DEF LastP, N
    <3>2. \A p \in AllPairs : ReadyA(s, p) => ReadyA(s, p)'
      BY <1>1, <2>1, ActiveReadyKept
    <3>3. srv.phase = "status" => srv.pair \in AllPairs
      BY <1>1 DEF SrvInv
    <3> QED BY <2>0, <2>1, <2>2, <3>1, <3>2, <3>3, <1>1, <1>2 DEF UpShape, N
  <2>3. CASE Broken(s)
    <3>1. Broken(s)' /\ up'[s] = <<>> /\ up[s] = <<>>
      BY <2>1, <2>3, <1>1, ActiveBroken DEF Broken
    <3> QED BY <3>1, <2>1, <2>2, <1>2 DEF Lockstep, Broken
  <2>4. CASE s # SocketOf(c) /\ ~ Broken(s)
    <3>1. /\ up'[s] = up[s] /\ down'[s] = down[s]
          /\ <<s, "active">> \in shut' <=> <<s, "active">> \in shut
          /\ <<s, "passive">> \in shut' <=> <<s, "passive">> \in shut
      BY <2>1, <2>4, <1>1, ActiveFrame
    <3>2. CASE s[1] # c
      <4>1. conn'[s[1]] = conn[s[1]] /\ Targets' = Targets
        BY <3>2, <2>1, <1>1, ActiveFrame, SameTargets
      <4>2. Lockstep'
        BY <4>1, <3>1, <2>0, <2>1, <2>4, <1>1, <1>2, <1>4 DEF Lockstep, InPairs, Sync, After, PairOf, Broken, N
      <4> QED BY <4>2, <3>1, <2>2
    <3>3. CASE s[1] = c
      <4>1. conn[c].attempt # s[2] /\ srv.phase # "hello"
        BY <3>3, <2>0, <2>1, <2>4, <1>1, <1>4 DEF Lockstep, SocketOf
      <4>2. conn'[c].attempt # s[2]
        <5>1. ~ (s[2] > conn[c].attempt) /\ conn[c].attempt \in Nat
          <6>1. ~ (s[2] > conn[s[1]].attempt)
            BY <2>0, <2>1, <1>1, <1>4 DEF Fresh
          <6>2. conn[c].attempt \in Nat
            BY <1>1 DEF Typed, Call
          <6> QED BY <6>1, <6>2, <3>3
        <5> QED BY <5>1, <4>1, <2>1, <1>1, ActiveAttempt
      <4>3. Lockstep'
        BY <4>1, <4>2, <3>3, <2>1, <1>2 DEF Lockstep
      <4> QED BY <4>3, <3>1, <2>2
    <3> QED BY <3>2, <3>3
  <2>5. CASE s = SocketOf(c) /\ ~ Broken(s)
    <3>1. s[1] = c /\ s[2] = conn[c].attempt /\ conn[c].attempt \in Nat
      BY <2>5, <1>1 DEF SocketOf, Typed, Call
    <3>2. CASE conn[c].phase \in {"ok", "error"}
      <4>1. Connect(c)
        BY <3>2, <1>1, ActiveAttempt
      <4>2. up' = up /\ conn'[c].attempt = conn[c].attempt + 1
        BY <4>1, <1>1, ActiveCall DEF Connect
      <4>3. srv.phase # "hello"
        BY <3>1, <3>2, <2>0, <2>5, <1>1, <1>4 DEF Lockstep, InPairs
      <4>4. Lockstep'
        BY <4>2, <4>3, <3>1, <2>1, <1>2 DEF Lockstep
      <4> QED BY <4>2, <4>4, <2>2
    <3>3. CASE conn[c].phase \notin {"ok", "error"}
      <4>1. /\ InPairs(c) \/ conn[c].phase = "hello"
            /\ <<s, "active">> \notin shut /\ <<s, "passive">> \notin shut /\ Sync(c)
        BY <3>1, <3>3, <2>0, <2>5, <1>1, <1>4 DEF Lockstep
      <4> HIDE DEF IInv, Sync
      <4> QED BY <4>1, <2>0, <2>1, <2>5, <1>4, ActiveInStep
    <3> QED BY <3>2, <3>3
  <2> QED BY <2>3, <2>4, <2>5
<1> QED BY <1>3, <1>4

\* A step of connect() keeps the invariant.
LEMMA ActiveIInv ==
  ASSUME IInv, NEW c \in Clients, ActiveStep(c)
  PROVE  IInv'
<1>1. /\ Typed /\ SrvInv /\ ConnInv /\ Fresh /\ Queued /\ UpShape /\ Lockstep /\ Follows /\ OwnedP /\ OwnedA
  BY DEF IInv
<1>2. Typed'
  BY <1>1, TypedActive DEF ActiveStep
<1> QED BY <1>1, <1>2, ActiveSrvInv, ActiveConnInv, ActiveFresh, ActiveQueued, ActiveLockstep, ActiveFollows,
           ActiveOwned DEF IInv

-----------------------------------------------------------------------------
(* The steps of the accept thread                                          *)

\* What a step of the accept thread does to the thread.
LEMMA PassiveCall ==
  ASSUME Typed
  PROVE  /\ PassiveHello =>
               /\ srv'.socket = srv.socket /\ srv'.pair = srv.pair /\ srv'.qp = srv.qp /\ srv'.count = srv.count
               /\ srv.step = 8 => srv'.phase = "info"
               /\ srv.step # 8 => srv'.phase = "hello" /\ srv'.step = srv.step + 1
         /\ PassiveCreate =>
               /\ srv'.socket = srv.socket /\ srv'.qp = srv.qp /\ srv'.count = srv.count
               /\ srv'.phase = "status" /\ srv'.pair = Head(up[Sock]).pair
         /\ srv' = NextPair =>
               /\ srv'.socket = srv.socket /\ srv'.phase = "info" /\ srv'.pair = <<0, 0>>
               /\ srv'.qp = 1 /\ srv'.count = srv.count + 1
         /\ PassiveConnectQp /\ srv.qp # N =>
               /\ srv'.socket = srv.socket /\ srv'.phase = "info" /\ srv'.pair = srv.pair
               /\ srv'.qp = srv.qp + 1 /\ srv'.count = srv.count /\ stored' = stored /\ srv.qp < N
         /\ PassiveConnectQp /\ srv.qp = N => srv' = NextPair /\ stored' = stored \cup {<<Sock, srv.pair>>}
         /\ srv' = ServerLoop => srv'.socket = None /\ srv'.phase = "loop" /\ srv'.count = srv.count
         /\ AcceptHead => srv'.socket = srv.socket /\ srv'.count = srv.count /\ srv'.phase \in {"accept", "exited"}
<1>1. srv \in Service
  BY DEF Typed
<1>2. ASSUME PassiveHello
      PROVE  /\ srv'.socket = srv.socket /\ srv'.pair = srv.pair /\ srv'.qp = srv.qp /\ srv'.count = srv.count
             /\ srv.step = 8 => srv'.phase = "info"
             /\ srv.step # 8 => srv'.phase = "hello" /\ srv'.step = srv.step + 1
  <2>1. Len(PassiveScript) = 8 /\ srv.phase = "hello"
    BY <1>2 DEF PassiveScript, PassiveHello
  <2>2. srv' = IF srv.step = 8 THEN [srv EXCEPT !.phase = "info"] ELSE [srv EXCEPT !.step = @ + 1]
    BY <1>2, <2>1 DEF PassiveHello
  <2> QED BY <2>1, <2>2, <1>1 DEF Service
<1>3. ASSUME PassiveCreate
      PROVE  /\ srv'.socket = srv.socket /\ srv'.qp = srv.qp /\ srv'.count = srv.count
             /\ srv'.phase = "status" /\ srv'.pair = Head(up[Sock]).pair
  <2>1. srv' = [srv EXCEPT !.phase = "status", !.pair = Head(up[Sock]).pair]
    BY <1>3 DEF PassiveCreate
  <2> QED BY <2>1, <1>1 DEF Service
<1>4. ASSUME srv' = NextPair
      PROVE  /\ srv'.socket = srv.socket /\ srv'.phase = "info" /\ srv'.pair = <<0, 0>>
             /\ srv'.qp = 1 /\ srv'.count = srv.count + 1
  <2> DEFINE r1 == [srv EXCEPT !.phase = "info"]
             r2 == [r1 EXCEPT !.pair = <<0, 0>>]
             r3 == [r2 EXCEPT !.qp = 1]
             r4 == [r3 EXCEPT !.count = @ + 1]
  <2>1. NextPair = r4
    BY <1>1 DEF NextPair, Service
  <2> QED BY <2>1, <1>4, <1>1 DEF Service
<1>5. ASSUME PassiveConnectQp, srv.qp # N
      PROVE  /\ srv'.socket = srv.socket /\ srv'.phase = "info" /\ srv'.pair = srv.pair
             /\ srv'.qp = srv.qp + 1 /\ srv'.count = srv.count /\ stored' = stored /\ srv.qp < N
  <2>1. srv.qp < ActualQps
    BY <1>1, <1>5, ConstFacts DEF Service, N
  <2>2. srv' = [srv EXCEPT !.phase = "info", !.qp = @ + 1] /\ stored' = stored
    BY <1>5, <2>1 DEF PassiveConnectQp
  <2> QED BY <2>1, <2>2, <1>1 DEF Service, N
<1>6. ASSUME PassiveConnectQp, srv.qp = N
      PROVE  srv' = NextPair /\ stored' = stored \cup {<<Sock, srv.pair>>}
  <2>1. ~ (srv.qp < ActualQps)
    BY <1>6, ConstFacts DEF N
  <2> QED BY <1>6, <2>1 DEF PassiveConnectQp
<1>7. ASSUME srv' = ServerLoop
      PROVE  srv'.socket = None /\ srv'.phase = "loop" /\ srv'.count = srv.count
  <2>1. srv' = [srv EXCEPT !.phase = "loop", !.socket = None]
    BY <1>7 DEF ServerLoop
  <2> QED BY <2>1, <1>1 DEF Service
<1>8. ASSUME AcceptHead
      PROVE  srv'.socket = srv.socket /\ srv'.count = srv.count /\ srv'.phase \in {"accept", "exited"}
  <2>1. srv' = [srv EXCEPT !.phase = "accept"] \/ srv' = [srv EXCEPT !.phase = "exited"]
    BY <1>8 DEF AcceptHead
  <2> QED BY <2>1, <1>1 DEF Service
<1> QED BY <1>2, <1>3, <1>4, <1>5, <1>6, <1>7, <1>8

\* What a step of the accept thread leaves alone.
LEMMA PassiveFrame ==
  ASSUME Typed, SrvInv, PassiveStep
  PROVE  /\ suffix' = suffix /\ conn' = conn /\ host' = host /\ qpMap' = qpMap /\ stop' = stop
         /\ qps'["active"] = qps["active"] /\ shut \subseteq shut'
         /\ \A x \in Sockets : ~ (Serving /\ x = Sock) => up'[x] = up[x] /\ down'[x] = down[x]
         /\ \A x \in Sockets : <<x, "active">> \in shut' <=> <<x, "active">> \in shut
         /\ \A x \in Sockets : ~ (Serving /\ x = Sock) =>
                \/ <<x, "passive">> \in shut' <=> <<x, "passive">> \in shut
                \/ Accept /\ x = Head(backlog)
         /\ ~ Accept => backlog' = backlog
<1>1. up \in [Sockets -> Seq(Msg)] /\ down \in [Sockets -> Seq(Msg)] /\ qps \in [{"active", "passive"} -> QpSets]
  BY DEF Typed
<1>2. Serving => Sock \in Sockets
  BY DEF SrvInv
<1>3. /\ suffix' = suffix /\ conn' = conn /\ host' = host /\ qpMap' = qpMap /\ stop' = stop
      /\ ~ Accept => backlog' = backlog
  BY DEF PassiveStep, Passive, AcceptHead, Accept, PassiveHello, PassiveLost, PassiveCreate, PassiveSkipPair,
         PassiveConnectQp, PassiveFinish, PassiveCreateFails, PassiveConnectFails, PassiveFails, GotStatus
<1>4. qps'["active"] = qps["active"]
  BY <1>1 DEF PassiveStep, Passive, AcceptHead, Accept, PassiveHello, PassiveLost, PassiveCreate, PassiveSkipPair,
         PassiveConnectQp, PassiveFinish, PassiveCreateFails, PassiveConnectFails, PassiveFails, GotStatus,
         CreateQp, ReadyQp, DestroyQps
<1>5. /\ (shut' = shut) \/ (Serving /\ shut' = shut \cup {<<Sock, "passive">>})
         \/ (Accept /\ shut' = shut \cup {<<Head(backlog), "passive">>})
  BY DEF PassiveStep, Passive, AcceptHead, Accept, PassiveHello, PassiveLost, PassiveCreate, PassiveSkipPair,
         PassiveConnectQp, PassiveFinish, PassiveCreateFails, PassiveConnectFails, PassiveFails, GotStatus, Serving
<1>6. \A x \in Sockets : ~ (Serving /\ x = Sock) => up'[x] = up[x]
  BY <1>1, <1>2 DEF PassiveStep, Passive, AcceptHead, Accept, PassiveHello, PassiveLost, PassiveCreate, PassiveSkipPair,
         PassiveConnectQp, PassiveFinish, PassiveCreateFails, PassiveConnectFails, GotStatus, Serving
<1>7. \A x \in Sockets : ~ (Serving /\ x = Sock) => down'[x] = down[x]
  BY <1>1, <1>2 DEF PassiveStep, Passive, AcceptHead, Accept, PassiveHello, PassiveLost, PassiveCreate, PassiveSkipPair,
         PassiveConnectQp, PassiveFinish, PassiveCreateFails, PassiveConnectFails, PassiveFails, GotStatus, Serving, Sent
<1> QED BY <1>3, <1>4, <1>5, <1>6, <1>7

\* success = false in acceptLoop().
GivesUp == PassiveLost \/ PassiveCreateFails \/ PassiveConnectFails

\* What a step of the accept thread does to the QPs: it touches those of its pair.
LEMMA PassiveQpSets ==
  ASSUME Typed, SrvInv, PassiveStep
  PROVE  /\ \A id \in qps["passive"].rts : \/ id \in qps'["passive"].rts
                                           \/ Serving /\ id \in PairQps(Sock, srv.pair)
         /\ \A id \in qps'["passive"].rts : \/ id \in qps["passive"].rts
                                            \/ PassiveConnectQp /\ id = <<Sock, srv.pair, srv.qp>>
         /\ \A id \in qps'["passive"].init \cup qps'["passive"].rts :
               \/ id \in qps["passive"].init \cup qps["passive"].rts
               \/ PassiveCreate /\ id = <<Sock, Head(up[Sock]).pair, srv.qp>>
               \/ PassiveConnectQp /\ id = <<Sock, srv.pair, srv.qp>>
         /\ GivesUp \/ PassiveSkipPair =>
               \A id \in qps'["passive"].init \cup qps'["passive"].rts : id \notin PairQps(Sock, srv.pair)
<1>1. qps \in [{"active", "passive"} -> QpSets]
  BY DEF Typed
<1>6. ASSUME GivesUp \/ PassiveSkipPair
      PROVE  \A id \in qps'["passive"].init \cup qps'["passive"].rts : id \notin PairQps(Sock, srv.pair)
  <2>1. DestroyQps("passive", PairQps(Sock, srv.pair))
    BY <1>6 DEF GivesUp, PassiveLost, PassiveCreateFails, PassiveConnectFails, PassiveSkipPair, PassiveFails
  <2> QED BY <2>1, <1>1 DEF DestroyQps, QpSets
<1>2. CASE AcceptHead \/ Accept \/ PassiveHello \/ PassiveFinish
  <2>1. qps' = qps
    BY <1>2 DEF AcceptHead, Accept, PassiveHello, PassiveFinish
  <2> QED BY <2>1, <1>6
<1>3. CASE GivesUp \/ PassiveSkipPair
  <2>1. DestroyQps("passive", PairQps(Sock, srv.pair)) /\ Serving
    BY <1>3 DEF PassiveLost, PassiveCreateFails, PassiveConnectFails, PassiveSkipPair, PassiveFails, Serving, GotStatus,
           GivesUp
  <2> QED BY <2>1, <1>1, <1>6 DEF DestroyQps, QpSets
<1>4. CASE PassiveCreate
  <2>1. CreateQp("passive", <<Sock, Head(up[Sock]).pair, srv.qp>>)
    BY <1>4 DEF PassiveCreate
  <2> QED BY <2>1, <1>1, <1>4, <1>6 DEF CreateQp, QpSets
<1>5. CASE PassiveConnectQp
  <2>1. ReadyQp("passive", <<Sock, srv.pair, srv.qp>>)
    BY <1>5 DEF PassiveConnectQp
  <2> QED BY <2>1, <1>1, <1>5, <1>6 DEF ReadyQp, QpSets
<1> QED BY <1>2, <1>3, <1>4, <1>5 DEF PassiveStep, Passive, GivesUp

\* What the accept thread takes from its socket in each of its phases.
LEMMA PassiveMessage ==
  ASSUME Typed, SrvInv, UpShape
  PROVE  /\ srv.phase = "info" /\ up[Sock] # <<>> =>
               /\ Len(up[Sock]) = 1 /\ Head(up[Sock]) = up[Sock][1] /\ Tail(up[Sock]) = <<>>
               /\ up[Sock][1].kind = "info" /\ (srv.qp > 1 => up[Sock][1].pair = srv.pair)
               /\ ~ LastP(Sock, up[Sock][1].pair) /\ up[Sock][1].pair \in AllPairs
         /\ srv.phase = "status" /\ up[Sock] # <<>> =>
               /\ Head(up[Sock]) = up[Sock][1]
               /\ \/ Len(up[Sock]) = 1 /\ Tail(up[Sock]) = <<>>
                  \/ Len(up[Sock]) = 2 /\ Len(Tail(up[Sock])) = 1 /\ Tail(up[Sock])[1] = up[Sock][2]
<1>1. Serving => up[Sock] \in Seq(Msg)
  BY DEF Typed, SrvInv
<1>2. CASE srv.phase = "info" /\ up[Sock] # <<>>
  <2>1. /\ Len(up[Sock]) = 1 /\ up[Sock][1].kind = "info" /\ (srv.qp > 1 => up[Sock][1].pair = srv.pair)
        /\ ~ LastP(Sock, up[Sock][1].pair) /\ up[Sock][1].pair \in AllPairs
    BY <1>2 DEF UpShape
  <2>2. up[Sock] \in Seq(Msg)
    BY <1>1, <1>2 DEF Serving
  <2> QED BY <2>1, <2>2, <1>2, AppendFacts
<1>3. CASE srv.phase = "status" /\ up[Sock] # <<>>
  <2>1. Len(up[Sock]) \in {1, 2} /\ up[Sock] \in Seq(Msg)
    BY <1>1, <1>3 DEF UpShape, Serving
  <2>2. CASE Len(up[Sock]) = 1
    BY <2>1, <2>2, <1>3, AppendFacts
  <2>3. CASE Len(up[Sock]) = 2
    <3>1. PICK u \in Seq(Msg) : u = up[Sock] /\ Len(u) = 2
      BY <2>1, <2>3
    <3>2. Head(u) = u[1] /\ Len(Tail(u)) = 1 /\ Tail(u)[1] = u[2]
      BY <3>1, HeadTailProperties
    <3> QED BY <3>1, <3>2, <1>3
  <2> QED BY <2>1, <2>2, <2>3
<1> QED BY <1>2, <1>3

\* A step of the accept thread keeps Follows.
LEMMA PassiveFollowed ==
  ASSUME Typed, SrvInv, UpShape, Follows, PassiveStep
  PROVE  Follows'
<1>1. SUFFICES ASSUME NEW s \in Sockets, NEW p \in AllPairs, LastP(s, p)' PROVE ReadyA(s, p)'
  BY DEF Follows
<1>2. ReadyA(s, p) => ReadyA(s, p)'
  BY PassiveFrame DEF ReadyA, PairQps
<1>3. CASE LastP(s, p)
  BY <1>2, <1>3 DEF Follows
<1>4. CASE ~ LastP(s, p)
  <2>1. PassiveConnectQp /\ <<s, p, N>> = <<Sock, srv.pair, srv.qp>>
    BY <1>1, <1>4, PassiveQpSets DEF LastP, N
  <2>2. s = Sock /\ p = srv.pair /\ srv.qp = N /\ srv.phase = "status" /\ up[Sock] # <<>> /\ Head(up[Sock]).kind = "success"
    BY <2>1 DEF PassiveConnectQp, GotStatus
  <2>3. ReadyA(s, p)
    BY <2>2, PassiveMessage DEF UpShape
  <2> QED BY <2>3, <1>2
<1> QED BY <1>3, <1>4

\* A step of the accept thread keeps what is about connect().
LEMMA PassiveConnInv ==
  ASSUME Typed, SrvInv, ConnInv, OwnedA, PassiveStep
  PROVE  ConnInv' /\ OwnedA'
<1>1. conn' = conn /\ qps'["active"] = qps["active"] /\ Targets' = Targets /\ qpMap' = qpMap
  BY PassiveFrame, SameTargets
<1>2. ConnInv'
  BY <1>1 DEF ConnInv, ConnOk, InPairs, LastA, SocketOf, PairOf, N
<1>3. OwnedA'
  BY <1>1 DEF OwnedA, InPairs, ReadyA, PairQps, SocketOf, PairOf
<1> QED BY <1>2, <1>3

\* A step of the accept thread keeps SrvInv.
LEMMA PassiveSrvInv ==
  ASSUME Typed, SrvInv, UpShape, Queued, PassiveStep
  PROVE  SrvInv'
<1>0. /\ srv \in Service /\ srv.qp \in 1..N /\ srv.count \in Nat /\ ExpectedConnections \in Nat
      /\ srv' \in Service /\ N \in Nat \ {0} /\ <<0, 0>> \notin AllPairs
  <2>1. Typed'
    BY TypedPassive DEF PassiveStep
  <2> QED BY <2>1, ConstFacts, NamesFacts DEF Typed, Service, N
<1>1. ExpectedConnections' = ExpectedConnections
  BY PassiveFrame, SameTargets
<1>2. \A s : ~ LastP(s, <<0, 0>>)'
  <2>1. qps'["passive"].rts \subseteq QpIds
    BY TypedPassive DEF PassiveStep, Typed, QpSets
  <2> QED BY <2>1, <1>0 DEF LastP, QpIds
<1>3. /\ IF Serving THEN Sock \in Sockets ELSE Sock = None
      /\ srv.count <= ExpectedConnections
      /\ srv.phase = "status" \/ srv.qp > 1 => (Serving => srv.count < ExpectedConnections)
      /\ srv.phase = "hello" \/ (srv.phase = "info" /\ srv.qp = 1) => srv.pair = <<0, 0>>
      /\ srv.phase = "hello" => srv.qp = 1
      /\ srv.phase \in {"info", "status"} => ~ LastP(Sock, srv.pair)
  BY DEF SrvInv
\* The thread is back at the head of its loop, or at its end.
<1>4. ASSUME srv'.phase \in {"loop", "accept", "exited"}, srv'.socket = None, srv'.count = srv.count PROVE SrvInv'
  BY <1>4, <1>1, <1>3 DEF SrvInv, Serving, Sock
<1>5. CASE AcceptHead
  BY <1>5, <1>3, <1>4, PassiveCall DEF AcceptHead, Serving, Sock
<1>6. CASE Accept
  <2>1. CASE stop = "no"
    <3>1. srv' = [phase |-> "hello", socket |-> Head(backlog), step |-> 1, pair |-> <<0, 0>>, qp |-> 1, count |-> 0]
          /\ backlog # <<>>
      BY <1>6, <2>1 DEF Accept
    <3>2. Head(backlog) \in Sockets
      BY <3>1, <2>1, BacklogFacts DEF Queued
    <3> QED BY <3>1, <3>2, <1>0, <1>1 DEF SrvInv, Serving, Sock
  <2>2. CASE stop # "no"
    <3>1. srv' = [srv EXCEPT !.phase = "exited"] /\ srv.phase = "accept"
      BY <1>6, <2>2 DEF Accept
    <3>2. srv'.phase = "exited" /\ srv'.socket = srv.socket /\ srv'.count = srv.count
      BY <3>1, <1>0 DEF Service
    <3> QED BY <3>1, <3>2, <1>3, <1>4 DEF Serving, Sock
  <2> QED BY <2>1, <2>2
<1>7. CASE GivesUp \/ PassiveFinish
  <2>1. srv' = ServerLoop
    BY <1>7 DEF GivesUp, PassiveLost, PassiveCreateFails, PassiveConnectFails, PassiveFails, PassiveFinish
  <2> QED BY <2>1, <1>4, PassiveCall
<1>8. CASE PassiveHello
  <2>1. /\ srv'.socket = srv.socket /\ srv'.pair = srv.pair /\ srv'.qp = srv.qp /\ srv'.count = srv.count
        /\ srv'.phase \in {"hello", "info"} /\ srv.phase = "hello"
    BY <1>8, PassiveCall DEF PassiveHello
  <2>2. srv.pair = <<0, 0>> /\ srv.qp = 1 /\ Sock \in Sockets
    BY <2>1, <1>3 DEF Serving
  <2> QED BY <2>1, <2>2, <1>1, <1>2, <1>3 DEF SrvInv, Serving, Sock
<1>9. CASE PassiveCreate
  <2>1. /\ srv'.socket = srv.socket /\ srv'.qp = srv.qp /\ srv'.count = srv.count
        /\ srv'.phase = "status" /\ srv'.pair = up[Sock][1].pair /\ srv.phase = "info"
        /\ ~ LastP(Sock, up[Sock][1].pair) /\ up[Sock][1].pair \in AllPairs /\ srv.count < ExpectedConnections
    BY <1>9, PassiveCall, PassiveMessage DEF PassiveCreate
  <2>2. ~ LastP(Sock, srv.pair)'
    BY <2>1, <1>9, PassiveQpSets DEF LastP, Sock, N, PassiveCreate, PassiveConnectQp, GotStatus
  <2> QED BY <2>1, <2>2, <1>1, <1>3 DEF SrvInv, Serving, Sock
<1>10. ASSUME srv' = NextPair, srv.phase = "status" PROVE SrvInv'
  <2>1. /\ srv'.socket = srv.socket /\ srv'.phase = "info" /\ srv'.pair = <<0, 0>> /\ srv'.qp = 1
        /\ srv'.count = srv.count + 1
    BY <1>10, PassiveCall
  <2>2. srv.count < ExpectedConnections /\ Sock \in Sockets
    BY <1>10, <1>3 DEF Serving
  <2> QED BY <2>1, <2>2, <1>0, <1>1, <1>2 DEF SrvInv, Serving, Sock
<1>11. CASE PassiveSkipPair
  BY <1>10, <1>11 DEF PassiveSkipPair, GotStatus
<1>12. CASE PassiveConnectQp /\ srv.qp = N
  BY <1>10, <1>12, PassiveCall DEF PassiveConnectQp, GotStatus
<1>13. CASE PassiveConnectQp /\ srv.qp # N
  <2>1. /\ srv'.socket = srv.socket /\ srv'.phase = "info" /\ srv'.pair = srv.pair /\ srv'.qp = srv.qp + 1
        /\ srv'.count = srv.count /\ srv.phase = "status"
    BY <1>13, PassiveCall DEF PassiveConnectQp, GotStatus
  <2>2. srv.count < ExpectedConnections /\ Sock \in Sockets /\ ~ LastP(Sock, srv.pair)
    BY <2>1, <1>3 DEF Serving
  <2>3. ~ LastP(Sock, srv.pair)'
    BY <2>1, <2>2, <1>13, PassiveQpSets DEF LastP, Sock, N
  <2> QED BY <2>1, <2>2, <2>3, <1>0, <1>1 DEF SrvInv, Serving, Sock
<1> QED BY <1>5, <1>6, <1>7, <1>8, <1>9, <1>11, <1>12, <1>13 DEF PassiveStep, Passive, GivesUp

\* A step of the accept thread keeps OwnedP.
LEMMA PassiveOwned ==
  ASSUME Typed, SrvInv, UpShape, Queued, OwnedP, PassiveStep
  PROVE  OwnedP'
<1> DEFINE Open(q) == srv.phase \in {"info", "status"} /\ q[1] = Sock /\ q[2] = srv.pair
<1>0. /\ srv \in Service /\ srv.qp \in 1..N /\ N \in Nat /\ <<0, 0>> \notin AllPairs /\ Typed'
      /\ ExpectedConnections \in Nat /\ srv.count \in Nat
  BY ConstFacts, NamesFacts, TypedPassive DEF Typed, Service, N, PassiveStep
<1>1. SUFFICES ASSUME NEW q \in qps'["passive"].init \cup qps'["passive"].rts
               PROVE  <<q[1], q[2]>> \in stored' \/ Open(q)'
  BY Zenon DEF OwnedP
<1>2. q \in QpIds /\ q[1] \in Sockets /\ q[2] \in AllPairs /\ q = <<q[1], q[2], q[3]>> /\ q[3] \in 1..N
  <2>1. q \in QpIds
    BY <1>0, <1>1 DEF Typed, QpSets
  <2> QED BY <2>1 DEF QpIds, N
<1>3. stored \subseteq stored'
  BY DEF PassiveStep, Passive, AcceptHead, Accept, PassiveHello, PassiveLost, PassiveCreate, PassiveSkipPair,
         PassiveConnectQp, PassiveFinish, PassiveCreateFails, PassiveConnectFails, PassiveFails, GotStatus
<1>4. CASE <<q[1], q[2]>> \in stored
  BY <1>3, <1>4
<1>5. CASE PassiveCreate /\ q = <<Sock, Head(up[Sock]).pair, srv.qp>>
  <2>1. srv'.socket = srv.socket /\ srv'.phase = "status" /\ srv'.pair = Head(up[Sock]).pair
    BY <1>5, PassiveCall
  <2> QED BY <2>1, <1>5 DEF Sock
\* A QP of the pair that is being set up.
<1>6. ASSUME Open(q) \/ (PassiveConnectQp /\ q = <<Sock, srv.pair, srv.qp>>) PROVE <<q[1], q[2]>> \in stored' \/ Open(q)'
  <2>1. q[1] = Sock /\ q[2] = srv.pair /\ srv.phase \in {"info", "status"} /\ srv.pair \in AllPairs
    BY <1>2, <1>6 DEF PassiveConnectQp, GotStatus
  <2>2. srv.phase = "info" => srv.qp > 1 /\ srv.count < ExpectedConnections
    BY <2>1, <1>0 DEF SrvInv, Serving
  <2>3. q \in PairQps(Sock, srv.pair)
    BY <2>1, <1>2 DEF PairQps, N
  <2>4. ~ (GivesUp \/ PassiveSkipPair)
    BY <2>3, <1>1, PassiveQpSets
  <2>5. CASE PassiveCreate
    <3>1. srv'.socket = srv.socket /\ srv'.phase = "status" /\ srv'.pair = Head(up[Sock]).pair
      BY <2>5, PassiveCall
    <3>2. Head(up[Sock]).pair = srv.pair
      BY <2>2, <2>5, PassiveMessage DEF PassiveCreate
    <3> QED BY <3>1, <3>2, <2>1 DEF Sock
  <2>6. CASE PassiveConnectQp /\ srv.qp = N
    BY <2>1, <2>6, PassiveCall
  <2>7. CASE PassiveConnectQp /\ srv.qp # N
    <3>1. srv'.socket = srv.socket /\ srv'.phase = "info" /\ srv'.pair = srv.pair
      BY <2>7, PassiveCall
    <3> QED BY <3>1, <2>1 DEF Sock
  <2>8. ~ (AcceptHead \/ Accept \/ PassiveHello)
    BY <2>1 DEF AcceptHead, Accept, PassiveHello
  <2>9. ~ PassiveFinish
    BY <2>1, <2>2, <1>0 DEF PassiveFinish
  <2> QED BY <2>4, <2>5, <2>6, <2>7, <2>8, <2>9 DEF PassiveStep, Passive, GivesUp
<1>7. q \in qps["passive"].init \cup qps["passive"].rts => <<q[1], q[2]>> \in stored \/ Open(q)
  BY DEF OwnedP
<1> QED BY <1>4, <1>5, <1>6, <1>7, PassiveQpSets

\* The backlog of a step of the accept thread: what it takes is its head.
LEMMA PassiveBacklog ==
  ASSUME Typed, SrvInv, PassiveStep
  PROVE  /\ Range(backlog') \subseteq Range(backlog)
         /\ \A i \in DOMAIN backlog' :
               \/ ~ Accept /\ backlog' = backlog /\ i \in DOMAIN backlog
               \/ Accept /\ backlog # <<>> /\ i + 1 \in DOMAIN backlog /\ backlog'[i] = backlog[i + 1] /\ i + 1 # 1
                         /\ 1 \in DOMAIN backlog
         /\ Serving' => \/ Serving /\ Sock' = Sock
                        \/ Accept /\ stop = "no" /\ Sock' = Head(backlog) /\ ~ Serving
<1>1. backlog \in Seq(Sockets \cup {<<None, 0>>})
  BY DEF Typed
<1>2. CASE Accept
  <2>1. backlog' = Tail(backlog) /\ backlog # <<>>
    BY <1>2 DEF Accept
  <2>2. \A i \in DOMAIN backlog' : i + 1 \in DOMAIN backlog /\ backlog'[i] = backlog[i + 1] /\ i + 1 # 1
    BY <2>1, <1>1
  <2>3. Range(backlog') \subseteq Range(backlog) /\ 1 \in DOMAIN backlog
    BY <2>1, <2>2, <1>1 DEF Range
  <2>4. Serving' => stop = "no" /\ Sock' = Head(backlog) /\ ~ Serving
    <3>1. CASE stop = "no"
      BY <3>1, <1>2 DEF Accept, Serving, Sock
    <3>2. CASE stop # "no"
      <4>1. srv'.phase = "exited"
        BY <3>2, <1>2 DEF Accept, Typed, Service
      <4> QED BY <4>1 DEF Serving
    <3> QED BY <3>1, <3>2
  <2> QED BY <2>1, <2>2, <2>3, <2>4, <1>2
<1>3. CASE ~ Accept
  <2>1. backlog' = backlog
    BY <1>3, PassiveFrame
  <2>2. Serving' => Serving /\ Sock' = Sock
    <3>1. CASE AcceptHead
      BY <3>1, PassiveCall DEF Serving
    <3>2. CASE GivesUp \/ PassiveFinish
      <4>1. srv' = ServerLoop
        BY <3>2 DEF GivesUp, PassiveLost, PassiveCreateFails, PassiveConnectFails, PassiveFails, PassiveFinish
      <4> QED BY <4>1, PassiveCall DEF Serving
    <3>3. CASE PassiveHello \/ PassiveCreate
      BY <3>3, PassiveCall DEF Serving, Sock, PassiveHello, PassiveCreate
    <3>4. CASE PassiveSkipPair \/ PassiveConnectQp
      BY <3>4, PassiveCall DEF Serving, Sock, PassiveSkipPair, PassiveConnectQp, GotStatus
    <3> QED BY <1>3, <3>1, <3>2, <3>3, <3>4 DEF PassiveStep, Passive, GivesUp
  <2> QED BY <2>1, <2>2, <1>3
<1> QED BY <1>2, <1>3

\* A step of the accept thread keeps Fresh.
LEMMA PassiveFresh ==
  ASSUME Typed, SrvInv, Fresh, PassiveStep
  PROVE  Fresh'
<1>1. conn' = conn /\ qps'["active"] = qps["active"]
  BY PassiveFrame
<1>2. SUFFICES ASSUME NEW s \in Sockets, s[2] > conn[s[1]].attempt
      PROVE  /\ up'[s] = <<>> /\ down'[s] = <<>>
             /\ s \notin Range(backlog') /\ ~ (Serving' /\ Sock' = s)
             /\ <<s, "active">> \notin shut' /\ <<s, "passive">> \notin shut'
             /\ \A id \in qps'["active"].init \cup qps'["active"].rts : id[1] # s
  BY <1>1 DEF Fresh
<1>3. /\ up[s] = <<>> /\ down[s] = <<>>
      /\ s \notin Range(backlog) /\ ~ (Serving /\ Sock = s)
      /\ <<s, "active">> \notin shut /\ <<s, "passive">> \notin shut
      /\ \A id \in qps["active"].init \cup qps["active"].rts : id[1] # s
  BY <1>2 DEF Fresh
<1>4. Accept => s # Head(backlog)
  <2>1. Accept => Head(backlog) \in Range(backlog)
    BY BacklogFacts DEF Accept, Range
  <2> QED BY <2>1, <1>3
<1>5. s \notin Range(backlog') /\ ~ (Serving' /\ Sock' = s)
  BY <1>3, <1>4, PassiveBacklog
<1>6. up'[s] = <<>> /\ down'[s] = <<>> /\ <<s, "active">> \notin shut' /\ <<s, "passive">> \notin shut'
  BY <1>3, <1>4, PassiveFrame
<1> QED BY <1>1, <1>3, <1>5, <1>6

\* A step of the accept thread keeps Queued.
LEMMA PassiveQueued ==
  ASSUME Typed, SrvInv, Queued, PassiveStep
  PROVE  Queued'
<1>1. conn' = conn /\ stop' = stop
  BY PassiveFrame
\* A connection that stays in the backlog is not touched.
<1>2. ASSUME NEW y \in Sockets, Waits(y), ~ (Serving /\ Sock = y), Accept => y # Head(backlog) PROVE Waits(y)'
  <2>1. /\ up'[y] = up[y] /\ down'[y] = down[y]
        /\ <<y, "active">> \in shut' <=> <<y, "active">> \in shut
        /\ <<y, "passive">> \in shut' <=> <<y, "passive">> \in shut
    BY <1>2, PassiveFrame
  <2> QED BY <2>1, <1>1, <1>2 DEF Waits, Broken
<1>3. ASSUME NEW i \in DOMAIN backlog', backlog'[i] = <<None, 0>> PROVE stop' # "no"
  <2>1. CASE ~ Accept
    BY <2>1, <1>1, <1>3, PassiveBacklog DEF Queued
  <2>2. CASE Accept
    BY <2>2, <1>1, <1>3, PassiveBacklog DEF Queued
  <2> QED BY <2>1, <2>2
<1>4. ASSUME NEW i \in DOMAIN backlog', NEW y \in Sockets, y = backlog'[i]
      PROVE  /\ Waits(y)'
             /\ ~ (Serving' /\ Sock' = y)
             /\ \A j \in DOMAIN backlog' : j # i => backlog'[j] # y
  <2>1. CASE ~ Accept
    <3>1. backlog' = backlog /\ i \in DOMAIN backlog
      BY <2>1, PassiveBacklog
    <3>2. /\ Waits(y) /\ ~ (Serving /\ Sock = y)
          /\ \A j \in DOMAIN backlog : j # i => backlog[j] # y
      BY <3>1, <1>4 DEF Queued
    <3> QED BY <2>1, <3>1, <3>2, <1>2, PassiveBacklog
  <2>2. CASE Accept
    <3>1. backlog # <<>> /\ 1 \in DOMAIN backlog /\ Head(backlog) = backlog[1]
      BY <2>2, BacklogFacts DEF Accept
    <3>2. i + 1 \in DOMAIN backlog /\ backlog'[i] = backlog[i + 1] /\ i + 1 # 1
      BY <2>2, PassiveBacklog
    <3>3. /\ Waits(y) /\ ~ (Serving /\ Sock = y)
          /\ \A j \in DOMAIN backlog : j # i + 1 => backlog[j] # y
      BY <3>2, <1>4 DEF Queued
    <3>4. y # Head(backlog)
      BY <3>1, <3>2, <3>3
    <3>5. \A j \in DOMAIN backlog' : j # i => backlog'[j] # y
      <4>1. SUFFICES ASSUME NEW j \in DOMAIN backlog', j # i PROVE backlog'[j] # y
        OBVIOUS
      <4>2. j + 1 \in DOMAIN backlog /\ backlog'[j] = backlog[j + 1]
        BY <2>2, PassiveBacklog
      <4>3. i \in Int /\ j \in Int
        <5>1. backlog' \in Seq(Sockets \cup {<<None, 0>>})
          BY <3>1, BacklogFacts, <2>2 DEF Accept
        <5> QED BY <5>1
      <4> QED BY <4>1, <4>2, <4>3, <3>3
    <3> QED BY <3>3, <3>4, <3>5, <1>2, PassiveBacklog
  <2> QED BY <2>1, <2>2
<1>5. ASSUME NEW i \in DOMAIN backlog', backlog'[i] \in Sockets
      PROVE  /\ Waits(backlog[i])'
             /\ ~ (Serving' /\ Sock' = backlog'[i])
             /\ \A j \in DOMAIN backlog' : j # i => backlog'[j] # backlog'[i]
  <2>1. PICK y \in Sockets : y = backlog'[i]
    BY <1>5
  <2> QED BY <2>1, <1>4 DEF Waits, Broken
<1> QED BY <1>3, <1>5 DEF Queued

\* The thread takes the connection at the head of the backlog.
LEMMA PassiveAccepts ==
  ASSUME Typed, SrvInv, Queued, Accept, Serving'
  PROVE  UpShape' /\ Lockstep'
<1>1. stop = "no" /\ Sock' = Head(backlog) /\ backlog # <<>>
  <2>1. PassiveStep
    BY DEF PassiveStep, Passive
  <2>2. backlog # <<>> /\ ~ Serving
    BY DEF Accept, Serving
  <2> QED BY <2>1, <2>2, PassiveBacklog
<1>2. PICK s \in Sockets : s = Head(backlog) /\ s = backlog[1] /\ 1 \in DOMAIN backlog
  BY <1>1, BacklogFacts DEF Queued
<1>3. Waits(s)
  BY <1>2 DEF Queued
<1>4. srv'.phase = "hello" /\ srv'.step = 1 /\ up' = up /\ down' = down /\ shut' = shut /\ conn' = conn /\ Sock' = s
  BY <1>1, <1>2 DEF Accept
<1>5. UpShape'
  BY <1>4 DEF UpShape
<1>6. CASE Broken(s)
  BY <1>4, <1>5, <1>6 DEF Lockstep, Broken
<1>7. CASE ~ Broken(s)
  <2>1. /\ conn[s[1]].attempt = s[2] /\ conn[s[1]].phase = "hello" /\ down[s] = <<>>
        /\ <<s, "active">> \notin shut /\ <<s, "passive">> \notin shut
        /\ \/ conn[s[1]].step = 1 /\ up[s] = <<>>
           \/ conn[s[1]].step = 2 /\ Len(up[s]) = 1
    BY <1>3, <1>7 DEF Waits
  <2>2. Sync(s[1])'
    BY <2>1, <1>4 DEF Sync
  <2> QED BY <2>1, <2>2, <1>4, <1>5 DEF Lockstep
<1> QED BY <1>6, <1>7

\* The thread sends or takes a message of the connection it serves.
LEMMA PassiveInStep ==
  ASSUME IInv, PassiveStep, Serving, Serving', NEW s \in Sockets, s = Sock, NEW u, u = up[s]
  PROVE  UpShape' /\ Lockstep'
<1>1. /\ Typed /\ SrvInv /\ UpShape /\ Lockstep /\ srv \in Service /\ srv.step \in 1..8 /\ srv.qp \in 1..N /\ N \in Nat \ {0}
      /\ u \in Seq(Msg) /\ up \in [Sockets -> Seq(Msg)] /\ down \in [Sockets -> Seq(Msg)] /\ s[1] \in Clients
      /\ conn[s[1]] \in Call /\ conn[s[1]].step \in 1..8 /\ conn[s[1]].qp \in 1..N
  BY ConstFacts DEF IInv, Typed, Service, Call, Sockets, N
<1>2. /\ conn' = conn /\ Targets' = Targets /\ Sock' = s
      /\ qps'["active"] = qps["active"] /\ \A p : ReadyA(s, p)' <=> ReadyA(s, p)
  <2>1. ~ (GivesUp \/ PassiveFinish \/ AcceptHead \/ Accept)
    <3>1. GivesUp \/ PassiveFinish => srv' = ServerLoop
      BY DEF GivesUp, PassiveLost, PassiveCreateFails, PassiveConnectFails, PassiveFails, PassiveFinish
    <3> QED BY <3>1, <1>1, PassiveCall DEF Serving, AcceptHead, Accept
  <2>2. Sock' = s
    BY <2>1, <1>1, PassiveBacklog
  <2> QED BY <2>2, <1>1, PassiveFrame, SameTargets DEF ReadyA, PairQps
<1>3. /\ \A i \in 1..8 : PassiveScript[i][1] \in {"send", "recv"} /\ (PassiveScript[i][1] = "send" <=> i \in {2, 4, 6, 8})
      /\ \A i \in 1..8 : PassiveScript[i][2] \in {"num_nics", "numa", "names", "qps"}
  BY ScriptFacts
<1>4. CASE PassiveHello
  <2>0. srv.phase = "hello" /\ shut' = shut
    BY <1>4 DEF PassiveHello
  <2>1. /\ srv'.qp = srv.qp /\ srv.qp = 1
        /\ srv.step = 8 => srv'.phase = "info"
        /\ srv.step # 8 => srv'.phase = "hello" /\ srv'.step = srv.step + 1
    BY <2>0, <1>1, <1>4, PassiveCall DEF SrvInv
  <2>2. \/ /\ srv.step \in {2, 4, 6, 8} /\ up' = up
           /\ down' = Sent(down, s, "active", Hello(PassiveScript[srv.step][2]))
        \/ /\ srv.step \in {1, 3, 5, 7} /\ u # <<>> /\ down' = down /\ up' = [up EXCEPT ![s] = Tail(@)]
    <3>1. \/ /\ PassiveScript[srv.step][1] = "send" /\ up' = up
             /\ down' = Sent(down, Sock, "active", Hello(PassiveScript[srv.step][2]))
          \/ /\ PassiveScript[srv.step][1] = "recv" /\ up[Sock] # <<>> /\ down' = down
             /\ up' = [up EXCEPT ![Sock] = Tail(up[Sock])]
      BY <1>4, Zenon DEF PassiveHello
    <3>2. PassiveScript[srv.step][1] = "send" => srv.step \in {2, 4, 6, 8}
      BY <1>1, <1>3
    <3>3. PassiveScript[srv.step][1] = "recv" => srv.step \in {1, 3, 5, 7}
      BY <1>1, <1>3
    <3> QED BY <3>1, <3>2, <3>3, Zenon
  <2>3. CASE Broken(s)
    <3>1. u = <<>> /\ up' = up /\ down' = Sent(down, s, "active", Hello(PassiveScript[srv.step][2]))
      BY <2>2, <2>3 DEF Broken
    <3>2. Broken(s)'
      BY <3>1, <2>0, <2>3 DEF Broken, Sent
    <3>3. UpShape'
      BY <3>1, <2>0, <2>1, <1>2 DEF UpShape
    <3> QED BY <3>2, <3>3, <1>2 DEF Lockstep, Broken
  <2>4. CASE ~ Broken(s)
    <3>1. /\ conn[s[1]].attempt = s[2] /\ conn[s[1]].phase = "hello"
          /\ <<s, "active">> \notin shut /\ <<s, "passive">> \notin shut
      BY <2>0, <2>4, <1>1 DEF Lockstep, Sync
    <3>2. \/ srv.step = conn[s[1]].step /\ u = <<>> /\ down[s] = <<>>
          \/ conn[s[1]].step \in {2, 4, 6, 8} /\ srv.step = conn[s[1]].step - 1 /\ Len(u) = 1 /\ down[s] = <<>>
          \/ conn[s[1]].step \in {2, 4, 6, 8} /\ srv.step = conn[s[1]].step + 1 /\ u = <<>> /\ Len(down[s]) = 1
      BY <2>0, <2>4, <1>1 DEF Lockstep, Sync
    <3>3. CASE srv.step \in {2, 4, 6, 8}
      <4>1. /\ srv.step = conn[s[1]].step /\ u = <<>> /\ down[s] = <<>> /\ up' = up
            /\ down' = Sent(down, s, "active", Hello(PassiveScript[srv.step][2]))
        BY <3>2, <3>3, <2>2
      <4>2. down'[s] = Append(down[s], Hello(PassiveScript[srv.step][2]))
        BY <4>1, <3>1, <1>1 DEF Sent
      <4>3. Len(down'[s]) = 1
        <5>1. Len(Append(down[s], Hello(PassiveScript[srv.step][2]))) = 1
          BY <4>1, AppendOne, Zenon
        <5> QED BY <4>2, <5>1, Zenon
      <4>4. UpShape'
        BY <4>1, <2>1, <3>3, <1>2 DEF UpShape
      <4>5. Sync(s[1])'
        <5>1. /\ conn'[s[1]].phase = "hello" /\ up'[s] = <<>> /\ conn'[s[1]].step = srv.step /\ srv'.qp = 1
              /\ \/ srv.step = 8 /\ srv'.phase = "info"
                 \/ srv.step \in {2, 4, 6} /\ srv'.phase = "hello" /\ srv'.step = srv.step + 1
          BY <4>1, <3>1, <3>3, <2>1, <1>2
        <5> QED BY <5>1, <4>3, <1>2 DEF Sync
      <4> QED BY <4>4, <4>5, <3>1, <2>0, <1>2 DEF Lockstep
    <3>4. CASE srv.step \in {1, 3, 5, 7}
      <4>1. /\ conn[s[1]].step \in {2, 4, 6, 8} /\ srv.step = conn[s[1]].step - 1 /\ Len(u) = 1 /\ down[s] = <<>>
            /\ down' = down /\ up' = [up EXCEPT ![s] = Tail(@)]
        BY <3>2, <3>4, <2>2
      <4>2. up'[s] = <<>>
        BY <4>1, <1>1, AppendFacts
      <4>3. srv'.phase = "hello" /\ srv'.step = conn'[s[1]].step /\ conn'[s[1]].phase = "hello" /\ down'[s] = <<>>
        BY <4>1, <3>1, <3>4, <2>1, <1>2
      <4>4. UpShape'
        BY <4>3 DEF UpShape
      <4>5. Sync(s[1])'
        BY <4>2, <4>3, <1>2 DEF Sync
      <4> QED BY <4>4, <4>5, <3>1, <2>0, <1>2 DEF Lockstep
    <3> QED BY <3>3, <3>4, <1>1
  <2> QED BY <2>3, <2>4
\* What is left of the steps takes a message, so the connection is not broken.
<1>5. u # <<>> => ~ Broken(s)
  BY DEF Broken
<1>6. CASE PassiveCreate
  <2>1. /\ srv.phase = "info" /\ u # <<>> /\ Len(u) = 1 /\ u[1].pair \in AllPairs /\ Head(u) = u[1]
        /\ up' = [up EXCEPT ![s] = Tail(u)] /\ Tail(u) = <<>> /\ shut' = shut
        /\ down' = Sent(down, s, "active", Info(u[1].pair, srv.qp))
    BY <1>1, <1>6, PassiveMessage DEF PassiveCreate
  <2>2. srv'.qp = srv.qp /\ srv'.phase = "status" /\ srv'.pair = u[1].pair
    BY <1>1, <1>6, <2>1, PassiveCall
  <2>3. up'[s] = <<>>
    BY <2>1, <1>1
  <2>4. UpShape'
    BY <2>2, <2>3, <1>2 DEF UpShape
  <2>5. CASE conn[s[1]].attempt = s[2] => conn[s[1]].phase \in {"ok", "error"}
    BY <2>2, <2>4, <2>5, <1>2 DEF Lockstep
  <2>6. CASE ~ (conn[s[1]].attempt = s[2] => conn[s[1]].phase \in {"ok", "error"})
    <3>1. /\ conn[s[1]].attempt = s[2] /\ <<s, "active">> \notin shut /\ <<s, "passive">> \notin shut
          /\ Sync(s[1]) /\ (InPairs(s[1]) \/ conn[s[1]].phase = "hello")
      BY <2>1, <2>6, <1>1, <1>5 DEF Lockstep
    <3>2. /\ InPairs(s[1]) /\ down[s] = <<>> /\ srv.qp = conn[s[1]].qp /\ conn[s[1]].phase = "wait"
          /\ u[1].pair = PairOf(s[1])
      BY <3>1, <2>1 DEF Sync, InPairs
    <3>3. down'[s] = Append(down[s], Info(u[1].pair, srv.qp))
      BY <3>1, <2>1, <1>1 DEF Sent
    <3>4. Len(down'[s]) = 1
      <4>1. Len(Append(down[s], Info(u[1].pair, srv.qp))) = 1
        BY <3>2, AppendOne, SMT
      <4> QED BY <3>3, <4>1, Zenon
    <3>5. Sync(s[1])'
      <4>1. PairOf(s[1])' = PairOf(s[1])
        BY <1>2 DEF PairOf
      <4> QED BY <4>1, <3>2, <3>4, <2>2, <2>3, <1>2 DEF Sync
    <3> QED BY <3>1, <3>2, <3>5, <2>1, <2>4, <1>2 DEF Lockstep, InPairs
  <2> QED BY <2>5, <2>6
<1>7. CASE PassiveSkipPair \/ PassiveConnectQp
  <2> DEFINE goes == u[1].kind = "success" /\ srv.qp < N
  <2>1. /\ srv.phase = "status" /\ u # <<>> /\ Head(u) = u[1] /\ up' = [up EXCEPT ![s] = Tail(u)]
        /\ shut' = shut /\ down' = down
        /\ u[1].kind = IF PassiveConnectQp THEN "success" ELSE "failure"
    <3>1. u[1] = Head(u) /\ u # <<>> /\ srv.phase = "status"
      BY <1>1, <1>7, PassiveMessage DEF PassiveSkipPair, PassiveConnectQp, GotStatus
    <3> QED BY <3>1, <1>7 DEF PassiveSkipPair, PassiveConnectQp, GotStatus
  <2>2. up'[s] = Tail(u)
    BY <2>1, <1>1
  <2>3. \/ Len(u) = 1 /\ up'[s] = <<>>
        \/ Len(u) = 2 /\ Len(up'[s]) = 1 /\ up'[s][1] = u[2]
    BY <2>1, <2>2, <1>1, PassiveMessage
  <2>4. /\ srv'.phase = "info"
        /\ goes => srv'.qp = srv.qp + 1 /\ srv'.pair = srv.pair
        /\ ~ goes => srv'.qp = 1
    <3>1. CASE PassiveConnectQp
      BY <3>1, <2>1, <1>1, PassiveCall
    <3>2. CASE ~ PassiveConnectQp
      <4>1. srv' = NextPair
        BY <3>2, <1>7 DEF PassiveSkipPair
      <4> QED BY <4>1, <3>2, <2>1, <1>1, PassiveCall
    <3> QED BY <3>1, <3>2
  <2>5. Len(u) = 2 =>
          /\ u[2].kind = "info" /\ ~ LastP(s, u[2].pair) /\ u[2].pair \in AllPairs
          /\ u[1].kind = "success" => (srv.qp = N <=> u[2].pair # srv.pair)
    BY <2>1, <1>1 DEF UpShape
  <2>6. Len(u) = 2 => ~ LastP(s, u[2].pair)'
    <3>1. SUFFICES ASSUME Len(u) = 2, <<s, u[2].pair, N>> \in qps'["passive"].rts PROVE FALSE
      BY DEF LastP, N
    <3>2. PassiveConnectQp /\ <<s, u[2].pair, N>> = <<Sock, srv.pair, srv.qp>>
      BY <3>1, <2>5, <1>1, PassiveQpSets DEF LastP
    <3>3. u[2].pair = srv.pair /\ srv.qp = N
      BY <3>2
    <3> QED BY <3>1, <3>2, <3>3, <2>1, <2>5
  <2>7. UpShape'
    <3>1. (Len(u) = 2 /\ srv'.qp > 1) => u[2].pair = srv'.pair
      BY <2>4, <2>5, <1>1
    <3> QED BY <3>1, <2>3, <2>4, <2>5, <2>6, <1>2 DEF UpShape, LastP
  <2>8. CASE conn[s[1]].attempt = s[2] => conn[s[1]].phase \in {"ok", "error"}
    BY <2>4, <2>7, <2>8, <1>2 DEF Lockstep
  <2>9. CASE ~ (conn[s[1]].attempt = s[2] => conn[s[1]].phase \in {"ok", "error"})
    <3>1. /\ conn[s[1]].attempt = s[2] /\ <<s, "active">> \notin shut /\ <<s, "passive">> \notin shut
          /\ Sync(s[1])
      BY <2>1, <2>9, <1>1, <1>5 DEF Lockstep
    <3>2. /\ down[s] = <<>> /\ After(s[1], u[1])
          /\ \/ conn[s[1]].phase = "create" /\ Len(u) = 1
             \/ conn[s[1]].phase = "wait" /\ Len(u) = 2 /\ u[2].pair = PairOf(s[1])
      BY <3>1, <2>1 DEF Sync
    <3>3. conn[s[1]].qp = srv'.qp /\ (srv'.qp > 1 => srv'.pair = PairOf(s[1]))
      <4>1. CASE goes
        BY <4>1, <3>2, <2>4 DEF After
      <4>2. CASE ~ goes
        BY <4>2, <3>2, <2>4 DEF After
      <4> QED BY <4>1, <4>2
    <3>4. Sync(s[1])'
      <4>1. PairOf(s[1])' = PairOf(s[1])
        BY <1>2 DEF PairOf
      <4> QED BY <4>1, <3>2, <3>3, <2>1, <2>3, <2>4, <1>2 DEF Sync, InPairs
    <3> QED BY <3>1, <3>2, <3>4, <2>1, <2>7, <1>2 DEF Lockstep, InPairs
  <2> QED BY <2>8, <2>9
<1>8. ~ (GivesUp \/ PassiveFinish \/ AcceptHead \/ Accept)
  <2>1. GivesUp \/ PassiveFinish => srv' = ServerLoop
    BY DEF GivesUp, PassiveLost, PassiveCreateFails, PassiveConnectFails, PassiveFails, PassiveFinish
  <2> QED BY <2>1, <1>1, PassiveCall DEF Serving, AcceptHead, Accept
<1> QED BY <1>4, <1>6, <1>7, <1>8 DEF PassiveStep, Passive, GivesUp

\* A step of the accept thread keeps the invariant.
LEMMA PassiveIInv ==
  ASSUME IInv, PassiveStep
  PROVE  IInv'
<1>1. /\ Typed /\ SrvInv /\ ConnInv /\ Fresh /\ Queued /\ UpShape /\ Lockstep /\ Follows /\ OwnedP /\ OwnedA
  BY DEF IInv
<1>2. Typed'
  BY <1>1, TypedPassive DEF PassiveStep
<1>3. UpShape' /\ Lockstep'
  <2>1. CASE ~ Serving'
    BY <2>1 DEF UpShape, Lockstep, Serving
  <2>2. CASE Accept /\ Serving'
    BY <2>2, <1>1, PassiveAccepts
  <2>3. CASE ~ Accept /\ Serving'
    <3>1. Serving /\ Sock \in Sockets
      BY <2>3, <1>1, PassiveBacklog DEF SrvInv
    <3> HIDE DEF IInv
    <3> QED BY <3>1, <2>3, PassiveInStep
  <2> QED BY <2>1, <2>2, <2>3
<1> QED BY <1>1, <1>2, <1>3, PassiveSrvInv, PassiveConnInv, PassiveFresh, PassiveQueued, PassiveFollowed,
           PassiveOwned DEF IInv

-----------------------------------------------------------------------------
(* stopAcceptThread(), the close of the listener, broken connections       *)

\* What these steps leave alone.
LEMMA OtherFrame ==
  ASSUME IInv, StopAcceptThread \/ CloseListener \/ (\E s \in Sockets : Break(s)) \/ UNCHANGED vars
  PROVE  Typed' /\ SrvInv' /\ ConnInv' /\ Follows' /\ OwnedP' /\ OwnedA'
<1>1. Typed /\ SrvInv /\ ConnInv /\ Follows /\ OwnedP /\ OwnedA
  BY DEF IInv
<1>2. suffix' = suffix /\ conn' = conn /\ qpMap' = qpMap /\ qps' = qps /\ srv' = srv /\ stored' = stored
  BY DEF StopAcceptThread, CloseListener, Break, vars
<1>3. Targets' = Targets /\ ExpectedConnections' = ExpectedConnections
  BY <1>2, SameTargets
<1>4. Typed'
  BY <1>1, TypedOther
<1>5. SrvInv'
  BY <1>1, <1>2, <1>3 DEF SrvInv, Serving, Sock, LastP
<1>6. ConnInv'
  BY <1>1, <1>2, <1>3 DEF ConnInv, ConnOk, InPairs, LastA, SocketOf, PairOf
<1>7. Follows'
  BY <1>1, <1>2 DEF Follows, LastP, ReadyA, PairQps
<1>8. OwnedP'
  BY <1>1, <1>2, Zenon DEF OwnedP, Sock
<1>9. OwnedA'
  BY <1>1, <1>2, <1>3 DEF OwnedA, InPairs, ReadyA, PairQps, SocketOf, PairOf
<1> QED BY <1>4, <1>5, <1>6, <1>7, <1>8, <1>9

\* A stutter keeps the invariant.
LEMMA SameIInv ==
  ASSUME IInv, UNCHANGED vars
  PROVE  IInv'
<1>1. Typed' /\ SrvInv' /\ ConnInv' /\ Follows' /\ OwnedP' /\ OwnedA'
  BY OtherFrame
<1>2. conn' = conn /\ up' = up /\ down' = down /\ shut' = shut /\ qps' = qps /\ srv' = srv
      /\ backlog' = backlog /\ stop' = stop /\ suffix' = suffix
  BY DEF vars
<1>3. Targets' = Targets
  BY <1>2, SameTargets
<1>4. Fresh'
  BY <1>2 DEF IInv, Fresh, Serving, Sock
<1>5. Queued'
  BY <1>2 DEF IInv, Queued, Waits, Broken, Serving, Sock
<1>6. UpShape'
  BY <1>2 DEF IInv, UpShape, LastP, ReadyA, PairQps, Sock
<1>7. Lockstep'
  BY <1>2, <1>3 DEF IInv, Lockstep, Serving, Sock, Broken, InPairs, Sync, After, PairOf
<1> QED BY <1>1, <1>4, <1>5, <1>6, <1>7 DEF IInv

\* stopAcceptThread() keeps the invariant.
LEMMA StopIInv ==
  ASSUME IInv, StopAcceptThread
  PROVE  IInv'
<1>1. Typed' /\ SrvInv' /\ ConnInv' /\ Follows' /\ OwnedP' /\ OwnedA'
  BY OtherFrame
<1>2. conn' = conn /\ up' = up /\ down' = down /\ shut' = shut /\ qps' = qps /\ srv' = srv
      /\ backlog' = Append(backlog, <<None, 0>>) /\ stop' = "joining" /\ suffix' = suffix
  BY DEF StopAcceptThread
<1>3. Targets' = Targets
  BY <1>2, SameTargets
<1>4. backlog \in Seq(Sockets \cup {<<None, 0>>}) /\ <<None, 0>> \notin Sockets
  BY ConstFacts DEF IInv, Typed
<1>5. /\ \A i \in DOMAIN backlog' : \/ i \in DOMAIN backlog /\ backlog'[i] = backlog[i]
                                    \/ backlog'[i] = <<None, 0>>
  BY <1>2, <1>4
<1>6. Fresh'
  <2>1. \A s \in Sockets : s \in Range(backlog') => s \in Range(backlog)
    BY <1>4, <1>5 DEF Range
  <2> QED BY <2>1, <1>2 DEF IInv, Fresh, Serving, Sock
<1>7. Queued'
  <2>1. ASSUME NEW i \in DOMAIN backlog', backlog'[i] \in Sockets
        PROVE  /\ i \in DOMAIN backlog /\ backlog'[i] = backlog[i]
               /\ \A j \in DOMAIN backlog' : j # i => backlog'[j] # backlog'[i]
    <3>1. i \in DOMAIN backlog /\ backlog'[i] = backlog[i]
      BY <2>1, <1>4, <1>5
    <3>2. \A j \in DOMAIN backlog : j # i => backlog[j] # backlog[i]
      BY <2>1, <3>1 DEF IInv, Queued
    <3> QED BY <2>1, <3>1, <3>2, <1>4, <1>5
  <2>2. \A y : Waits(y) => Waits(y)'
    BY <1>2 DEF Waits, Broken
  <2>3. ASSUME NEW i \in DOMAIN backlog', backlog'[i] \in Sockets
        PROVE  Waits(backlog[i])' /\ ~ (Serving' /\ Sock' = backlog'[i])
    <3>1. PICK y \in Sockets : y = backlog'[i]
      BY <2>3
    <3>2. Waits(y) /\ ~ (Serving /\ Sock = y)
      BY <2>1, <2>3, <3>1 DEF IInv, Queued
    <3> QED BY <2>2, <3>1, <3>2, <1>2 DEF Waits, Broken, Serving, Sock
  <2> QED BY <2>1, <2>3, <1>2 DEF Queued
<1>8. UpShape'
  BY <1>2 DEF IInv, UpShape, LastP, ReadyA, PairQps, Sock
<1>9. Lockstep'
  BY <1>2, <1>3 DEF IInv, Lockstep, Serving, Sock, Broken, InPairs, Sync, After, PairOf
<1> QED BY <1>1, <1>6, <1>7, <1>8, <1>9 DEF IInv

\* The close of the listener keeps the invariant.
LEMMA CloseIInv ==
  ASSUME IInv, CloseListener
  PROVE  IInv'
<1>1. Typed' /\ SrvInv' /\ ConnInv' /\ Follows' /\ OwnedP' /\ OwnedA'
  BY OtherFrame
<1>2. conn' = conn /\ up' = up /\ down' = down /\ qps' = qps /\ srv' = srv /\ srv.phase = "exited"
      /\ backlog' = <<>> /\ shut' = shut \cup {<<s, "passive">> : s \in Range(backlog)}
  BY DEF CloseListener
<1>3. Fresh'
  BY <1>2 DEF IInv, Fresh, Serving, Sock, Range
<1>4. Queued' /\ UpShape' /\ Lockstep'
  BY <1>2 DEF Queued, UpShape, Lockstep, Serving
<1> QED BY <1>1, <1>3, <1>4 DEF IInv

\* A connection that breaks keeps the invariant.
LEMMA BreakIInv ==
  ASSUME IInv, NEW s \in Sockets, Break(s)
  PROVE  IInv'
<1>1. Typed' /\ SrvInv' /\ ConnInv' /\ Follows' /\ OwnedP' /\ OwnedA'
  BY OtherFrame
<1>2. conn' = conn /\ qps' = qps /\ srv' = srv /\ backlog' = backlog /\ stop' = stop /\ suffix' = suffix
  BY DEF Break
<1>3. /\ Broken(s)'
      /\ \A x \in Sockets : x # s =>
            /\ up'[x] = up[x] /\ down'[x] = down[x]
            /\ <<x, "active">> \in shut' <=> <<x, "active">> \in shut
            /\ <<x, "passive">> \in shut' <=> <<x, "passive">> \in shut
  <2>1. up \in [Sockets -> Seq(Msg)] /\ down \in [Sockets -> Seq(Msg)]
    BY DEF IInv, Typed
  <2>2. /\ up' = [up EXCEPT ![s] = <<>>] /\ down' = [down EXCEPT ![s] = <<>>]
        /\ shut' = shut \cup {<<s, "active">>, <<s, "passive">>}
    BY DEF Break
  <2>3. Broken(s)'
    BY <2>1, <2>2 DEF Broken
  <2>4. ASSUME NEW x \in Sockets, x # s
        PROVE  /\ up'[x] = up[x] /\ down'[x] = down[x]
               /\ <<x, "active">> \in shut' <=> <<x, "active">> \in shut
               /\ <<x, "passive">> \in shut' <=> <<x, "passive">> \in shut
    BY <2>1, <2>2, <2>4
  <2> QED BY <2>3, <2>4
<1>4. s \in Range(backlog) \/ (Serving /\ Sock = s)
  BY ConstFacts DEF Break, IInv, SrvInv
<1>5. Fresh'
  <2>1. ~ (s[2] > conn[s[1]].attempt)
    BY <1>4 DEF IInv, Fresh
  <2>2. SUFFICES ASSUME NEW y \in Sockets, y[2] > conn[y[1]].attempt
        PROVE  /\ up'[y] = <<>> /\ down'[y] = <<>>
               /\ y \notin Range(backlog) /\ ~ (Serving /\ Sock = y)
               /\ <<y, "active">> \notin shut' /\ <<y, "passive">> \notin shut'
               /\ \A id \in qps["active"].init \cup qps["active"].rts : id[1] # y
    BY <1>2 DEF Fresh, Serving, Sock
  <2>3. y # s
    BY <2>1, <2>2
  <2> QED BY <2>2, <2>3, <1>3 DEF IInv, Fresh
<1>6. Queued'
  <2>1. ASSUME NEW x \in Sockets, Waits(x) PROVE Waits(x)'
    <3>1. CASE x = s
      BY <3>1, <1>3 DEF Waits
    <3>2. CASE x # s
      <4>1. /\ up'[x] = up[x] /\ down'[x] = down[x] /\ conn' = conn
            /\ <<x, "active">> \in shut' <=> <<x, "active">> \in shut
            /\ <<x, "passive">> \in shut' <=> <<x, "passive">> \in shut
        BY <3>2, <1>2, <1>3
      <4> QED BY <4>1, <2>1 DEF Waits, Broken
    <3> QED BY <3>1, <3>2
  <2>2. \A i \in DOMAIN backlog' : backlog'[i] \in Sockets => Waits(backlog[i])'
    <3>1. SUFFICES ASSUME NEW i \in DOMAIN backlog, NEW y \in Sockets, y = backlog[i] PROVE Waits(y)'
      BY <1>2 DEF Waits, Broken
    <3> QED BY <2>1, <3>1 DEF IInv, Queued
  <2> QED BY <2>2, <1>2 DEF IInv, Queued, Serving, Sock
<1>7. CASE ~ Serving
  BY <1>1, <1>2, <1>5, <1>6, <1>7 DEF IInv, UpShape, Lockstep, Serving
<1>8. CASE Serving
  <2>1. Sock \in Sockets /\ Sock' = Sock
    BY <1>2, <1>8 DEF IInv, SrvInv, Sock
  <2>2. CASE Sock = s
    <3>1. Lockstep' /\ up'[s] = <<>>
      BY <2>1, <2>2, <1>3 DEF Lockstep, Broken
    <3>2. UpShape'
      BY <2>1, <2>2, <3>1 DEF UpShape
    <3> QED BY <3>1, <3>2, <1>1, <1>5, <1>6 DEF IInv
  <2>3. CASE Sock # s
    <3>0. PICK x \in Sockets : x = Sock /\ x # s
      BY <2>1, <2>3
    <3>x. /\ up'[x] = up[x] /\ down'[x] = down[x] /\ Sock' = x
          /\ <<x, "active">> \in shut' <=> <<x, "active">> \in shut
          /\ <<x, "passive">> \in shut' <=> <<x, "passive">> \in shut
      BY <3>0, <2>1, <1>3
    <3>1. UpShape'
      BY <3>0, <3>x, <1>2 DEF IInv, UpShape, LastP, ReadyA, PairQps
    <3>2. Lockstep'
      <4>1. Targets' = Targets
        BY <1>2, SameTargets
      <4> QED BY <4>1, <3>0, <3>x, <1>2, <1>8 DEF IInv, Lockstep, Serving, Broken, InPairs, Sync, After, PairOf
    <3> QED BY <3>1, <3>2, <1>1, <1>5, <1>6 DEF IInv
  <2> QED BY <2>2, <2>3
<1> QED BY <1>7, <1>8

\* The invariant holds at first.
LEMMA InitIInv == Init => IInv
<1> SUFFICES ASSUME Init PROVE IInv
  OBVIOUS
<1>1. Typed
  BY TypedInit
<1>2. /\ conn = [c \in Clients |-> [phase |-> "idle", attempt |-> 0, step |-> 1, pair |-> 1,
                                  qp |-> 1, skipped |-> {}]]
      /\ up = [s \in Sockets |-> <<>>] /\ down = [s \in Sockets |-> <<>>]
      /\ shut = {} /\ qps = [side \in {"active", "passive"} |-> [init |-> {}, rts |-> {}]]
      /\ srv.phase = "loop" /\ srv.socket = None /\ srv.qp = 1 /\ srv.count = 0 /\ backlog = <<>>
  BY DEF Init
<1>3. SrvInv
  BY <1>1, <1>2, NamesFacts DEF SrvInv, Serving, Sock, Typed
<1>4. ConnInv
  BY <1>2 DEF ConnInv, ConnOk, InPairs
<1>5. Fresh /\ Queued
  BY <1>2 DEF Fresh, Queued, Range, Serving
<1>6. UpShape /\ Lockstep
  BY <1>2 DEF UpShape, Lockstep, Serving
<1>7. Follows /\ OwnedP /\ OwnedA
  BY <1>2 DEF Follows, LastP, OwnedP, OwnedA
<1> QED BY <1>1, <1>3, <1>4, <1>5, <1>6, <1>7 DEF IInv

\* Every step keeps the invariant.
LEMMA NextIInv == IInv /\ [Next]_vars => IInv'
<1> SUFFICES ASSUME IInv, [Next]_vars PROVE IInv'
  OBVIOUS
<1>1. CASE UNCHANGED vars
  BY <1>1, SameIInv
<1>2. CASE \E c \in Clients : ActiveStep(c)
  BY <1>2, ActiveIInv
<1>3. CASE PassiveStep
  BY <1>3, PassiveIInv
<1>4. CASE StopAcceptThread \/ CloseListener
  BY <1>4, StopIInv, CloseIInv
<1>5. CASE \E s \in Sockets : Break(s)
  BY <1>5, BreakIInv
<1>6. \/ UNCHANGED vars \/ (\E c \in Clients : ActiveStep(c)) \/ PassiveStep
      \/ StopAcceptThread \/ CloseListener \/ (\E s \in Sockets : Break(s))
  BY Zenon DEF Next, Failure, ActiveStep, PassiveStep
<1> HIDE DEF IInv
<1> QED BY <1>1, <1>2, <1>3, <1>4, <1>5, <1>6

\* The inductive invariant holds of every behaviour, whatever fails: the two sides of
\* a connection that is served are in step, what has not been accepted waits, and
\* every QP is of the pair its side is at or of a pair in that side's qp_map.
THEOREM Invariance == Spec => []IInv
BY InitIInv, NextIInv, PTL DEF Spec

-----------------------------------------------------------------------------
(* The properties                                                          *)

\* The states of connect() and of the accept thread, the messages and the sets
\* of QPs keep their shape, and the count of the pairs stays within what
\* acceptLoop() expects: no message makes it count a pair too many.
THEOREM TypeCorrect == Spec => []TypeOK
<1>1. IInv => TypeOK
  <2> SUFFICES ASSUME IInv PROVE TypeOK
    OBVIOUS
  <2>1. Typed /\ SrvInv /\ ExpectedConnections \in Nat
    BY NamesFacts DEF IInv, Typed
  <2>2. conn \in [Clients -> [phase : {"idle", "hello", "create", "wait", "ok", "error"},
                              attempt : 0..MaxConnects, step : 1..8, pair : Nat,
                              qp : 1..ActualQps, skipped : SUBSET AllPairs]]
    BY <2>1 DEF Typed, Call
  <2>3. srv.phase \in {"loop", "accept", "hello", "info", "status", "exited"}
        /\ srv.count \in 0..ExpectedConnections /\ srv.qp \in 1..ActualQps
    BY <2>1 DEF Typed, Service, SrvInv
  <2>4. qps \in [{"active", "passive"} -> [init : SUBSET QpIds, rts : SUBSET QpIds]]
    BY <2>1 DEF Typed, QpSets
  <2> QED BY <2>1, <2>2, <2>3, <2>4 DEF Typed, Ends, TypeOK
<1> QED BY <1>1, Invariance, PTL

\* No error path of connect() or of acceptLoop() leaves a QP behind that no
\* qp_map owns, in whatever order the failures and the messages come.
THEOREM NoQpLeaks == Spec => []QpsOwned
<1>1. IInv => QpsOwned
  <2> SUFFICES ASSUME IInv PROVE QpsOwned
    OBVIOUS
  <2>1. ASSUME NEW q \in qps["passive"].init \cup qps["passive"].rts, Over(q[1])
        PROVE  <<q[1], q[2]>> \in stored
    BY <2>1 DEF IInv, OwnedP, Over
  <2>2. ASSUME NEW q \in qps["active"].init \cup qps["active"].rts, Over(q[1])
        PROVE  /\ qpMap[q[1][1]][q[2]] >= q[1][2]
               /\ PairQps(q[1], q[2]) \subseteq qps["active"].rts
    <3>1. q \in QpIds
      BY <2>2 DEF IInv, Typed, QpSets
    <3>2. q[1][1] \in Clients /\ q[1] = <<q[1][1], q[1][2]>>
      BY <3>1 DEF QpIds, Sockets
    <3>3. conn[q[1][1]].attempt \in Nat
      BY <3>2 DEF IInv, Typed, Call
    <3>4. ~ (InPairs(q[1][1]) /\ SocketOf(q[1][1]) = q[1])
      BY <2>2, <3>2, <3>3 DEF Over, InPairs, SocketOf
    <3> QED BY <2>2, <3>4 DEF IInv, OwnedA, ReadyA
  <2> QED BY <2>1, <2>2 DEF QpsOwned
<1> QED BY <1>1, Invariance, PTL

\* The pairs that are ready on the connecting side stay so, whoever steps.
LEMMA ReadyKept ==
  ASSUME IInv, [Next]_vars
  PROVE  /\ Ready("active") \subseteq Ready("active")'
         /\ Ready("passive") \subseteq Ready("passive")'
         /\ Ready("active")' = Ready("active") \/ Ready("passive")' = Ready("passive")
<1>0. /\ Typed /\ SrvInv /\ ConnInv /\ Follows
  BY DEF IInv
<1>1. ASSUME NEW c \in Clients, ActiveStep(c)
      PROVE  Ready("active") \subseteq Ready("active")' /\ Ready("passive")' = Ready("passive")
  <2>1. Ready("passive")' = Ready("passive")
    BY <1>0, <1>1, ActiveFrame DEF Ready, PairQps
  <2>2. \A s \in Sockets, p \in AllPairs : ReadyA(s, p) => ReadyA(s, p)'
    BY <1>0, <1>1, ActiveReadyKept
  <2>3. Ready("active") \subseteq Ready("active")'
    BY <2>2 DEF Ready, ReadyA, PairQps
  <2> QED BY <2>1, <2>3
<1>2. ASSUME PassiveStep
      PROVE  Ready("active")' = Ready("active") /\ Ready("passive") \subseteq Ready("passive")'
  <2>1. Ready("active")' = Ready("active")
    BY <1>0, <1>2, PassiveFrame DEF Ready, PairQps
  <2>2. SUFFICES ASSUME NEW s \in Sockets, NEW p \in AllPairs, PairQps(s, p) \subseteq qps["passive"].rts,
                        NEW id \in PairQps(s, p)
                 PROVE  id \in qps'["passive"].rts
    BY <2>1 DEF Ready, PairQps
  <2>3. ASSUME Serving, id \in PairQps(Sock, srv.pair) PROVE FALSE
    <3>1. s = Sock /\ p = srv.pair
      BY <2>2, <2>3 DEF PairQps
    <3>2. LastP(s, p)
      BY <2>2, ConstFacts DEF LastP, PairQps, N
    <3> QED BY <3>1, <3>2, <2>3, <1>0, ConstFacts DEF SrvInv, Serving
  <2> QED BY <2>2, <2>3, <1>0, <1>2, PassiveQpSets
<1>3. CASE StopAcceptThread \/ CloseListener \/ (\E s \in Sockets : Break(s)) \/ UNCHANGED vars
  <2>1. qps' = qps
    BY <1>3 DEF StopAcceptThread, CloseListener, Break, vars
  <2> QED BY <2>1 DEF Ready, PairQps
<1>4. \/ UNCHANGED vars \/ (\E c \in Clients : ActiveStep(c)) \/ PassiveStep
      \/ StopAcceptThread \/ CloseListener \/ (\E s \in Sockets : Break(s))
  BY Zenon DEF Next, Failure, ActiveStep, PassiveStep
<1> HIDE DEF IInv
<1> QED BY <1>1, <1>2, <1>3, <1>4

\* A pair is ready on the accepting side only if it is on the connecting side.
LEMMA PassiveBehind == Follows => Ready("passive") \subseteq Ready("active")
<1> SUFFICES ASSUME Follows, NEW s \in Sockets, NEW p \in AllPairs, PairQps(s, p) \subseteq qps["passive"].rts
             PROVE  PairQps(s, p) \subseteq qps["active"].rts
  BY DEF Ready
<1>1. LastP(s, p)
  BY ConstFacts DEF LastP, PairQps, N
<1> QED BY <1>1 DEF Follows, ReadyA

\* The exchange implements PairCommit: a step makes pairs ready on the connecting
\* side, or on the accepting side pairs that are ready on the connecting side, or
\* neither, and no failure takes back what is ready.
THEOREM Refines == Spec => PassiveFollowsActive
<1>1. Init => PC!Init
  <2> SUFFICES ASSUME Init PROVE Ready("active") = {} /\ Ready("passive") = {}
    BY DEF PC!Init
  <2>1. qps["active"].rts = {} /\ qps["passive"].rts = {}
    BY DEF Init
  <2>2. \A k \in Sockets \X AllPairs : <<k[1], k[2], 1>> \in PairQps(k[1], k[2])
    BY ConstFacts DEF PairQps, N
  <2> QED BY <2>1, <2>2 DEF Ready
<1>2. IInv /\ [Next]_vars => [PC!Next]_<<Ready("active"), Ready("passive")>>
  <2> SUFFICES ASSUME IInv, [Next]_vars PROVE [PC!Next]_<<Ready("active"), Ready("passive")>>
    OBVIOUS
  <2>1. /\ Ready("active") \subseteq Ready("active")' /\ Ready("passive") \subseteq Ready("passive")'
        /\ Ready("active")' = Ready("active") \/ Ready("passive")' = Ready("passive")
    BY ReadyKept
  <2>2. Ready("active")' \subseteq Sockets \X AllPairs
    BY DEF Ready
  <2>3. Ready("passive")' \subseteq Ready("active")'
    <3>1. IInv'
      BY NextIInv
    <3>2. Follows'
      BY <3>1 DEF IInv
    <3>3. (Follows => Ready("passive") \subseteq Ready("active"))'
      BY PassiveBehind, PTL
    <3> QED BY <3>2, <3>3
  <2>4. CASE Ready("passive")' = Ready("passive")
    BY <2>1, <2>2, <2>4 DEF PC!Next, PC!ActiveCommits
  <2>5. CASE Ready("active")' = Ready("active")
    BY <2>1, <2>3, <2>5 DEF PC!Next, PC!PassiveFollows
  <2> QED BY <2>1, <2>4, <2>5
<1> QED BY <1>1, <1>2, Invariance, PTL DEF Spec, PC!Spec, PassiveFollowsActive


-----------------------------------------------------------------------------
(* Agreement                                                               *)

\* connect() has returned; the pairs of a socket in the host's qp_map; the first n
\* pairs.
Done(c) == conn[c].phase \in {"ok", "error"}
PairsIn(s) == {p \in AllPairs : <<s, p>> \in stored}
First(n) == {Targets[i] : i \in 1..n}

\* An end is closed only by a side that is through with the exchange.
Closed ==
    /\ \A s \in Sockets : <<s, "active">> \in shut => s[2] < conn[s[1]].attempt \/ Done(s[1])
    /\ \A s \in Sockets : <<s, "passive">> \in shut => s \in peers

\* No pair is skipped, and connect() returns what the names say.
VerdictOf(c) ==
    /\ conn[c].skipped = {}
    /\ conn[c].phase = "error" => Targets = <<>>
    /\ conn[c].phase = "ok" => Targets # <<>> /\ host[c] = [attempt |-> conn[c].attempt, pairs |-> Range(Targets)]
Verdict == \A c \in Clients : VerdictOf(c)

\* The accepting side is through with that socket: the other end is too, or has
\* nothing to wait for.
Through(s) ==
    \/ Done(s[1])
    \/ conn[s[1]].phase = "create" /\ conn[s[1]].pair = Len(Targets) + 1
    \/ conn[s[1]].phase = "hello" /\ conn[s[1]].step = 8 /\ Len(down[s]) = 1 /\ Len(Targets) = 0

\* Every connection waits, is served or has been, and only those that have been
\* are in connections_, with all pairs.
Served ==
    /\ \A s \in Sockets : s[2] <= conn[s[1]].attempt => s \in Range(backlog) \/ (Serving /\ Sock = s) \/ s \in peers
    /\ \A s \in peers : /\ s[2] <= conn[s[1]].attempt /\ s \notin Range(backlog) /\ ~ (Serving /\ Sock = s)
                        /\ PairsIn(s) = Range(Targets)
                        /\ conn[s[1]].attempt = s[2] => Through(s)
    /\ \A k \in stored : k[1] \in peers \/ (Serving /\ Sock = k[1])

\* The pair that connect() is at once the accepting side has read st.
PairAfter(st) == IF st.kind = "success" /\ srv.qp < N THEN srv.count + 1 ELSE srv.count + 2

\* connect() is still at the connection that is served.
With(c) == conn[c].attempt = Sock[2] /\ ~ Done(c)

\* The accepting side counts the pairs in the order in which connect() goes
\* through them.
Counted == Serving =>
    LET u == up[Sock] c == Sock[1] n == srv.count IN
    /\ PairsIn(Sock) = First(n)
    /\ srv.phase = "hello" => n = 0
    /\ srv.phase = "status" \/ srv.qp > 1 => n < Len(Targets) /\ srv.pair = Targets[n + 1]
    /\ srv.phase = "status" /\ u # <<>> => u[1].kind = "success"
    /\ With(c) =>
         /\ srv.phase = "info" /\ conn[c].phase = "hello" => n = 0
         /\ srv.phase = "info" /\ InPairs(c) => conn[c].pair = n + 1
         /\ srv.phase = "status" /\ u = <<>> => conn[c].pair = n + 1
         /\ srv.phase = "status" /\ u # <<>> => conn[c].pair = PairAfter(u[1])
    /\ ~ With(c) => \/ srv.phase = "info" /\ u = <<>> /\ n = Len(Targets)
                    \/ srv.phase = "status" /\ Len(u) = 1 /\ srv.qp = N /\ n + 1 = Len(Targets)

\* As long as nothing fails and nobody stops the thread.
Quiet == faults = 0 /\ stop = "no"
Agreed == Closed /\ Verdict /\ Served /\ Counted

\* The two sides of the connection that is served, when nothing fails.
LEMMA QuietEnds ==
  ASSUME IInv, Agreed, Serving
  PROVE  /\ Sock \in Sockets /\ Sock[1] \in Clients /\ Sock = <<Sock[1], Sock[2]>> /\ ~ Broken(Sock)
         /\ With(Sock[1]) => /\ Sock = SocketOf(Sock[1]) /\ (InPairs(Sock[1]) \/ conn[Sock[1]].phase = "hello")
                             /\ <<Sock, "active">> \notin shut /\ <<Sock, "passive">> \notin shut
                             /\ Sync(Sock[1])
         /\ ~ With(Sock[1]) => srv.phase # "hello"
<1>1. Sock \in Sockets
  BY DEF IInv, SrvInv
<1>2. Sock[1] \in Clients /\ Sock = <<Sock[1], Sock[2]>>
  BY <1>1 DEF Sockets
<1>3. ~ Broken(Sock)
  BY <1>1 DEF Broken, Agreed, Closed, Served
<1>4. \/ /\ conn[Sock[1]].attempt = Sock[2] /\ (InPairs(Sock[1]) \/ conn[Sock[1]].phase = "hello")
         /\ <<Sock, "active">> \notin shut /\ <<Sock, "passive">> \notin shut
         /\ Sync(Sock[1])
      \/ /\ conn[Sock[1]].attempt = Sock[2] => Done(Sock[1])
         /\ srv.phase # "hello"
  BY <1>3 DEF IInv, Lockstep, Done
<1>5. InPairs(Sock[1]) \/ conn[Sock[1]].phase = "hello" => ~ Done(Sock[1])
  BY DEF InPairs, Done
<1> HIDE DEF Sync
<1> QED BY <1>1, <1>2, <1>3, <1>4, <1>5 DEF With, SocketOf

\* A connection that connect() is at: an end that was closed, nobody finds.
LEMMA NoLoss ==
  ASSUME IInv, Agreed, ExpectedConnections = Len(Targets)
  PROVE  /\ \A c \in Clients : ~ ActiveHelloLost(c) /\ ~ ActiveInfoLost(c)
         /\ ~ PassiveLost /\ ~ PassiveSkipPair
<1>1. ASSUME NEW c \in Clients, Lost(down, SocketOf(c), "passive"), conn[c].phase \in {"hello", "wait"} PROVE FALSE
  <2>1. SocketOf(c) \in Sockets
    BY <1>1, CurrentFacts DEF IInv
  <2>2. SocketOf(c) \in peers /\ down[SocketOf(c)] = <<>>
    BY <1>1, <2>1 DEF Lost, Agreed, Closed
  <2>3. Through(SocketOf(c))
    BY <2>2 DEF Agreed, Served, SocketOf
  <2>4. Len(down[SocketOf(c)]) = 0
    BY <2>2
  <2> QED BY <1>1, <2>3, <2>4 DEF Through, Done, SocketOf
<1>2. ASSUME PassiveLost PROVE FALSE
  <2>1. Serving /\ Lost(up, Sock, "active")
    BY <1>2 DEF PassiveLost, Serving
  <2>2. Sock \in Sockets /\ ~ With(Sock[1])
    BY <2>1, QuietEnds DEF Lost
  <2>3. \/ srv.phase = "info" /\ srv.count = Len(Targets)
        \/ srv.phase = "status" /\ Len(up[Sock]) = 1
    BY <2>1, <2>2 DEF Agreed, Counted
  <2>4. up[Sock] = <<>> /\ Len(<<>>) = 0
    BY <2>1 DEF Lost
  <2>5. srv.phase = "info" => srv.count < ExpectedConnections
    BY <1>2 DEF PassiveLost
  <2>6. srv.count \in Nat
    BY DEF IInv, Typed, Service
  <2> QED BY <2>3, <2>4, <2>5, <2>6
<1>3. ASSUME PassiveSkipPair PROVE FALSE
  <2>1. srv.phase = "status" /\ up[Sock] # <<>> /\ Head(up[Sock]).kind = "failure"
    BY <1>3 DEF PassiveSkipPair, GotStatus
  <2>2. up[Sock][1].kind = "success" /\ Head(up[Sock]) = up[Sock][1]
    BY <2>1, PassiveMessage DEF Agreed, Counted, Serving, IInv
  <2> QED BY <2>1, <2>2
<1> QED BY <1>1, <1>2, <1>3 DEF ActiveHelloLost, ActiveInfoLost


\* The steps of connect() when nothing fails.
QuietActive(c) == Connect(c) \/ ActiveHello(c) \/ ActiveCreate(c) \/ ActiveConnectQp(c) \/ ActiveFinish(c)

\* connect() keeps its verdict: it ends with an error only if there are no pairs.
LEMMA ActiveVerdict ==
  ASSUME IInv, Agreed, NEW c \in Clients, QuietActive(c)
  PROVE  Verdict'
<1>1. /\ Typed /\ ConnInv /\ conn \in [Clients -> Call] /\ conn[c] \in Call
      /\ VerdictOf(c) /\ \A d \in Clients : VerdictOf(d)
  BY DEF IInv, Typed, Agreed, Verdict
<1>2. Targets' = Targets /\ \A d \in Clients \ {c} : conn'[d] = conn[d]
  BY <1>1, ActiveFrame, SameTargets DEF QuietActive, ActiveStep, Active
<1>3. host \in [Clients -> [attempt : 0..MaxConnects, pairs : SUBSET AllPairs]]
  BY <1>1 DEF Typed
<1>4. CASE ~ ActiveFinish(c)
  <2>1. host' = host
    BY <1>4 DEF QuietActive, Connect, ActiveHello, ActiveCreate, ActiveConnectQp
  <2>2. conn'[c].skipped = {} /\ conn'[c].phase \notin {"ok", "error"}
    <3>1. CASE Connect(c)
      BY <1>1, <3>1 DEF Connect
    <3>2. CASE ActiveHello(c)
      <4>1. \/ conn' = [conn EXCEPT ![c] = [conn[c] EXCEPT !.phase = "create"]]
            \/ conn' = [conn EXCEPT ![c] = [conn[c] EXCEPT !.step = conn[c].step + 1]]
        BY <3>2, Zenon DEF ActiveHello
      <4>2. conn[c].phase = "hello"
        BY <3>2 DEF ActiveHello
      <4>3. conn'[c] = [conn[c] EXCEPT !.phase = "create"] \/ conn'[c] = [conn[c] EXCEPT !.step = conn[c].step + 1]
        BY <1>1, <4>1
      <4>4. conn'[c].skipped = conn[c].skipped /\ conn'[c].phase \in {"hello", "create"}
        BY <1>1, <4>2, <4>3 DEF Call
      <4> QED BY <1>1, <4>4 DEF VerdictOf
    <3>3. CASE ActiveCreate(c)
      BY <1>1, <3>3 DEF ActiveCreate, Call, VerdictOf
    <3>4. CASE ActiveConnectQp(c)
      <4>1. \/ conn' = [conn EXCEPT ![c].phase = "create", ![c].qp = @ + 1]
            \/ conn' = [conn EXCEPT ![c].phase = "create", ![c].qp = 1, ![c].pair = @ + 1]
        BY <3>4, Zenon DEF ActiveConnectQp
      <4>2. \/ conn'[c] = [conn[c] EXCEPT !.phase = "create", !.qp = @ + 1]
            \/ conn'[c] = [conn[c] EXCEPT !.phase = "create", !.qp = 1, !.pair = @ + 1]
        BY <1>1, <4>1 DEF Call
      <4>3. conn'[c].skipped = conn[c].skipped /\ conn'[c].phase = "create"
        BY <1>1, <4>2 DEF Call
      <4> QED BY <1>1, <4>3 DEF VerdictOf
    <3> QED BY <1>4, <3>1, <3>2, <3>3, <3>4 DEF QuietActive
  <2> QED BY <1>1, <1>2, <2>1, <2>2 DEF Verdict, VerdictOf
<1>5. CASE ActiveFinish(c)
  <2> DEFINE pairs == Range(Targets) \ conn[c].skipped
  <2>1. \/ pairs = {} /\ conn' = [conn EXCEPT ![c].phase = "error"] /\ UNCHANGED host
        \/ /\ pairs # {} /\ conn' = [conn EXCEPT ![c].phase = "ok"]
           /\ host' = [host EXCEPT ![c] = [attempt |-> conn[c].attempt, pairs |-> pairs]]
    BY <1>5, Zenon DEF ActiveFinish
  <2>2. pairs = Range(Targets)
    BY <1>1 DEF VerdictOf
  <2>3. Targets = <<>> <=> Range(Targets) = {}
    <3>1. Targets \in Seq(AllPairs)
      BY <1>1, NamesFacts DEF Typed
    <3>2. Targets = <<>> => Range(Targets) = {}
      BY DEF Range
    <3>3. Targets # <<>> => 1 \in DOMAIN Targets
      BY <3>1
    <3>4. Targets # <<>> => Targets[1] \in Range(Targets)
      BY <3>3 DEF Range
    <3> QED BY <3>2, <3>4
  <2>4. conn'[c].skipped = conn[c].skipped /\ conn'[c].attempt = conn[c].attempt
    BY <1>1, <2>1 DEF Call
  <2> HIDE DEF pairs
  <2>5. CASE conn' = [conn EXCEPT ![c].phase = "error"] /\ pairs = {} /\ host' = host
    <3>1. conn'[c].phase = "error"
      BY <1>1, <2>5 DEF Call
    <3> QED BY <1>1, <1>2, <2>2, <2>3, <2>4, <2>5, <3>1 DEF Verdict, VerdictOf
  <2>6. CASE /\ pairs # {} /\ conn' = [conn EXCEPT ![c].phase = "ok"]
             /\ host' = [host EXCEPT ![c] = [attempt |-> conn[c].attempt, pairs |-> pairs]]
    <3>1. conn'[c].phase = "ok" /\ host'[c] = [attempt |-> conn[c].attempt, pairs |-> pairs]
      BY <1>1, <1>3, <2>6 DEF Call
    <3>2. \A d \in Clients \ {c} : host'[d] = host[d]
      BY <1>3, <2>6
    <3> QED BY <1>1, <1>2, <2>2, <2>3, <2>4, <2>6, <3>1, <3>2 DEF Verdict, VerdictOf
  <2> QED BY <2>1, <2>5, <2>6
<1> QED BY <1>4, <1>5

\* One element more in the range.
LEMMA RangeAppend ==
  ASSUME NEW A, NEW q \in Seq(A), NEW e
  PROVE  Range(Append(q, e)) = Range(q) \cup {e}
<1> DEFINE r == Append(q, e)
<1>1. /\ DOMAIN q = 1..Len(q) /\ DOMAIN r = 1..(Len(q) + 1) /\ Len(q) \in Nat
      /\ \A i \in 1..Len(q) : r[i] = q[i]
      /\ r[Len(q) + 1] = e
  OBVIOUS
<1> HIDE DEF r
<1>2. Range(r) = Range(q) \cup {e}
  BY <1>1 DEF Range
<1> QED BY <1>2 DEF r

\* The range of a sequence is its head and the range of its tail.
LEMMA RangeTail ==
  ASSUME NEW A, NEW q \in Seq(A), q # <<>>
  PROVE  Range(q) = Range(Tail(q)) \cup {Head(q)}
<1> DEFINE r == Tail(q)
<1>1. /\ DOMAIN q = 1..Len(q) /\ Len(q) \in Nat \ {0} /\ DOMAIN r = 1..(Len(q) - 1)
      /\ \A i \in 1..(Len(q) - 1) : r[i] = q[i + 1]
      /\ Head(q) = q[1]
  OBVIOUS
<1> HIDE DEF r
<1>2. Range(r) \cup {Head(q)} \subseteq Range(q)
  BY <1>1 DEF Range
<1>3. ASSUME NEW i \in 1..Len(q) PROVE q[i] \in Range(r) \cup {Head(q)}
  <2>1. CASE i = 1
    BY <1>1, <2>1
  <2>2. CASE i # 1
    <3>1. i - 1 \in 1..(Len(q) - 1) /\ (i - 1) + 1 = i
      BY <1>1, <2>2
    <3>2. r[i - 1] = q[i] /\ i - 1 \in DOMAIN r
      BY <1>1, <3>1
    <3> QED BY <3>2 DEF Range
  <2> QED BY <2>1, <2>2
<1>4. Range(q) \subseteq Range(r) \cup {Head(q)}
  BY <1>1, <1>3 DEF Range
<1> QED BY <1>2, <1>4 DEF r

\* connect() closes its end when it returns, and a new connection waits.
LEMMA ActiveServed ==
  ASSUME IInv, Agreed, NEW c \in Clients, QuietActive(c)
  PROVE  Closed' /\ Served'
<1>0. Typed /\ ConnInv /\ Fresh /\ ActiveStep(c)
  BY DEF IInv, QuietActive, ActiveStep, Active
<1>1. /\ conn[c] \in Call /\ conn[c].attempt \in Nat /\ conn'[c].attempt \in Nat
      /\ \A d \in Clients : conn[d].attempt \in Nat /\ conn'[d].attempt \in Nat /\ conn'[d].attempt >= conn[d].attempt
      /\ \A x \in Sockets : x[1] \in Clients /\ x[2] \in Nat /\ x = <<x[1], x[2]>>
      /\ backlog \in Seq(Sockets \cup {<<None, 0>>}) /\ peers \subseteq Sockets
  <2>1. Typed'
    BY <1>0, TypedActive DEF ActiveStep
  <2>2. \A d \in Clients : conn[d].attempt \in Nat /\ conn'[d].attempt \in Nat
    BY <1>0, <2>1, SMTT(30) DEF Typed, Call
  <2>3. \A x \in Sockets : x[1] \in Clients /\ x[2] \in Nat /\ x = <<x[1], x[2]>>
    BY ConstFacts DEF Sockets
  <2>4. \A d \in Clients : conn'[d].attempt >= conn[d].attempt
    BY <1>0, ActiveAttempt
  <2> QED BY <1>0, <2>2, <2>3, <2>4 DEF Typed
<1>2. /\ srv' = srv /\ stored' = stored /\ peers' = peers /\ Targets' = Targets
      /\ \A d \in Clients \ {c} : conn'[d] = conn[d]
      /\ \A x \in Sockets : x # SocketOf(c) =>
               /\ down'[x] = down[x]
               /\ <<x, "active">> \in shut' <=> <<x, "active">> \in shut
      /\ \A x \in Sockets : <<x, "passive">> \in shut' <=> <<x, "passive">> \in shut
  BY <1>0, ActiveFrame, SameTargets
<1>3. \/ /\ Connect(c) /\ conn'[c].attempt = conn[c].attempt + 1
         /\ backlog' = Append(backlog, <<c, conn[c].attempt + 1>>)
      \/ ~ Connect(c) /\ conn'[c].attempt = conn[c].attempt /\ backlog' = backlog
                      /\ conn[c].phase \in {"hello", "create", "wait"}
  BY <1>0, ActiveAttempt DEF Connect
<1>4. Len(Targets) \in Nat
  BY <1>0, NamesFacts DEF Typed
<1>5. ASSUME NEW x \in Sockets, <<x, "active">> \in shut'
      PROVE  x[2] < conn'[x[1]].attempt \/ Done(x[1])'
  <2>1. CASE x # SocketOf(c)
    <3>1. <<x, "active">> \in shut
      BY <1>2, <1>5, <2>1
    <3>2. x[2] < conn[x[1]].attempt \/ Done(x[1])
      BY <3>1 DEF Agreed, Closed
    <3>3. CASE x[1] # c
      BY <1>1, <1>2, <3>2, <3>3 DEF Done
    <3>4. CASE x[1] = c
      <4>1. x[2] # conn[c].attempt
        BY <1>1, <2>1, <3>4 DEF SocketOf
      <4>2. ~ x[2] > conn[c].attempt
        BY <1>0, <3>1, <3>4 DEF Fresh
      <4> QED BY <1>1, <3>4, <4>1, <4>2
    <3> QED BY <3>3, <3>4
  <2>2. CASE x = SocketOf(c)
    <3>1. x[1] = c /\ x[2] = conn[c].attempt
      BY <2>2 DEF SocketOf
    <3>2. CASE Connect(c)
      BY <1>1, <1>3, <3>1, <3>2
    <3>3. CASE ActiveFinish(c)
      BY <1>0, <3>1, <3>3, ActiveCall DEF Done
    <3>4. CASE ActiveHello(c) \/ ActiveCreate(c) \/ ActiveConnectQp(c)
      <4>1. shut' = shut /\ ~ Done(c)
        BY <3>4 DEF ActiveHello, ActiveCreate, ActiveConnectQp, Done
      <4> QED BY <1>1, <1>5, <3>1, <4>1 DEF Agreed, Closed
    <3> QED BY <3>2, <3>3, <3>4 DEF QuietActive
  <2> QED BY <2>1, <2>2
<1>6. Closed'
  BY <1>2, <1>5 DEF Agreed, Closed
<1>7. Range(backlog') = IF Connect(c) THEN Range(backlog) \cup {<<c, conn[c].attempt + 1>>} ELSE Range(backlog)
  BY <1>1, <1>3, RangeAppend
<1>8. ASSUME NEW x \in Sockets, x[2] <= conn'[x[1]].attempt
      PROVE  x \in Range(backlog') \/ (Serving /\ Sock = x) \/ x \in peers
  <2>1. CASE x[2] <= conn[x[1]].attempt
    BY <1>7, <2>1 DEF Agreed, Served
  <2>2. CASE ~ x[2] <= conn[x[1]].attempt
    <3>1. x[1] = c
      BY <1>1, <1>2, <1>8, <2>2
    <3>2. Connect(c) /\ x[2] = conn[c].attempt + 1
      BY <1>1, <1>3, <1>8, <2>2, <3>1
    <3> QED BY <1>1, <1>7, <3>1, <3>2
  <2> QED BY <2>1, <2>2
<1>9. ASSUME NEW x \in peers
      PROVE  /\ x[2] <= conn'[x[1]].attempt /\ x \notin Range(backlog')
             /\ conn'[x[1]].attempt = x[2] => Through(x)'
  <2>1. /\ x \in Sockets /\ x[2] <= conn[x[1]].attempt /\ x \notin Range(backlog)
        /\ conn[x[1]].attempt = x[2] => Through(x)
    BY <1>1 DEF Agreed, Served
  <2>2. x[2] <= conn'[x[1]].attempt
    BY <1>1, <2>1
  <2>3. x \notin Range(backlog')
    BY <1>1, <1>7, <2>1
  <2>4. ASSUME conn'[x[1]].attempt = x[2], x[1] # c PROVE Through(x)'
    <3>1. x # SocketOf(c)
      BY <2>4 DEF SocketOf
    <3> QED BY <1>1, <1>2, <2>1, <2>4, <3>1 DEF Through, Done
  <2>5. ASSUME conn'[x[1]].attempt = x[2], x[1] = c PROVE Through(x)'
    <3>1. ~ Connect(c) /\ conn[c].attempt = x[2]
      BY <1>1, <1>3, <2>1, <2>5
    <3>2. Through(x) /\ conn[c].phase \in {"hello", "create", "wait"}
      BY <1>3, <2>1, <2>5, <3>1
    <3>3. CASE ActiveHello(c)
      <4>1. conn[c].phase = "hello"
        BY <3>3 DEF ActiveHello
      <4>2. conn[c].step = 8 /\ Len(Targets) = 0
        BY <2>5, <3>2, <4>1 DEF Through, Done
      <4>3. conn'[c].phase = "create" /\ conn'[c].pair = conn[c].pair
        BY <1>0, <3>3, <4>2, ActiveCall
      <4>4. conn[c].pair = 1
        BY <1>0, <4>1 DEF ConnInv, ConnOk
      <4> QED BY <1>2, <2>5, <4>2, <4>3, <4>4 DEF Through
    <3>4. CASE ActiveFinish(c)
      BY <1>0, <2>5, <3>4, ActiveCall DEF Through, Done
    <3>5. CASE ActiveCreate(c)
      BY <1>1, <1>4, <2>5, <3>2, <3>5 DEF ActiveCreate, Through, Done, Call
    <3>6. CASE ActiveConnectQp(c)
      BY <2>5, <3>2, <3>6 DEF ActiveConnectQp, Through, Done
    <3> QED BY <3>1, <3>3, <3>4, <3>5, <3>6 DEF QuietActive
  <2> QED BY <2>2, <2>3, <2>4, <2>5
<1>10. Served'
  <2>1. /\ \A x \in peers : PairsIn(x)' = Range(Targets)' /\ ~ (Serving /\ Sock = x)
        /\ \A k \in stored : k[1] \in peers \/ (Serving /\ Sock = k[1])
    BY <1>2 DEF Agreed, Served, PairsIn
  <2>2. Serving' = Serving /\ Sock' = Sock
    BY <1>2 DEF Serving, Sock
  <2> HIDE DEF Serving, Sock
  <2> QED BY <1>2, <1>8, <1>9, <2>1, <2>2 DEF Served
<1> QED BY <1>6, <1>10


\* connect() keeps the count right: a message it sends is about the next pair.
LEMMA ActiveCounted ==
  ASSUME IInv, Agreed, ExpectedConnections = Len(Targets), NEW c \in Clients, QuietActive(c)
  PROVE  Counted'
<1> SUFFICES ASSUME Serving PROVE Counted'
  <2>1. srv' = srv
    BY ActiveFrame DEF IInv, QuietActive, ActiveStep, Active
  <2> QED BY <2>1 DEF Counted, Serving
<1>0. Typed /\ ConnInv /\ SrvInv /\ Fresh /\ ActiveStep(c)
  BY DEF IInv, QuietActive, ActiveStep, Active
<1>a. PICK s : s = Sock
  OBVIOUS
<1>b. PICK u : u = up[s]
  OBVIOUS
<1>c. PICK n : n = srv.count
  OBVIOUS
<1>1. /\ s \in Sockets /\ s[1] \in Clients /\ ~ Broken(s)
      /\ With(s[1]) => /\ s = SocketOf(s[1]) /\ (InPairs(s[1]) \/ conn[s[1]].phase = "hello")
                       /\ <<s, "active">> \notin shut /\ <<s, "passive">> \notin shut
                       /\ Sync(s[1])
      /\ ~ With(s[1]) => srv.phase # "hello"
  <2> HIDE DEF IInv, Agreed, Sync, With, Broken, Serving
  <2> QED BY <1>a, QuietEnds
<1>2. /\ PairsIn(s) = First(n)
      /\ srv.phase = "hello" => n = 0
      /\ srv.phase = "status" \/ srv.qp > 1 => n < Len(Targets) /\ srv.pair = Targets[n + 1]
      /\ srv.phase = "status" /\ u # <<>> => u[1].kind = "success"
      /\ With(s[1]) =>
         /\ srv.phase = "info" /\ conn[s[1]].phase = "hello" => n = 0
         /\ srv.phase = "info" /\ InPairs(s[1]) => conn[s[1]].pair = n + 1
         /\ srv.phase = "status" /\ u = <<>> => conn[s[1]].pair = n + 1
         /\ srv.phase = "status" /\ u # <<>> => conn[s[1]].pair = PairAfter(u[1])
      /\ ~ With(s[1]) => \/ srv.phase = "info" /\ u = <<>> /\ n = Len(Targets)
                         \/ srv.phase = "status" /\ Len(u) = 1 /\ srv.qp = N /\ n + 1 = Len(Targets)
  BY <1>a, <1>b, <1>c DEF Agreed, Counted
<1>3. /\ srv' = srv /\ stored' = stored /\ Targets' = Targets /\ Sock' = s /\ PairsIn(s)' = PairsIn(s)
      /\ \A d \in Clients \ {c} : conn'[d] = conn[d]
      /\ \A x \in Sockets : x # SocketOf(c) => up'[x] = up[x]
  BY <1>0, <1>a, ActiveFrame, SameTargets DEF Sock, PairsIn
<1>4. /\ conn[c] \in Call /\ conn[c].attempt \in Nat /\ s[2] \in Nat /\ s = <<s[1], s[2]>>
      /\ up \in [Sockets -> Seq(Msg)] /\ u \in Seq(Msg) /\ n \in Nat /\ Len(Targets) \in Nat
      /\ srv.qp \in 1..N /\ N \in Nat /\ n <= Len(Targets)
  <2>1. s[2] \in Nat /\ s = <<s[1], s[2]>>
    BY <1>1, ConstFacts DEF Sockets
  <2>2. n \in Nat /\ srv.qp \in 1..N
    BY <1>0, <1>c DEF Typed, Service, N
  <2>3. Len(Targets) \in Nat /\ n <= Len(Targets)
    BY <1>0, <1>c, NamesFacts DEF Typed, SrvInv
  <2>4. conn[c] \in Call /\ conn[c].attempt \in Nat /\ up \in [Sockets -> Seq(Msg)]
    BY <1>0 DEF Typed, Call
  <2> QED BY <1>1, <1>b, <2>1, <2>2, <2>3, <2>4, ConstFacts
\* What is left to show, once it is known what the step does to this connection.
<1>5. ASSUME NEW w, w = up'[s],
             srv.phase = "status" /\ w # <<>> => w[1].kind = "success",
             With(s[1])' =>
               /\ srv.phase = "info" /\ conn'[s[1]].phase = "hello" => n = 0
               /\ srv.phase = "info" /\ InPairs(s[1])' => conn'[s[1]].pair = n + 1
               /\ srv.phase = "status" /\ w = <<>> => conn'[s[1]].pair = n + 1
               /\ srv.phase = "status" /\ w # <<>> => conn'[s[1]].pair = PairAfter(w[1]),
             ~ With(s[1])' => \/ srv.phase = "info" /\ w = <<>> /\ n = Len(Targets)
                              \/ srv.phase = "status" /\ Len(w) = 1 /\ srv.qp = N /\ n + 1 = Len(Targets)
      PROVE  Counted'
  <2> DEFINE after == IF up'[s][1].kind = "success" /\ srv'.qp < N THEN srv'.count + 1 ELSE srv'.count + 2
  <2>2. First(n)' = First(n) /\ srv'.count = n /\ srv'.phase = srv.phase /\ srv'.qp = srv.qp /\ srv'.pair = srv.pair
    BY <1>3, <1>c DEF First
  <2>4. PairAfter(w[1]) = IF w[1].kind = "success" /\ srv.qp < N THEN n + 1 ELSE n + 2
    BY <1>c DEF PairAfter, N
  <2> HIDE DEF With, InPairs, PairAfter
  <2>5. With(s[1])' =>
               /\ srv'.phase = "info" /\ conn'[s[1]].phase = "hello" => srv'.count = 0
               /\ srv'.phase = "info" /\ InPairs(s[1])' => conn'[s[1]].pair = srv'.count + 1
               /\ srv'.phase = "status" /\ up'[s] = <<>> => conn'[s[1]].pair = srv'.count + 1
               /\ srv'.phase = "status" /\ up'[s] # <<>> => conn'[s[1]].pair = after
    <3>1. after = PairAfter(w[1])
      BY <1>5, <2>2, <2>4
    <3> QED BY <1>5, <2>2, <3>1
  <2>6. ~ With(s[1])' => \/ srv'.phase = "info" /\ up'[s] = <<>> /\ srv'.count = Len(Targets)'
                         \/ srv'.phase = "status" /\ Len(up'[s]) = 1 /\ srv'.qp = N' /\ srv'.count + 1 = Len(Targets)'
    BY <1>5, <1>3, <2>2 DEF N
  <2>7. /\ PairsIn(s)' = First(srv.count)'
        /\ srv'.phase = "hello" => srv'.count = 0
        /\ srv'.phase = "status" \/ srv'.qp > 1 => srv'.count < Len(Targets)' /\ srv'.pair = Targets'[srv'.count + 1]
        /\ srv'.phase = "status" /\ up'[s] # <<>> => up'[s][1].kind = "success"
    BY <1>5, <1>2, <1>3, <2>2 DEF First
  <2> HIDE DEF Serving
  <2> QED BY <1>3, <2>5, <2>6, <2>7 DEF Counted, PairAfter, N
<1>6. CASE s # SocketOf(c)
  <2>1. up'[s] = u
    BY <1>1, <1>3, <1>6, <1>b
  <2>2. CASE s[1] # c
    <3>1. conn'[s[1]] = conn[s[1]]
      BY <1>1, <1>3, <2>2
    <3>2. With(s[1])' = With(s[1]) /\ InPairs(s[1])' = InPairs(s[1])
      BY <3>1, <1>3, <1>a DEF With, Done, InPairs
    <3> HIDE DEF With, InPairs, PairAfter
    <3> QED BY <1>2, <1>5, <2>1, <3>1, <3>2
  <2>3. CASE s[1] = c
    <3>1. ~ With(s[1])
      BY <1>1, <1>6, <2>3
    <3>2. s[2] < conn[c].attempt
      <4>1. s[2] # conn[c].attempt
        BY <1>4, <1>6, <2>3 DEF SocketOf
      <4>2. ~ s[2] > conn[c].attempt
        BY <1>0, <1>1, <1>a, <2>3 DEF Fresh
      <4> QED BY <1>4, <4>1, <4>2, SMTT(30)
    <3>3. ~ With(s[1])'
      <4>1. conn'[c].attempt = conn[c].attempt \/ conn'[c].attempt = conn[c].attempt + 1
        BY <1>0, ActiveAttempt
      <4> QED BY <1>3, <1>4, <2>3, <3>2, <4>1 DEF With
    <3> HIDE DEF With, InPairs, PairAfter
    <3> QED BY <1>2, <1>5, <2>1, <3>1, <3>3
  <2> QED BY <2>2, <2>3
<1>7. CASE s = SocketOf(c)
  <2>1. s[1] = c /\ s[2] = conn[c].attempt
    BY <1>7 DEF SocketOf
  <2>2. CASE Connect(c)
    <3>1. ~ With(s[1])
      <4>1. conn[c].phase \in {"idle", "ok", "error"}
        BY <2>2 DEF Connect
      <4> QED BY <1>1, <2>1, <4>1 DEF InPairs
    <3>2. ~ With(s[1])'
      BY <1>0, <1>3, <1>4, <2>1, <2>2, ActiveCall DEF With
    <3>3. up'[s] = u
      BY <2>2, <1>b DEF Connect
    <3> HIDE DEF With, InPairs, PairAfter
    <3> QED BY <1>2, <1>5, <3>1, <3>2, <3>3
  <2>3. ASSUME conn[c].phase \in {"hello", "create", "wait"}
        PROVE  /\ With(s[1]) /\ Sync(c) /\ (InPairs(c) \/ conn[c].phase = "hello")
               /\ <<s, "passive">> \notin shut
    BY <1>1, <1>a, <2>1, <2>3 DEF With, Done
  <2>4. CASE ActiveHello(c)
    <3>1. conn[c].phase = "hello" /\ ~ InPairs(c)
      BY <2>4 DEF ActiveHello, InPairs
    <3>2. /\ conn'[c].attempt = conn[c].attempt /\ conn'[c].pair = conn[c].pair
          /\ conn'[c].phase \in {"hello", "create"}
      BY <1>0, <2>4, ActiveCall
    <3>3. conn[c].pair = 1
      BY <1>0, <3>1 DEF ConnInv, ConnOk
    <3>4. srv.phase # "status" /\ With(s[1]) /\ (srv.phase = "info" => n = 0)
      BY <1>2, <2>1, <2>3, <3>1 DEF Sync
    <3>5. With(s[1])' /\ (InPairs(s[1])' => conn'[c].pair = 1)
      BY <1>3, <2>1, <3>2, <3>3 DEF With, Done
    <3> HIDE DEF With, InPairs, PairAfter
    <3> QED BY <1>5, <2>1, <3>4, <3>5
  <2>5. CASE ActiveCreate(c)
    <3> DEFINE m == Info(PairOf(c), conn[c].qp)
    <3>1. conn[c].phase = "create" /\ conn[c].pair <= Len(Targets) /\ up' = Sent(up, s, "passive", m) /\ InPairs(c)
      BY <1>7, <2>5 DEF ActiveCreate, InPairs
    <3>2. conn'[c].attempt = conn[c].attempt /\ conn'[c].pair = conn[c].pair /\ conn'[c].phase = "wait"
      BY <1>0, <2>5, ActiveCall
    <3>3. m \in Msg
      <4>1. PairOf(c) \in AllPairs /\ conn[c].qp \in 1..N
        BY <1>0, <1>4, <3>1, CurrentFacts DEF Call, N
      <4> QED BY <4>1, Messages
    <3> HIDE DEF m
    <3>4. up'[s] = Append(u, m)
      BY <1>0, <1>1, <1>b, <2>1, <2>3, <3>1, <3>3, SentOpen
    <3>5. With(s[1]) /\ With(s[1])'
      BY <1>3, <2>1, <2>3, <3>1, <3>2 DEF With, Done
    <3>6. CASE srv.phase = "status"
      <4>1. Len(u) = 1 /\ u # <<>>
        <5>1. Len(u) = 1
          BY <1>a, <1>b, <1>7, <2>1, <2>3, <3>1, <3>6 DEF Sync
        <5> QED BY <5>1, <1>4, AppendFacts
      <4>2. Append(u, m)[1] = u[1] /\ Append(u, m) # <<>>
        BY <4>1, <1>4, <3>3, SMTT(30)
      <4>3. conn'[c].pair = PairAfter(u[1]) /\ u[1].kind = "success"
        BY <1>2, <2>1, <3>2, <3>5, <3>6, <4>1
      <4> HIDE DEF With, InPairs, PairAfter
      <4> QED BY <1>5, <2>1, <3>4, <3>5, <3>6, <4>2, <4>3
    <3>7. CASE srv.phase # "status"
      <4>1. srv.phase = "info" => conn'[c].pair = n + 1 /\ conn'[c].phase # "hello"
        BY <1>2, <2>1, <3>1, <3>2, <3>5
      <4> HIDE DEF With, InPairs, PairAfter
      <4> QED BY <1>5, <2>1, <3>5, <3>7, <4>1
    <3> QED BY <3>6, <3>7
  <2>6. CASE ActiveConnectQp(c)
    <3>1. conn[c].phase = "wait" /\ down[s] # <<>> /\ up' = Sent(up, s, "passive", Status(TRUE)) /\ InPairs(c)
      BY <1>7, <2>6 DEF ActiveConnectQp, InPairs
    <3>2. /\ conn'[c].attempt = conn[c].attempt /\ conn'[c].phase = "create"
          /\ conn[c].qp < N => conn'[c].pair = conn[c].pair
          /\ conn[c].qp = N => conn'[c].pair = conn[c].pair + 1
      BY <1>0, <2>6, ActiveCall
    <3>3. srv.phase = "status" /\ u = <<>> /\ srv.qp = conn[c].qp
      BY <1>a, <1>b, <1>7, <2>1, <2>3, <3>1 DEF Sync, Serving
    <3>4. up'[s] = Append(u, Status(TRUE))
      BY <1>0, <1>1, <1>b, <2>1, <2>3, <3>1, Messages, SentOpen
    <3>5. Append(u, Status(TRUE))[1] = Status(TRUE) /\ Len(Append(u, Status(TRUE))) = 1
      BY <3>3, AppendOne, Zenon
    <3>6. Status(TRUE).kind = "success"
      BY DEF Status
    <3>7. With(s[1]) /\ With(s[1])'
      BY <1>3, <2>1, <2>3, <3>1, <3>2 DEF With, Done
    <3>8. conn[c].pair = n + 1
      BY <1>2, <2>1, <3>3, <3>7
    <3>9. PairAfter(Status(TRUE)) = IF srv.qp < N THEN n + 1 ELSE n + 2
      BY <1>c, <3>6 DEF PairAfter
    <3>10. conn'[c].pair = PairAfter(Status(TRUE))
      <4>1. srv.qp < N \/ srv.qp = N
        BY <1>4
      <4>2. n + 1 + 1 = n + 2
        BY <1>4
      <4>3. ~ N < N
        BY <1>4
      <4> HIDE DEF PairAfter
      <4>4. CASE srv.qp < N
        <5>1. srv.qp # N
          BY <4>4, <4>3
        <5> QED BY <3>2, <3>3, <3>8, <3>9, <4>4
      <4>5. CASE srv.qp = N
        <5>1. conn'[c].pair = conn[c].pair + 1
          BY <3>2, <3>3, <4>5
        <5>2. PairAfter(Status(TRUE)) = n + 2
          BY <3>9, <4>5, <4>3
        <5> QED BY <3>8, <4>2, <5>1, <5>2
      <4> QED BY <4>1, <4>4, <4>5
    <3>11. Append(u, Status(TRUE)) # <<>>
      <4>1. Len(<<>>) = 0
        OBVIOUS
      <4>2. 0 # 1
        OBVIOUS
      <4> QED BY <3>5, <4>1, <4>2, Zenon
    <3> HIDE DEF With, InPairs, PairAfter
    <3> QED BY <1>5, <2>1, <3>3, <3>4, <3>5, <3>6, <3>7, <3>10, <3>11
  <2>7. CASE ActiveFinish(c)
    <3>1. conn[c].phase = "create" /\ conn[c].pair > Len(Targets) /\ up' = up /\ InPairs(c)
      BY <2>7 DEF ActiveFinish, InPairs
    <3>2. ~ With(s[1])'
      BY <1>0, <2>1, <2>7, ActiveCall DEF With, Done
    <3>3. With(s[1]) /\ Sync(c) /\ conn[c].pair \in Nat
      BY <1>4, <2>1, <2>3, <3>1 DEF Call
    <3>4. CASE srv.phase = "info"
      <4>1. u = <<>>
        BY <1>a, <1>b, <1>7, <3>1, <3>3, <3>4 DEF Sync
      <4>2. n = Len(Targets)
        BY <1>2, <1>4, <2>1, <3>1, <3>3, <3>4
      <4> HIDE DEF With, InPairs, PairAfter
      <4> QED BY <1>5, <1>b, <3>1, <3>2, <3>4, <4>1, <4>2
    <3>5. CASE srv.phase = "status"
      <4>1. Len(u) = 1 /\ After(c, u[1])
        BY <1>a, <1>b, <1>7, <3>1, <3>3, <3>5 DEF Sync
      <4>2. u # <<>> /\ u[1].kind = "success" /\ conn[c].pair = PairAfter(u[1])
        <5>1. u # <<>>
          BY <1>4, <4>1, AppendFacts
        <5> QED BY <5>1, <1>2, <2>1, <3>3, <3>5
      <4>3. srv.qp = N
        BY <1>4, <3>1, <3>3, <4>1, <4>2 DEF After
      <4>4. conn[c].pair = n + 2
        BY <1>4, <1>c, <4>2, <4>3 DEF PairAfter
      <4>5. n + 1 = Len(Targets)
        BY <1>2, <1>4, <3>1, <3>5, <4>4
      <4> HIDE DEF With, InPairs, PairAfter
      <4> QED BY <1>5, <1>b, <3>1, <3>2, <3>5, <4>1, <4>2, <4>3, <4>5
    <3>6. srv.phase \in {"info", "status"}
      BY <3>1, <3>3 DEF Sync, Serving
    <3> QED BY <3>4, <3>5, <3>6
  <2> QED BY <2>2, <2>4, <2>5, <2>6, <2>7 DEF QuietActive
<1> QED BY <1>6, <1>7


\* The steps of the accept thread when nothing fails.
QuietPassive == AcceptHead \/ Accept \/ PassiveHello \/ PassiveCreate \/ PassiveConnectQp \/ PassiveFinish

\* What they do besides sending and receiving.
LEMMA QuietPassiveFrame ==
  ASSUME IInv, Agreed, QuietPassive
  PROVE  /\ Typed /\ SrvInv /\ PassiveStep /\ conn' = conn /\ host' = host /\ Targets' = Targets /\ Verdict'
         /\ \A x \in Sockets : ~ (Serving /\ x = Sock) => up'[x] = up[x] /\ down'[x] = down[x]
         /\ PassiveHello \/ PassiveCreate \/ PassiveConnectQp =>
               /\ Serving /\ Serving' /\ Sock' = Sock
               /\ shut' = shut /\ peers' = peers /\ backlog' = backlog
               /\ stored \subseteq stored' /\ stored' \subseteq stored \cup {<<Sock, srv.pair>>}
<1>1. Typed /\ SrvInv /\ PassiveStep
  BY DEF IInv, QuietPassive, PassiveStep, Passive
<1>2. /\ conn' = conn /\ host' = host /\ Targets' = Targets
      /\ \A x \in Sockets : ~ (Serving /\ x = Sock) => up'[x] = up[x] /\ down'[x] = down[x]
  BY <1>1, PassiveFrame, SameTargets
<1>3. Verdict'
  BY <1>2 DEF Agreed, Verdict, VerdictOf
<1>4. srv \in Service /\ srv.qp \in 1..N /\ N \in Nat
  BY <1>1, ConstFacts DEF Typed, Service, N
<1>5. CASE PassiveHello
  <2>1. Serving /\ shut' = shut /\ peers' = peers /\ backlog' = backlog /\ stored' = stored
    BY <1>5 DEF PassiveHello, Serving
  <2>2. srv'.socket = srv.socket /\ srv'.phase \in {"hello", "info"}
    BY <1>1, <1>5, PassiveCall
  <2> QED BY <1>1, <1>2, <1>3, <2>1, <2>2 DEF Serving, Sock
<1>6. CASE PassiveCreate
  <2>1. Serving /\ shut' = shut /\ peers' = peers /\ backlog' = backlog /\ stored' = stored
    BY <1>6 DEF PassiveCreate, Serving
  <2>2. srv'.socket = srv.socket /\ srv'.phase = "status"
    BY <1>1, <1>6, PassiveCall
  <2> QED BY <1>1, <1>2, <1>3, <2>1, <2>2 DEF Serving, Sock
<1>7. CASE PassiveConnectQp
  <2>1. Serving /\ shut' = shut /\ peers' = peers /\ backlog' = backlog
    BY <1>7 DEF PassiveConnectQp, GotStatus, Serving
  <2>2. /\ srv'.socket = srv.socket /\ srv'.phase = "info"
        /\ stored' = stored \/ stored' = stored \cup {<<Sock, srv.pair>>}
    BY <1>1, <1>7, PassiveCall
  <2> QED BY <1>1, <1>2, <1>3, <2>1, <2>2 DEF Serving, Sock
<1>8. CASE ~ (PassiveHello \/ PassiveCreate \/ PassiveConnectQp)
  BY <1>1, <1>2, <1>3, <1>8
<1> QED BY <1>5, <1>6, <1>7, <1>8


\* The accept thread takes a connection that waits, and lets one go whose other end
\* has nothing to wait for.
LEMMA PassiveServed ==
  ASSUME IInv, Agreed, ExpectedConnections = Len(Targets), stop = "no", QuietPassive
  PROVE  Closed' /\ Served'
<1>1. /\ Typed /\ SrvInv /\ PassiveStep /\ conn' = conn /\ Targets' = Targets
      /\ \A x \in Sockets : ~ (Serving /\ x = Sock) => down'[x] = down[x]
      /\ Closed /\ Served /\ peers \subseteq Sockets
  BY QuietPassiveFrame DEF Typed, Agreed
<1>2. CASE PassiveHello \/ PassiveCreate \/ PassiveConnectQp
  <2>1. /\ Serving /\ Serving' /\ Sock' = Sock
        /\ shut' = shut /\ peers' = peers /\ backlog' = backlog
        /\ stored \subseteq stored' /\ stored' \subseteq stored \cup {<<Sock, srv.pair>>}
    BY <1>2, QuietPassiveFrame
  <2>2. Closed'
    BY <1>1, <2>1 DEF Closed, Done
  <2>3. ASSUME NEW x \in peers
        PROVE  /\ x # Sock /\ PairsIn(x)' = PairsIn(x)
               /\ Through(x)' = Through(x)
    <3>1. x \in Sockets /\ x # Sock
      BY <1>1, <2>1 DEF Served
    <3>2. PairsIn(x)' = PairsIn(x)
      BY <2>1, <3>1 DEF PairsIn
    <3>3. Through(x)' = Through(x)
      BY <1>1, <3>1 DEF Through, Done
    <3> QED BY <3>1, <3>2, <3>3
  <2> HIDE DEF Serving, Sock, PairsIn, Through
  <2>4. /\ \A x \in Sockets : x[2] <= conn'[x[1]].attempt => x \in Range(backlog') \/ (Serving' /\ Sock' = x) \/ x \in peers'
        /\ \A x \in peers' : /\ x[2] <= conn'[x[1]].attempt /\ x \notin Range(backlog') /\ ~ (Serving' /\ Sock' = x)
                             /\ PairsIn(x)' = Range(Targets)'
                             /\ conn'[x[1]].attempt = x[2] => Through(x)'
    BY <1>1, <2>1, <2>3 DEF Served
  <2>5. \A k \in stored' : k[1] \in peers' \/ (Serving' /\ Sock' = k[1])
    BY <1>1, <2>1 DEF Served
  <2> QED BY <2>2, <2>4, <2>5 DEF Served
<1>3. CASE AcceptHead
  <2>1. UNCHANGED <<conn, down, shut, stored, peers, backlog>> /\ ~ Serving
    BY <1>3 DEF AcceptHead, Serving
  <2>2. ~ Serving'
    BY <1>1, <1>3, PassiveCall DEF Serving
  <2> HIDE DEF Serving, Sock
  <2> QED BY <1>1, <2>1, <2>2 DEF Closed, Served, Done, Through, PairsIn
<1>4. CASE Accept
  <2> DEFINE h == Head(backlog)
  <2>1. /\ backlog # <<>> /\ backlog' = Tail(backlog) /\ shut' = shut /\ ~ Serving
        /\ UNCHANGED <<conn, down, stored, peers>> /\ srv'.phase = "hello" /\ srv'.socket = Head(backlog)
    BY <1>4 DEF Accept, Serving
  <2>2. Serving' /\ Sock' = h /\ Range(backlog) = Range(backlog') \cup {h}
    <3>1. backlog \in Seq(Sockets \cup {<<None, 0>>})
      BY <1>1 DEF Typed
    <3>2. Range(backlog) = Range(Tail(backlog)) \cup {Head(backlog)}
      BY <2>1, <3>1, RangeTail
    <3> QED BY <2>1, <3>2 DEF Serving, Sock
  <2> HIDE DEF Serving, Sock, PairsIn, Through, h
  <2>3. Closed'
    BY <1>1, <2>1 DEF Closed, Done
  <2>4. ASSUME NEW x \in peers PROVE x # h
    BY <1>1, <2>2 DEF Served
  <2>5. ASSUME NEW x \in peers PROVE PairsIn(x)' = PairsIn(x) /\ Through(x)' = Through(x)
    BY <1>1, <2>1 DEF PairsIn, Through, Done
  <2> QED BY <1>1, <2>1, <2>2, <2>3, <2>4, <2>5 DEF Served
<1>5. CASE PassiveFinish
  <2>1. /\ srv.phase = "info" /\ srv.count = Len(Targets) /\ shut' = shut \cup {<<Sock, "passive">>}
        /\ peers' = peers \cup {Sock} /\ UNCHANGED <<conn, down, stored, backlog>> /\ Serving
    BY <1>5 DEF PassiveFinish, Serving
  <2>2. ~ Serving'
    <3>1. srv' = ServerLoop
      BY <1>5 DEF PassiveFinish
    <3> QED BY <1>1, <3>1, PassiveCall DEF Serving
  <2>a. PICK s : s = Sock
    OBVIOUS
  <2>3. s \in Sockets /\ s[2] \in Nat /\ s[1] \in Clients /\ s = <<s[1], s[2]>> /\ conn[s[1]].attempt \in Nat
    <3>1. s \in Sockets
      BY <2>1, <2>a, <1>1 DEF SrvInv
    <3> QED BY <3>1, ConstFacts, <1>1 DEF Sockets, Typed, Call
  <2>4. s[2] <= conn[s[1]].attempt
    <3>1. ~ s[2] > conn[s[1]].attempt
      BY <2>1, <2>3, <2>a DEF IInv, Fresh
    <3> QED BY <2>3, <3>1
  <2>5. s \notin Range(backlog)
    <3>1. \A i \in DOMAIN backlog : backlog[i] # s
      BY <2>1, <2>3, <2>a DEF IInv, Queued
    <3> QED BY <3>1 DEF Range
  <2>6. PairsIn(s) = Range(Targets)
    <3>1. PairsIn(s) = First(Len(Targets))
      BY <2>1, <2>a DEF Agreed, Counted
    <3>2. DOMAIN Targets = 1..Len(Targets)
      <4>1. Targets \in Seq(AllPairs)
        BY <1>1, NamesFacts DEF Typed
      <4> QED BY <4>1
    <3> QED BY <3>1, <3>2 DEF First, Range
  <2>7. conn[s[1]].attempt = s[2] => Through(s)
    <3> SUFFICES ASSUME conn[s[1]].attempt = s[2], ~ Done(s[1]) PROVE Through(s)
      BY DEF Through
    <3>1. With(s[1])
      BY <2>a DEF With
    <3>2. /\ (InPairs(s[1]) \/ conn[s[1]].phase = "hello") /\ Sync(s[1])
      BY <2>1, <2>a, <3>1, QuietEnds
    <3>3. CASE conn[s[1]].phase = "hello"
      <4>1. conn[s[1]].step = 8 /\ Len(down[s]) = 1
        BY <2>1, <2>a, <3>2, <3>3 DEF Sync, InPairs
      <4>2. Len(Targets) = 0
        BY <2>1, <2>a, <3>1, <3>3 DEF Agreed, Counted
      <4> QED BY <3>3, <4>1, <4>2 DEF Through
    <3>4. CASE InPairs(s[1])
      <4>1. conn[s[1]].pair = Len(Targets) + 1
        BY <2>1, <2>a, <3>1, <3>4 DEF Agreed, Counted
      <4>2. conn[s[1]].phase # "wait"
        <5>1. conn[s[1]].phase = "wait" => conn[s[1]].pair <= Len(Targets)
          BY <2>3 DEF IInv, ConnInv, ConnOk
        <5>2. Len(Targets) \in Nat
          BY <1>1, NamesFacts DEF Typed
        <5> QED BY <4>1, <5>1, <5>2
      <4> QED BY <3>4, <4>1, <4>2 DEF Through, InPairs
    <3> QED BY <3>2, <3>3, <3>4
  <2> HIDE DEF Serving, Sock, IInv, Agreed
  <2>8. Closed'
    <3>1. \A x \in Sockets : <<x, "active">> \in shut' => <<x, "active">> \in shut
      BY <2>1
    <3>2. \A x \in Sockets : <<x, "passive">> \in shut' => <<x, "passive">> \in shut \/ x = Sock
      BY <2>1
    <3> QED BY <1>1, <2>1, <3>1, <3>2 DEF Closed, Done
  <2>9. \A x : PairsIn(x)' = PairsIn(x) /\ Through(x)' = Through(x)
    BY <1>1, <2>1 DEF PairsIn, Through, Done
  <2> HIDE DEF PairsIn, Through
  <2>10. \A x \in Sockets : x[2] <= conn'[x[1]].attempt => x \in Range(backlog') \/ x \in peers'
    BY <1>1, <2>1 DEF Served
  <2>11. \A k \in stored' : k[1] \in peers'
    BY <1>1, <2>1 DEF Served
  <2>12. \A x \in peers' : /\ x[2] <= conn'[x[1]].attempt /\ x \notin Range(backlog')
                           /\ PairsIn(x)' = Range(Targets)'
                           /\ conn'[x[1]].attempt = x[2] => Through(x)'
    BY <1>1, <2>1, <2>a, <2>4, <2>5, <2>6, <2>7, <2>9 DEF Served
  <2> QED BY <2>2, <2>8, <2>10, <2>11, <2>12 DEF Served
<1> QED BY <1>2, <1>3, <1>4, <1>5 DEF QuietPassive


\* The accept thread keeps the count right: what it reads is about the next pair.
LEMMA PassiveCounted ==
  ASSUME IInv, Agreed, ExpectedConnections = Len(Targets), stop = "no", QuietPassive
  PROVE  Counted'
<1>0. Typed /\ SrvInv /\ PassiveStep /\ conn' = conn /\ Targets' = Targets /\ peers \subseteq Sockets
  BY QuietPassiveFrame DEF Typed
<1>n. Len(Targets) \in Nat /\ srv.qp \in 1..N /\ N \in Nat /\ srv.count \in Nat
  BY <1>0, NamesFacts, ConstFacts DEF Typed, Service, N
<1>1. CASE AcceptHead \/ PassiveFinish
  <2>1. ~ Serving'
    <3>1. PassiveFinish => srv' = ServerLoop
      BY DEF PassiveFinish
    <3> QED BY <1>0, <1>1, <3>1, PassiveCall DEF Serving
  <2> QED BY <2>1 DEF Counted
<1>2. CASE Accept
  <2>h. PICK h : h = Head(backlog)
    OBVIOUS
  <2>1. /\ backlog # <<>> /\ UNCHANGED <<conn, up, stored, peers>> /\ srv'.phase = "hello" /\ srv'.socket = Head(backlog)
        /\ srv'.count = 0 /\ srv'.qp = 1 /\ ~ Serving
    BY <1>2 DEF Accept, Serving
  <2>2. 1 \in DOMAIN backlog /\ h = backlog[1] /\ h \in Sockets \cup {<<None, 0>>} /\ h \in Range(backlog)
    BY <1>0, <2>1, <2>h, BacklogFacts DEF Range
  <2>3. h \in Sockets /\ Waits(h)
    BY <2>2 DEF IInv, Queued
  <2>4. h \notin peers
    BY <2>2 DEF Agreed, Served
  <2>5. conn[h[1]].attempt = h[2] /\ conn[h[1]].phase = "hello"
    <3>1. ~ Broken(h)
      BY <2>3, <2>4 DEF Agreed, Closed, Broken
    <3> QED BY <2>3, <3>1 DEF Waits
  <2>6. Sock' = h /\ (With(h[1])' <=> TRUE)
    BY <2>1, <2>5, <2>h DEF Sock, With, Done
  <2>7. PairsIn(h)' = {} /\ First(0)' = {}
    <3>1. PairsIn(h) = {}
      BY <2>1, <2>4 DEF PairsIn, Agreed, Served
    <3> QED BY <2>1, <3>1 DEF PairsIn, First
  <2> HIDE DEF Serving, With, InPairs, PairAfter, Sock, PairsIn
  <2>8. /\ PairsIn(h)' = First(srv.count)' /\ srv'.count = 0
        /\ srv'.phase = "hello" /\ ~ srv'.qp > 1 /\ With(h[1])'
    BY <2>1, <2>6, <2>7 DEF First
  <2> QED BY <2>6, <2>8 DEF Counted
<1>3. CASE PassiveHello \/ PassiveCreate \/ PassiveConnectQp
  <2>a. PICK s : s = Sock
    OBVIOUS
  <2>b. PICK u : u = up[s]
    OBVIOUS
  <2>c. PICK n : n = srv.count
    OBVIOUS
  <2>1. Serving /\ Serving' /\ Sock' = s
    BY <1>3, <2>a, QuietPassiveFrame
  <2>2. /\ s \in Sockets /\ s[1] \in Clients
        /\ With(s[1]) => (InPairs(s[1]) \/ conn[s[1]].phase = "hello") /\ Sync(s[1])
        /\ ~ With(s[1]) => srv.phase # "hello"
    BY <2>1, <2>a, QuietEnds
  <2>3. /\ PairsIn(s) = First(n)
        /\ srv.phase = "hello" => n = 0
        /\ srv.phase = "status" \/ srv.qp > 1 => n < Len(Targets) /\ srv.pair = Targets[n + 1]
        /\ srv.phase = "status" /\ u # <<>> => u[1].kind = "success"
        /\ With(s[1]) =>
             /\ srv.phase = "info" /\ conn[s[1]].phase = "hello" => n = 0
             /\ srv.phase = "info" /\ InPairs(s[1]) => conn[s[1]].pair = n + 1
             /\ srv.phase = "status" /\ u = <<>> => conn[s[1]].pair = n + 1
             /\ srv.phase = "status" /\ u # <<>> => conn[s[1]].pair = PairAfter(u[1])
        /\ ~ With(s[1]) => \/ srv.phase = "info" /\ u = <<>> /\ n = Len(Targets)
                           \/ srv.phase = "status" /\ Len(u) = 1 /\ srv.qp = N /\ n + 1 = Len(Targets)
    BY <2>1, <2>a, <2>b, <2>c DEF Agreed, Counted
  <2>4. With(s[1])' = With(s[1]) /\ InPairs(s[1])' = InPairs(s[1]) /\ conn'[s[1]] = conn[s[1]]
    BY <1>0, <2>1, <2>a DEF With, Done, InPairs
  <2>5. up \in [Sockets -> Seq(Msg)] /\ u \in Seq(Msg) /\ n \in Nat /\ conn[s[1]].pair \in Nat
    BY <1>0, <1>n, <2>2, <2>b, <2>c DEF Typed, Call
  <2>6. CASE PassiveHello
    <3>1. srv.phase = "hello" /\ srv.qp = 1 /\ With(s[1]) /\ n = 0 /\ stored' = stored
      BY <1>0, <2>1, <2>2, <2>3, <2>6 DEF PassiveHello, SrvInv
    <3>2. srv'.qp = 1 /\ srv'.count = 0 /\ srv'.phase \in {"hello", "info"}
      BY <1>0, <2>c, <2>6, <3>1, PassiveCall
    <3>3. conn[s[1]].phase = "hello" /\ ~ InPairs(s[1])
      BY <2>2, <3>1 DEF Sync, InPairs
    <3>4. PairsIn(s)' = First(srv.count)'
      BY <1>0, <2>3, <3>1, <3>2 DEF PairsIn, First
    <3> HIDE DEF Serving, With, InPairs, PairAfter, PairsIn
    <3>5. /\ srv'.phase = "hello" => srv'.count = 0
          /\ ~ (srv'.phase = "status" \/ srv'.qp > 1)
          /\ srv'.phase # "status" /\ With(s[1])' /\ srv'.count = 0 /\ ~ InPairs(s[1])'
      BY <2>4, <3>1, <3>2, <3>3
    <3> QED BY <2>1, <3>4, <3>5 DEF Counted
  <2>7. CASE PassiveCreate
    <3>1. /\ srv.phase = "info" /\ u # <<>> /\ up' = [up EXCEPT ![s] = Tail(u)] /\ stored' = stored
      BY <2>7, <2>a, <2>b DEF PassiveCreate
    <3>2. /\ srv'.qp = srv.qp /\ srv'.count = n /\ srv'.phase = "status" /\ srv'.pair = Head(u).pair
      BY <1>0, <2>a, <2>b, <2>c, <2>7, PassiveCall
    <3>3. Head(u) = u[1] /\ Tail(u) = <<>>
      BY <1>0, <2>a, <2>b, <3>1, PassiveMessage DEF IInv
    <3>4. With(s[1])
      BY <2>3, <3>1
    <3>5. conn[s[1]].phase = "wait" /\ u[1].pair = PairOf(s[1])
      <4>1. Len(<<>>) = 0
        OBVIOUS
      <4>2. \/ conn[s[1]].phase = "hello" /\ u = <<>>
            \/ /\ InPairs(s[1])
               /\ IF conn[s[1]].phase = "create" THEN u = <<>> ELSE Len(u) = 1 /\ u[1].pair = PairOf(s[1])
        <5>1. s = <<s[1], s[2]>> /\ s[2] = conn[s[1]].attempt
          BY <2>2, <2>1, <2>a, <3>4 DEF Sockets, With
        <5> QED BY <2>2, <2>a, <2>b, <3>1, <3>4, <5>1 DEF Sync
      <4> QED BY <3>1, <4>2 DEF InPairs
    <3>6. conn[s[1]].pair = n + 1 /\ n < Len(Targets)
      <4>1. conn[s[1]].pair = n + 1
        BY <2>3, <3>1, <3>4, <3>5 DEF InPairs
      <4>2. conn[s[1]].pair <= Len(Targets)
        BY <2>2, <3>5 DEF IInv, ConnInv, ConnOk
      <4> QED BY <1>n, <2>5, <4>1, <4>2
    <3>7. srv'.pair = Targets'[n + 1]
      BY <1>0, <3>2, <3>3, <3>5, <3>6 DEF PairOf
    <3>8. up'[s] = <<>>
      BY <2>2, <2>5, <3>1, <3>3
    <3>9. PairsIn(s)' = First(srv.count)'
      BY <1>0, <2>3, <3>1, <3>2 DEF PairsIn, First
    <3> HIDE DEF Serving, With, InPairs, PairAfter, PairsIn
    <3> QED BY <1>0, <2>1, <2>4, <3>2, <3>4, <3>6, <3>7, <3>8, <3>9 DEF Counted
  <2>8. CASE PassiveConnectQp
    <3>1. /\ srv.phase = "status" /\ u # <<>> /\ up' = [up EXCEPT ![s] = Tail(u)]
      BY <2>8, <2>a, <2>b DEF PassiveConnectQp, GotStatus
    <3>2. /\ \/ Len(u) = 1 /\ Tail(u) = <<>>
             \/ Len(u) = 2 /\ Len(Tail(u)) = 1
          /\ up'[s] = Tail(u)
      BY <1>0, <2>a, <2>b, <2>2, <2>5, <3>1, PassiveMessage DEF IInv
    <3>3. u[1].kind = "success" /\ n < Len(Targets) /\ srv.pair = Targets[n + 1]
      BY <2>3, <3>1
    <3>4. With(s[1]) => conn[s[1]].phase # "hello" /\ conn[s[1]].pair = PairAfter(u[1])
      <4>1. With(s[1]) => conn[s[1]].phase # "hello"
        BY <2>2, <3>1 DEF Sync
      <4> QED BY <2>3, <3>1, <4>1
    <3>5. CASE srv.qp # N
      <4>1. /\ srv'.phase = "info" /\ srv'.pair = srv.pair /\ srv'.qp = srv.qp + 1 /\ srv'.count = n /\ stored' = stored
            /\ srv.qp < N
        BY <1>0, <2>8, <2>c, <3>5, PassiveCall
      <4>2. With(s[1])
        BY <2>3, <3>1, <3>5
      <4>3. conn[s[1]].pair = n + 1
        BY <2>c, <3>3, <3>4, <4>1, <4>2 DEF PairAfter
      <4>4. PairsIn(s)' = First(srv.count)'
        BY <1>0, <2>3, <4>1 DEF PairsIn, First
      <4> HIDE DEF Serving, With, InPairs, PairAfter, PairsIn
      <4> QED BY <1>0, <2>1, <2>4, <3>3, <3>4, <4>1, <4>2, <4>3, <4>4 DEF Counted
    <3>6. CASE srv.qp = N
      <4>1. srv' = NextPair /\ stored' = stored \cup {<<s, srv.pair>>}
        BY <1>0, <2>8, <2>a, <3>6, PassiveCall
      <4>2. srv'.phase = "info" /\ srv'.qp = 1 /\ srv'.count = n + 1
        BY <1>0, <2>c, <4>1, PassiveCall
      <4>3. With(s[1]) => conn[s[1]].pair = n + 2
        BY <1>n, <2>c, <3>4, <3>6 DEF PairAfter
      <4>4. ~ With(s[1]) => up'[s] = <<>> /\ n + 1 = Len(Targets)
        <5>1. ~ With(s[1]) => Len(u) = 1 /\ n + 1 = Len(Targets)
          BY <2>3, <3>1
        <5>2. Len(u) = 1 => up'[s] = <<>>
          BY <3>2
        <5> HIDE DEF With
        <5> QED BY <5>1, <5>2
      <4>5. PairsIn(s)' = First(n + 1)'
        <5>1. Targets[n + 1] \in AllPairs
          BY <1>0, <1>n, <2>5, <3>3, NamesFacts DEF Typed
        <5>2. PairsIn(s)' = PairsIn(s) \cup {Targets[n + 1]}
          BY <3>3, <4>1, <5>1 DEF PairsIn
        <5>3. 1..(n + 1) = (1..n) \cup {n + 1}
          BY <2>5
        <5> QED BY <1>0, <2>3, <5>2, <5>3 DEF First
      <4> HIDE DEF Serving, With, InPairs, PairAfter, PairsIn
      <4>6. srv'.count + 1 = n + 2
        BY <2>5, <4>2
      <4>7. PairsIn(s)' = First(srv.count)'
        BY <4>2, <4>5 DEF First
      <4> QED BY <1>0, <2>1, <2>4, <3>4, <4>2, <4>3, <4>4, <4>6, <4>7 DEF Counted
    <3> QED BY <3>5, <3>6
  <2> QED BY <1>3, <2>6, <2>7, <2>8
<1> QED BY <1>1, <1>2, <1>3 DEF QuietPassive

\* As long as nothing fails, no other step is left.
LEMMA QuietSteps ==
  ASSUME IInv, Agreed, ExpectedConnections = Len(Targets), [Next]_vars, Quiet'
  PROVE  UNCHANGED vars \/ (\E c \in Clients : QuietActive(c)) \/ QuietPassive
<1>1. faults \in Nat /\ faults' = 0 /\ stop' = "no"
  BY ConstFacts DEF IInv, Typed, Quiet
<1>2. ~ Fault
  BY <1>1 DEF Fault
<1>3. /\ \A c \in Clients : ~ ActiveCreateFails(c) /\ ~ ActiveSkipPair(c)
      /\ ~ PassiveCreateFails /\ ~ PassiveConnectFails /\ \A s \in Sockets : ~ Break(s)
  BY <1>2, Zenon DEF ActiveCreateFails, ActiveSkipPair, PassiveCreateFails, PassiveConnectFails, Break
<1>4. ~ StopAcceptThread /\ ~ CloseListener
  BY <1>1 DEF StopAcceptThread, CloseListener
<1>5. /\ \A c \in Clients : ~ ActiveHelloLost(c) /\ ~ ActiveInfoLost(c)
      /\ ~ PassiveLost /\ ~ PassiveSkipPair
  BY NoLoss
<1> QED BY <1>3, <1>4, <1>5, Zenon DEF Next, Failure, Active, Passive, QuietActive, QuietPassive

\* Quiet states agree, at first and step by step.
LEMMA QuietInit == Init => Agreed
<1> SUFFICES ASSUME Init PROVE Agreed
  OBVIOUS
<1>1. Closed /\ Verdict
  BY DEF Init, Closed, Verdict, VerdictOf
<1>2. Served
  <2>1. \A s \in Sockets : ~ s[2] <= conn[s[1]].attempt
    BY ConstFacts DEF Init, Sockets
  <2> QED BY <2>1 DEF Init, Served
<1>3. Counted
  BY DEF Init, Counted, Serving
<1> QED BY <1>1, <1>2, <1>3 DEF Agreed

LEMMA QuietNext ==
  ASSUME IInv, Quiet => Agreed, [Next]_vars
  PROVE  (Quiet => Agreed)'
<1> SUFFICES ASSUME Quiet' PROVE Agreed'
  OBVIOUS
<1>1. ExpectedConnections = Len(Targets)
  BY CountsAgree DEF IInv, Typed
<1>0. faults \in Nat /\ faults' = 0 /\ stop' = "no"
  BY ConstFacts DEF IInv, Typed, Quiet
<1>2. Quiet
  <2>1. faults' = faults \/ faults' = faults + 1
    <3>1. CASE UNCHANGED vars
      BY <3>1 DEF vars
    <3>2. ASSUME NEW c \in Clients, Connect(c) \/ Active(c) \/ ActiveCreateFails(c) \/ ActiveSkipPair(c)
          PROVE faults' = faults \/ faults' = faults + 1
      BY <3>2 DEF Active, Connect, ActiveHello, ActiveHelloLost, ActiveCreate, ActiveInfoLost, ActiveConnectQp,
                  ActiveFinish, ActiveCreateFails, ActiveSkipPair, Fault
    <3>3. CASE Passive \/ PassiveCreateFails \/ PassiveConnectFails
      BY <3>3 DEF Passive, AcceptHead, Accept, PassiveHello, PassiveLost, PassiveCreate, PassiveSkipPair,
                  PassiveConnectQp, PassiveFinish, PassiveCreateFails, PassiveConnectFails, Fault
    <3>4. CASE StopAcceptThread \/ CloseListener \/ \E s \in Sockets : Break(s)
      BY <3>4 DEF StopAcceptThread, CloseListener, Break, Fault
    <3> QED BY <3>1, <3>2, <3>3, <3>4, Zenon DEF Next, Failure
  <2>2. stop' = "no" => stop = "no"
    <3>1. stop' = stop \/ StopAcceptThread \/ CloseListener
      <4>1. CASE UNCHANGED vars
        BY <4>1 DEF vars
      <4>2. ASSUME NEW c \in Clients, ActiveStep(c) PROVE stop' = stop
        BY <4>2, ActiveFrame DEF IInv
      <4>3. CASE PassiveStep
        BY <4>3, PassiveFrame DEF IInv
      <4>4. CASE \E s \in Sockets : Break(s)
        BY <4>4 DEF Break
      <4>5. \/ UNCHANGED vars \/ (\E c \in Clients : ActiveStep(c)) \/ PassiveStep
            \/ StopAcceptThread \/ CloseListener \/ (\E s \in Sockets : Break(s))
        BY Zenon DEF Next, Failure, ActiveStep, PassiveStep
      <4> QED BY <4>1, <4>2, <4>3, <4>4, <4>5
    <3> QED BY <3>1 DEF StopAcceptThread, CloseListener
  <2> QED BY <1>0, <2>1, <2>2 DEF Quiet
<1> HIDE DEF IInv, Agreed
<1>3. UNCHANGED vars \/ (\E c \in Clients : QuietActive(c)) \/ QuietPassive
  BY <1>1, <1>2, QuietSteps
<1>4. CASE UNCHANGED vars
  <2>1. Agreed
    BY <1>2
  <2>2. /\ conn' = conn /\ host' = host /\ up' = up /\ down' = down /\ shut' = shut /\ srv' = srv
        /\ stored' = stored /\ peers' = peers /\ backlog' = backlog /\ suffix' = suffix
    BY <1>4 DEF vars
  <2>3. Targets' = Targets
    BY <2>2, SameTargets
  <2>4. Closed' /\ Verdict'
    BY <2>1, <2>2, <2>3 DEF Agreed, Closed, Verdict, VerdictOf, Done
  <2>5. Served'
    BY <2>1, <2>2, <2>3 DEF Agreed, Served, PairsIn, Through, Done, Serving, Sock
  <2>6. Counted'
    BY <2>1, <2>2, <2>3 DEF Agreed, Counted, PairsIn, First, PairAfter, With, Done, Serving, Sock, InPairs, N
  <2> QED BY <2>4, <2>5, <2>6 DEF Agreed
<1>5. ASSUME NEW c \in Clients, QuietActive(c) PROVE Agreed'
  <2>1. Verdict' /\ Closed' /\ Served' /\ Counted'
    BY <1>1, <1>2, <1>5, ActiveVerdict, ActiveServed, ActiveCounted
  <2> QED BY <2>1 DEF Agreed
<1>6. CASE QuietPassive
  <2>1. Verdict' /\ Closed' /\ Served' /\ Counted'
    BY <1>1, <1>2, <1>6, QuietPassiveFrame, PassiveServed, PassiveCounted DEF Quiet
  <2> QED BY <2>1 DEF Agreed
<1> QED BY <1>3, <1>4, <1>5, <1>6

\* As long as nothing fails and nobody stops the thread, both sides of a connection
\* that is over have the same pairs, all those the names make, and the same verdict:
\* the count that the accepting side makes by itself is right at every message, for
\* any names, QPs per connection, clients and connections that overlap.
THEOREM AlwaysAgreed == Spec => []Agreement
<1>1. IInv /\ (Quiet => Agreed) => Agreement
  <2> SUFFICES ASSUME IInv, Agreed, NEW c \in Clients, Done(c), Over(SocketOf(c))
               PROVE  /\ (conn[c].phase = "ok") = (Targets # <<>>)
                      /\ SocketOf(c) \in peers
                      /\ {p \in AllPairs : <<SocketOf(c), p>> \in stored} = Range(Targets)
                      /\ Targets # <<>> => host[c] = [attempt |-> conn[c].attempt, pairs |-> Range(Targets)]
    BY DEF Agreement, Quiet, Done
  <2>1. SocketOf(c) \in Sockets /\ conn[c].attempt \in Nat
    <3>1. Typed /\ ConnInv /\ conn[c].phase # "idle"
      BY DEF IInv, Done
    <3>2. SocketOf(c) \in Sockets /\ conn[c] \in Call
      BY <3>1, CurrentFacts
    <3>3. conn[c].attempt \in Nat
      BY <3>2 DEF Call
    <3> QED BY <3>2, <3>3
  <2>2. SocketOf(c) \in peers
    BY <2>1 DEF Agreed, Served, Over, SocketOf
  <2>3. PairsIn(SocketOf(c)) = Range(Targets)
    BY <2>2 DEF Agreed, Served
  <2>4. VerdictOf(c)
    BY DEF Agreed, Verdict
  <2> QED BY <2>2, <2>3, <2>4 DEF PairsIn, VerdictOf, Done
<1>2. IInv /\ (Quiet => Agreed) /\ [Next]_vars => (Quiet => Agreed)'
  BY QuietNext
<1> QED BY <1>1, <1>2, QuietInit, Invariance, PTL DEF Spec
====
