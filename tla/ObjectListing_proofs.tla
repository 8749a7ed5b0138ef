------------------------ MODULE ObjectListing_proofs ------------------------
(***************************************************************************)
(* Proofs about ObjectListing, for every set of keys, size of a chunk, a   *)
(* page and a budget, and whatever is written or fails meanwhile.          *)
(***************************************************************************)
EXTENDS ObjectListing, SequenceTheorems, FiniteSetTheorems, WellFoundedInduction, TLAPS

-----------------------------------------------------------------------------
(* Sequences *)

LEMMA TakeProperties ==
  ASSUME NEW S, NEW s \in Seq(S), NEW n \in Nat
  PROVE  /\ Take(s, n) \in Seq(S)
         /\ Len(Take(s, n)) = IF n < Len(s) THEN n ELSE Len(s)
         /\ \A i \in 1 .. Len(Take(s, n)) : Take(s, n)[i] = s[i]
  <1> DEFINE m == IF n < Len(s) THEN n ELSE Len(s)
  <1>1. Len(s) \in Nat /\ m \in Nat /\ m <= Len(s)
    BY LenProperties
  <1>2. \A i \in 1 .. m : s[i] \in S
    BY <1>1, ElementOfSeq
  <1>3. Take(s, n) = SubSeq(s, 1, m)
    BY DEF Take
  <1> HIDE DEF m
  <1>4. /\ SubSeq(s, 1, m) \in Seq(S)
        /\ Len(SubSeq(s, 1, m)) = IF 1 <= m THEN m - 1 + 1 ELSE 0
        /\ \A i \in 1 .. m - 1 + 1 : SubSeq(s, 1, m)[i] = s[1 + i - 1]
    BY <1>1, <1>2, SubSeqProperties
  <1>5. Len(SubSeq(s, 1, m)) = m
    BY <1>1, <1>4
  <1>6. \A i \in 1 .. m : SubSeq(s, 1, m)[i] = s[i]
    BY <1>1, <1>4
  <1> QED BY <1>3, <1>4, <1>5, <1>6 DEF m

LEMMA DropProperties ==
  ASSUME NEW S, NEW s \in Seq(S), NEW n \in Nat
  PROVE  /\ Drop(s, n) \in Seq(S)
         /\ Len(Drop(s, n)) = IF n < Len(s) THEN Len(s) - n ELSE 0
         /\ \A i \in 1 .. Len(Drop(s, n)) : Drop(s, n)[i] = s[n + i]
  <1>1. Len(s) \in Nat
    BY LenProperties
  <1>2. \A i \in n + 1 .. Len(s) : s[i] \in S
    BY <1>1, ElementOfSeq
  <1> DEFINE a == n + 1
             b == Len(s)
  <1>3. a \in Int /\ b \in Int
    BY <1>1
  <1>4. /\ SubSeq(s, a, b) \in Seq(S)
        /\ Len(SubSeq(s, a, b)) = IF a <= b THEN b - a + 1 ELSE 0
        /\ \A i \in 1 .. b - a + 1 : SubSeq(s, a, b)[i] = s[a + i - 1]
    BY <1>2, <1>3, SubSeqProperties
  <1>5. Len(SubSeq(s, a, b)) = IF n < Len(s) THEN Len(s) - n ELSE 0
    BY <1>1, <1>4
  <1>6. \A i \in 1 .. Len(SubSeq(s, a, b)) : SubSeq(s, a, b)[i] = s[n + i]
    BY <1>1, <1>4
  <1>7. Drop(s, n) = SubSeq(s, a, b)
    BY DEF Drop
  <1> QED BY <1>4, <1>5, <1>6, <1>7

LEMMA IsPrefixMeans ==
  ASSUME NEW s \in Seq(Nat), NEW t \in Seq(Nat)
  PROVE  IsPrefix(s, t) <=> Len(s) <= Len(t) /\ \A i \in 1 .. Len(s) : s[i] = t[i]
  <1>1. Len(s) \in Nat /\ Len(t) \in Nat
    BY LenProperties
  <1>2. CASE ~(Len(s) <= Len(t))
    BY <1>2 DEF IsPrefix
  <1>3. CASE Len(s) <= Len(t)
    <2>1. /\ Take(s, Len(s)) \in Seq(Nat) /\ Len(Take(s, Len(s))) = Len(s)
          /\ \A i \in 1 .. Len(s) : Take(s, Len(s))[i] = s[i]
      BY <1>1, TakeProperties
    <2>2. /\ Take(t, Len(s)) \in Seq(Nat) /\ Len(Take(t, Len(s))) = Len(s)
          /\ \A i \in 1 .. Len(s) : Take(t, Len(s))[i] = t[i]
      BY <1>1, <1>3, TakeProperties
    <2>3. Take(s, Len(s)) = SubSeq(s, 1, Len(s)) /\ Take(t, Len(s)) = SubSeq(t, 1, Len(s))
      BY <1>1, <1>3 DEF Take
    <2>4. IsPrefix(s, t) <=> Take(s, Len(s)) = Take(t, Len(s))
      BY <1>3, <2>3 DEF IsPrefix
    <2>5. (\A i \in 1 .. Len(s) : s[i] = t[i]) => Take(s, Len(s)) = Take(t, Len(s))
      BY <2>1, <2>2, SeqEqual
    <2> QED BY <1>3, <2>1, <2>2, <2>4, <2>5
  <1> QED BY <1>2, <1>3

\* The CHOOSE of a least number has an answer.
LEMMA LeastNumber ==
  ASSUME NEW S, S \subseteq Nat, S # {}
  PROVE  \E j \in S : \A k \in S : j <= k
  <1> DEFINE R == {ss \in Nat \X Nat : ss[1] < ss[2]}
  <1>1. IsWellFoundedOn(R, Nat)
    BY NatLessThanWellFounded DEF OpToRel
  <1>2. PICK j \in S : \A k \in S : ~(<<k, j>> \in R)
    BY <1>1, WFMin
  <1>3. \A k \in S : k \in Nat /\ j \in Nat /\ <<k, j>> \in Nat \X Nat
    OBVIOUS
  <1>4. \A k \in S : ~(k < j)
    BY <1>2, <1>3
  <1> QED BY <1>3, <1>4

\* The form in which the provers can use the next lemma for sequences of sequences.
AppendsLast(s, t, x) == Append(s \o t, x) = s \o Append(t, x)

LEMMA AppendLast ==
  ASSUME NEW S, NEW s \in Seq(S), NEW t \in Seq(S), NEW x \in S
  PROVE  AppendsLast(s, t, x)
  <1> DEFINE u == Append(s \o t, x)
             v == s \o Append(t, x)
             n == Len(s) + Len(t)
  <1>1. Len(s) \in Nat /\ Len(t) \in Nat /\ n \in Nat
    BY LenProperties
  <1>2. /\ s \o t \in Seq(S) /\ Len(s \o t) = n
        /\ \A i \in 1 .. n : (s \o t)[i] = IF i <= Len(s) THEN s[i] ELSE t[i - Len(s)]
    BY ConcatProperties
  <1>3. /\ u \in Seq(S) /\ Len(u) = n + 1 /\ u[n + 1] = x
        /\ \A i \in 1 .. n : u[i] = (s \o t)[i]
    BY <1>2, AppendProperties
  <1>4. /\ Append(t, x) \in Seq(S) /\ Len(Append(t, x)) = Len(t) + 1
        /\ Append(t, x)[Len(t) + 1] = x
        /\ \A i \in 1 .. Len(t) : Append(t, x)[i] = t[i]
    BY AppendProperties
  <1>5. /\ v \in Seq(S) /\ Len(v) = Len(s) + (Len(t) + 1)
        /\ \A i \in 1 .. Len(s) + (Len(t) + 1) :
              v[i] = IF i <= Len(s) THEN s[i] ELSE Append(t, x)[i - Len(s)]
    BY <1>4, ConcatProperties
  <1> HIDE DEF u, v
  <1>6. ASSUME NEW i \in 1 .. n + 1 PROVE u[i] = v[i]
    <2>1. CASE i <= Len(s)
      <3>1. i \in 1 .. n /\ i \in 1 .. Len(s) + (Len(t) + 1)
        BY <1>1, <2>1
      <3> QED BY <1>2, <1>3, <1>5, <2>1, <3>1
    <2>2. CASE ~(i <= Len(s)) /\ i <= n
      <3>1. i \in 1 .. n /\ i \in 1 .. Len(s) + (Len(t) + 1) /\ i - Len(s) \in 1 .. Len(t)
        BY <1>1, <2>2
      <3>2. u[i] = t[i - Len(s)]
        BY <1>2, <1>3, <2>2, <3>1
      <3>3. v[i] = Append(t, x)[i - Len(s)]
        BY <1>5, <2>2, <3>1
      <3> QED BY <1>4, <3>1, <3>2, <3>3
    <2>3. CASE i = n + 1
      <3>1. i \in 1 .. Len(s) + (Len(t) + 1) /\ ~(i <= Len(s)) /\ i - Len(s) = Len(t) + 1
        BY <1>1, <2>3
      <3> QED BY <1>3, <1>4, <1>5, <2>3, <3>1
    <2> QED BY <1>1, <2>1, <2>2, <2>3
  <1>7. Len(u) = Len(v)
    BY <1>1, <1>3, <1>5
  <1> QED BY <1>3, <1>5, <1>6, <1>7, SeqEqual DEF u, v, AppendsLast

-----------------------------------------------------------------------------
(* The order of names and keys *)

LEMMA BeforeMeans ==
  ASSUME NEW s \in Seq(Nat), NEW t \in Seq(Nat)
  PROVE  Before(s, t) <=> \E i \in 1 .. Len(t) :
             /\ \A j \in 1 .. i - 1 : j <= Len(s) /\ s[j] = t[j]
             /\ i <= Len(s) => s[i] < t[i]
  <1>1. DOMAIN s = 1 .. Len(s) /\ DOMAIN t = 1 .. Len(t) /\ Len(s) \in Nat /\ Len(t) \in Nat
    BY LenProperties
  <1>2. \A i \in 1 .. Len(t) : /\ i \in DOMAIN s <=> i <= Len(s)
                               /\ \A j \in 1 .. i - 1 : j \in DOMAIN s <=> j <= Len(s)
    BY <1>1
  <1>3. Before(s, t) <=> \E i \in 1 .. Len(t) :
            /\ \A j \in 1 .. i - 1 : j \in DOMAIN s /\ s[j] = t[j]
            /\ i \in DOMAIN s => s[i] < t[i]
    BY <1>1 DEF Before
  <1> QED BY <1>2, <1>3

LEMMA BeforeSelf ==
  ASSUME NEW s \in Seq(Nat)
  PROVE  ~Before(s, s)
  <1>1. Len(s) \in Nat /\ \A i \in 1 .. Len(s) : s[i] \in Nat
    BY LenProperties, ElementOfSeq
  <1>2. ASSUME NEW i \in 1 .. Len(s) PROVE i <= Len(s) /\ ~(s[i] < s[i])
    <2>1. s[i] \in Nat /\ i <= Len(s)
      BY <1>1
    <2> QED BY <2>1
  <1>3. DOMAIN s = 1 .. Len(s)
    BY LenProperties
  <1> QED BY <1>2, <1>3 DEF Before

LEMMA BeforeTransitive ==
  ASSUME NEW s \in Seq(Nat), NEW t \in Seq(Nat), NEW u \in Seq(Nat), Before(s, t), Before(t, u)
  PROVE  Before(s, u)
  <1>1. /\ Len(s) \in Nat /\ Len(t) \in Nat /\ Len(u) \in Nat
        /\ \A i \in 1 .. Len(s) : s[i] \in Nat
        /\ \A i \in 1 .. Len(t) : t[i] \in Nat
        /\ \A i \in 1 .. Len(u) : u[i] \in Nat
    BY LenProperties, ElementOfSeq
  <1>2. PICK i \in 1 .. Len(t) : /\ \A j \in 1 .. i - 1 : j <= Len(s) /\ s[j] = t[j]
                                 /\ i <= Len(s) => s[i] < t[i]
    BY BeforeMeans
  <1>3. PICK l \in 1 .. Len(u) : /\ \A j \in 1 .. l - 1 : j <= Len(t) /\ t[j] = u[j]
                                 /\ l <= Len(t) => t[l] < u[l]
    BY BeforeMeans
  <1>4. CASE i < l
    <2>1. i \in 1 .. Len(u) /\ t[i] = u[i] /\ \A j \in 1 .. i - 1 : j \in 1 .. l - 1
      BY <1>1, <1>3, <1>4
    <2>2. /\ \A j \in 1 .. i - 1 : j <= Len(s) /\ s[j] = u[j]
          /\ i <= Len(s) => s[i] < u[i]
      BY <1>2, <1>3, <2>1
    <2> QED BY <2>1, <2>2, BeforeMeans
  <1>5. CASE i >= l
    <2>1. l <= Len(t) /\ \A j \in 1 .. l - 1 : j \in 1 .. i - 1
      BY <1>1, <1>5
    <2>2. \A j \in 1 .. l - 1 : j <= Len(s) /\ s[j] = u[j]
      BY <1>2, <1>3, <2>1
    <2>3. l <= Len(s) => s[l] < u[l]
      <3>1. CASE l = i
        BY <1>1, <1>2, <1>3, <2>1, <3>1
      <3>2. CASE l < i
        <4>1. l \in 1 .. i - 1
          BY <1>1, <3>2
        <4> QED BY <1>1, <1>2, <1>3, <2>1, <4>1
      <3> QED BY <1>5, <3>1, <3>2
    <2> QED BY <2>2, <2>3, BeforeMeans
  <1> QED BY <1>4, <1>5

LEMMA BeforeTotal ==
  ASSUME NEW s \in Seq(Nat), NEW t \in Seq(Nat), s # t
  PROVE  Before(s, t) \/ Before(t, s)
  <1>1. /\ Len(s) \in Nat /\ Len(t) \in Nat
        /\ \A i \in 1 .. Len(s) : s[i] \in Nat
        /\ \A i \in 1 .. Len(t) : t[i] \in Nat
    BY LenProperties, ElementOfSeq
  <1> DEFINE D == {i \in Nat \ {0} : i <= Len(s) /\ i <= Len(t) /\ s[i] # t[i]}
  <1>2. CASE D = {}
    <2>1. \A i \in 1 .. Len(s) : i <= Len(t) => s[i] = t[i]
      BY <1>1, <1>2
    <2>2. CASE Len(s) = Len(t)
      BY <1>1, <2>1, <2>2, SeqEqual
    <2>3. CASE Len(s) < Len(t)
      <3> DEFINE i == Len(s) + 1
      <3>1. i \in 1 .. Len(t) /\ ~(i <= Len(s)) /\ \A j \in 1 .. i - 1 : j <= Len(s) /\ s[j] = t[j]
        BY <1>1, <2>1, <2>3
      <3> QED BY <3>1, BeforeMeans
    <2>4. CASE Len(t) < Len(s)
      <3> DEFINE i == Len(t) + 1
      <3>1. i \in 1 .. Len(s) /\ ~(i <= Len(t)) /\ \A j \in 1 .. i - 1 : j <= Len(t) /\ t[j] = s[j]
        BY <1>1, <2>1, <2>4
      <3> QED BY <3>1, BeforeMeans
    <2> QED BY <1>1, <2>2, <2>3, <2>4
  <1>3. CASE D # {}
    <2>1. PICK i \in D : \A j \in D : i <= j
      BY <1>3, LeastNumber
    <2>2. \A j \in 1 .. i - 1 : j <= Len(s) /\ j <= Len(t) /\ s[j] = t[j]
      <3> SUFFICES ASSUME NEW j \in 1 .. i - 1 PROVE j <= Len(s) /\ j <= Len(t) /\ s[j] = t[j]
        OBVIOUS
      <3>1. j \in Nat \ {0} /\ j < i /\ j <= Len(s) /\ j <= Len(t)
        BY <1>1, <2>1
      <3>2. j \notin D
        BY <2>1, <3>1
      <3> QED BY <3>1, <3>2
    <2>3. i \in 1 .. Len(s) /\ i \in 1 .. Len(t) /\ s[i] # t[i] /\ s[i] \in Nat /\ t[i] \in Nat
      BY <1>1, <2>1
    <2>4. CASE s[i] < t[i]
      BY <2>2, <2>3, <2>4, BeforeMeans
    <2>5. CASE t[i] < s[i]
      BY <2>2, <2>3, <2>5, BeforeMeans
    <2> QED BY <2>3, <2>4, <2>5
  <1> QED BY <1>2, <1>3

\* A position behind the first p.
LEMMA Offset ==
  ASSUME NEW p \in Nat, NEW j \in Nat, j > p
  PROVE  \E d \in Nat : j = p + d /\ d >= 1
  <1>1. j - p \in Nat /\ j = p + (j - p) /\ j - p >= 1
    OBVIOUS
  <1> QED BY <1>1

-----------------------------------------------------------------------------
(* Nodes and their entries *)

\* The lengths that a path of whole chunks can have.
Mult(n) == \E i \in 0 .. n : n = ChunkSize * i

LEMMA Sizes == ChunkSize \in Nat /\ ChunkSize >= 1 /\ NodePage \in Nat /\ NodePage >= 1
               /\ Limit \in Nat
  BY ListingAssumption

\* No two node depths are less than a chunk apart.
LEMMA Multiples ==
  /\ Mult(0)
  /\ \A n \in Nat : Mult(n) => Mult(n + ChunkSize)
  /\ \A m, n \in Nat : Mult(m) /\ Mult(n) /\ m < n => m + ChunkSize <= n
  <1>1. Mult(0)
    BY Sizes DEF Mult
  <1>2. ASSUME NEW n \in Nat, Mult(n) PROVE Mult(n + ChunkSize)
    <2>1. PICK i \in 0 .. n : n = ChunkSize * i
      BY <1>2 DEF Mult
    <2>2. i \in Nat /\ i <= n /\ ChunkSize * (i + 1) = ChunkSize * i + ChunkSize
      BY Sizes, <2>1
    <2>3. i + 1 \in 0 .. n + ChunkSize
      BY Sizes, <2>2
    <2> QED BY <2>1, <2>2, <2>3 DEF Mult
  <1>3. ASSUME NEW m \in Nat, NEW n \in Nat, Mult(m), Mult(n), m < n PROVE m + ChunkSize <= n
    <2>1. PICK i \in 0 .. m : m = ChunkSize * i
      BY <1>3 DEF Mult
    <2>2. PICK j \in 0 .. n : n = ChunkSize * j
      BY <1>3 DEF Mult
    <2>3. i \in Nat /\ j \in Nat
      BY <2>1, <2>2
    <2>4. i < j
      <3> SUFFICES ASSUME j <= i PROVE FALSE
        BY <2>3
      <3>1. ChunkSize * j <= ChunkSize * i
        BY Sizes, <2>3
      <3> QED BY <1>3, <2>1, <2>2, <3>1
    <2>5. ChunkSize * (i + 1) <= ChunkSize * j
      BY Sizes, <2>3, <2>4
    <2>6. ChunkSize * (i + 1) = ChunkSize * i + ChunkSize
      BY Sizes, <2>3
    <2> QED BY <2>1, <2>2, <2>5, <2>6
  <1> QED BY <1>1, <1>2, <1>3

LEMMA Chunks ==
  ASSUME NEW l \in Nat, l > 0
  PROVE  LET q == (l - 1) \div ChunkSize
         IN  /\ q \in Nat
             /\ ChunkSize * q \in Nat /\ Mult(ChunkSize * q)
             /\ ChunkSize * q < l /\ l <= ChunkSize * q + ChunkSize
  <1> DEFINE q == (l - 1) \div ChunkSize
  <1>1. l - 1 \in Nat
    OBVIOUS
  <1>2. q \in Nat /\ ChunkSize * q <= l - 1 /\ l - 1 < ChunkSize * (q + 1)
    BY Sizes, <1>1
  <1> HIDE DEF q
  <1>3. ChunkSize * (q + 1) = ChunkSize * q + ChunkSize /\ ChunkSize * q \in Nat
    BY Sizes, <1>2
  <1>4. q <= ChunkSize * q
    BY Sizes, <1>2
  <1>5. Mult(ChunkSize * q)
    BY <1>2, <1>3, <1>4 DEF Mult
  <1>6. ChunkSize * q < l /\ l <= ChunkSize * q + ChunkSize
    BY Sizes, <1>2, <1>3
  <1> QED BY <1>2, <1>3, <1>5, <1>6 DEF q

LEMMA KeyFacts ==
  ASSUME NEW k \in Keys
  PROVE  /\ k \in Seq(Nat) /\ Len(k) \in Nat /\ Len(k) > 0
         /\ \A i \in 1 .. Len(k) : k[i] \in Nat /\ k[i] >= 2
  <1>1. k \in Seq(Nat) /\ Len(k) > 0 /\ \A i \in DOMAIN k : k[i] >= 2
    BY KeysAssumption
  <1>2. DOMAIN k = 1 .. Len(k) /\ Len(k) \in Nat /\ \A i \in 1 .. Len(k) : k[i] \in Nat
    BY <1>1, LenProperties, ElementOfSeq
  <1> QED BY <1>1, <1>2

\* A first part of a sequence, with no more of it.
Starts(p, s) == /\ p \in Seq(Nat) /\ Len(p) <= Len(s)
                /\ \A i \in 1 .. Len(p) : p[i] = s[i]

LEMMA TakeStarts ==
  ASSUME NEW s \in Seq(Nat), NEW n \in Nat, n <= Len(s)
  PROVE  Starts(Take(s, n), s) /\ Len(Take(s, n)) = n
  <1>1. Len(s) \in Nat
    BY LenProperties
  <1>2. /\ Take(s, n) \in Seq(Nat)
        /\ Len(Take(s, n)) = IF n < Len(s) THEN n ELSE Len(s)
        /\ \A i \in 1 .. Len(Take(s, n)) : Take(s, n)[i] = s[i]
    BY TakeProperties
  <1> QED BY <1>1, <1>2 DEF Starts

LEMMA StartsSame ==
  ASSUME NEW s, NEW p, NEW q, Starts(p, s), Starts(q, s), Len(p) = Len(q)
  PROVE  p = q
  <1>1. p \in Seq(Nat) /\ q \in Seq(Nat) /\ \A i \in 1 .. Len(p) : p[i] = q[i]
    BY DEF Starts
  <1> QED BY <1>1, SeqEqual

LEMMA NodeOfIs ==
  ASSUME NEW s \in Seq(Nat), Len(s) > 0
  PROVE  /\ Starts(NodeOf(s), s) /\ Mult(Len(NodeOf(s)))
         /\ Len(NodeOf(s)) < Len(s) /\ Len(s) <= Len(NodeOf(s)) + ChunkSize
         /\ \A p : Starts(p, s) /\ Mult(Len(p)) /\ Len(p) < Len(s)
                     /\ Len(s) <= Len(p) + ChunkSize => p = NodeOf(s)
  <1> DEFINE n == ChunkSize * ((Len(s) - 1) \div ChunkSize)
  <1>1. Len(s) \in Nat
    BY LenProperties
  <1>2. n \in Nat /\ Mult(n) /\ n < Len(s) /\ Len(s) <= n + ChunkSize
    BY <1>1, Chunks
  <1>3. NodeOf(s) = Take(s, n)
    BY DEF NodeOf
  <1> HIDE DEF n
  <1>4. Starts(NodeOf(s), s) /\ Len(NodeOf(s)) = n
    BY <1>1, <1>2, <1>3, TakeStarts
  <1>5. ASSUME NEW p, Starts(p, s), Mult(Len(p)), Len(p) < Len(s), Len(s) <= Len(p) + ChunkSize
        PROVE  p = NodeOf(s)
    <2>1. Len(p) \in Nat
      BY <1>5, LenProperties DEF Starts
    <2>2. /\ Len(p) < n => Len(p) + ChunkSize <= n
          /\ n < Len(p) => n + ChunkSize <= Len(p)
      BY <1>2, <1>5, <2>1, Multiples
    <2>3. ~(Len(p) < n) /\ ~(n < Len(p))
      BY <1>1, <1>2, <1>5, <2>1, <2>2, Sizes
    <2>4. Len(p) = n
      BY <1>2, <2>1, <2>3
    <2> QED BY <1>4, <1>5, <2>4, StartsSame
  <1>6. \A p : Starts(p, s) /\ Mult(Len(p)) /\ Len(p) < Len(s) /\ Len(s) <= Len(p) + ChunkSize
              => p = NodeOf(s)
    BY <1>5
  <1>7. Mult(Len(NodeOf(s))) /\ Len(NodeOf(s)) < Len(s) /\ Len(s) <= Len(NodeOf(s)) + ChunkSize
    BY <1>2, <1>4
  <1> QED BY <1>4, <1>6, <1>7

LEMMA TrailMeans ==
  ASSUME NEW k \in Keys, NEW b
  PROVE  b \in Trail(k) <=> Starts(b, k) /\ Mult(Len(b)) /\ 0 < Len(b) /\ Len(b) < Len(k)
  <1> DEFINE q == (Len(k) - 1) \div ChunkSize
  <1>1. k \in Seq(Nat) /\ Len(k) \in Nat /\ Len(k) > 0
    BY KeyFacts
  <1>2. q \in Nat /\ ChunkSize * q < Len(k) /\ Len(k) <= ChunkSize * q + ChunkSize
    BY <1>1, Chunks
  <1>3. Trail(k) = {Take(k, ChunkSize * i) : i \in 1 .. q}
    BY DEF Trail
  <1> HIDE DEF q
  <1>4. ASSUME NEW i \in 1 .. q, b = Take(k, ChunkSize * i)
        PROVE  Starts(b, k) /\ Mult(Len(b)) /\ 0 < Len(b) /\ Len(b) < Len(k)
    <2>1. i \in Nat /\ i >= 1 /\ i <= q
      BY <1>2
    <2>2. ChunkSize * i <= ChunkSize * q /\ ChunkSize * i \in Nat /\ i <= ChunkSize * i
      BY <1>2, <2>1, Sizes
    <2>3. ChunkSize * i < Len(k)
      BY <1>1, <1>2, <2>2, Sizes
    <2>4. Starts(b, k) /\ Len(b) = ChunkSize * i
      BY <1>1, <1>4, <2>2, <2>3, TakeStarts
    <2>5. Mult(ChunkSize * i)
      BY <2>1, <2>2 DEF Mult
    <2> QED BY <2>1, <2>2, <2>3, <2>4, <2>5
  <1>5. ASSUME Starts(b, k), Mult(Len(b)), 0 < Len(b), Len(b) < Len(k)
        PROVE  \E i \in 1 .. q : b = Take(k, ChunkSize * i)
    <2>1. Len(b) \in Nat
      BY <1>5, LenProperties DEF Starts
    <2>2. PICK i \in 0 .. Len(b) : Len(b) = ChunkSize * i
      BY <1>5 DEF Mult
    <2>3. i \in Nat /\ i # 0
      BY <1>5, <2>1, <2>2, Sizes
    <2>4. i <= q
      <3> SUFFICES ASSUME i >= q + 1 PROVE FALSE
        BY <1>2, <2>3
      <3>1. ChunkSize * i >= ChunkSize * (q + 1)
        BY <1>2, <2>3, Sizes
      <3>2. ChunkSize * (q + 1) = ChunkSize * q + ChunkSize
        BY <1>2, Sizes
      <3>3. ChunkSize * i \in Int /\ ChunkSize * q \in Int /\ ChunkSize \in Int
        BY <1>2, <2>3, Sizes
      <3>4. Len(k) <= ChunkSize * i
        BY <1>1, <1>2, <3>1, <3>2, <3>3
      <3> QED BY <1>1, <1>5, <2>1, <2>2, <3>4
    <2>5. Starts(Take(k, ChunkSize * i), k) /\ Len(Take(k, ChunkSize * i)) = ChunkSize * i
      BY <1>1, <1>5, <2>1, <2>2, TakeStarts
    <2>6. b = Take(k, ChunkSize * i)
      BY <1>5, <2>2, <2>5, StartsSame
    <2> QED BY <2>3, <2>4, <2>6
  <1>6. (\E i \in 1 .. q : b = Take(k, ChunkSize * i))
          => Starts(b, k) /\ Mult(Len(b)) /\ 0 < Len(b) /\ Len(b) < Len(k)
    BY <1>4
  <1>7. Starts(b, k) /\ Mult(Len(b)) /\ 0 < Len(b) /\ Len(b) < Len(k)
          => \E i \in 1 .. q : b = Take(k, ChunkSize * i)
    BY <1>5
  <1> QED BY <1>3, <1>6, <1>7

\* The node with path P is on the way to the leaf of a key, and its entry there.
Under(P, k) == Starts(P, k) /\ Mult(Len(P)) /\ Len(P) < Len(k)

EntryOf(P, k) == IF Len(k) <= Len(P) + ChunkSize
                 THEN Entry(P, k, Terminal)
                 ELSE Entry(P, Take(k, Len(P) + ChunkSize), Branch)

\* All that the keys can put in a node.
EntriesAt(P) == {EntryOf(P, k) : k \in {x \in Keys : Under(P, x)}}

LEMMA EntryShape ==
  ASSUME NEW k \in Keys, NEW P, Under(P, k)
  PROVE  LET e == EntryOf(P, k)
             short == Len(k) <= Len(P) + ChunkSize
         IN  /\ e = [token |-> e.token, kind |-> e.kind]
             /\ e.token \in Seq(Nat) /\ Len(e.token) \in Nat /\ Len(e.token) >= 1
             /\ Len(e.token) = IF short THEN Len(k) - Len(P) ELSE ChunkSize
             /\ e.kind = IF short THEN Terminal ELSE Branch
             /\ \A i \in 1 .. Len(e.token) : e.token[i] = k[Len(P) + i]
  <1>1. /\ k \in Seq(Nat) /\ Len(k) \in Nat /\ P \in Seq(Nat) /\ Len(P) \in Nat /\ Len(P) < Len(k)
    BY KeyFacts, LenProperties DEF Under, Starts
  <1>2. CASE Len(k) <= Len(P) + ChunkSize
    <2>1. EntryOf(P, k) = [token |-> Drop(k, Len(P)), kind |-> Terminal]
      BY <1>2 DEF EntryOf, Entry
    <2>2. /\ Drop(k, Len(P)) \in Seq(Nat)
          /\ Len(Drop(k, Len(P))) = IF Len(P) < Len(k) THEN Len(k) - Len(P) ELSE 0
          /\ \A i \in 1 .. Len(Drop(k, Len(P))) : Drop(k, Len(P))[i] = k[Len(P) + i]
      BY <1>1, DropProperties
    <2>3. EntryOf(P, k).token = Drop(k, Len(P)) /\ EntryOf(P, k).kind = Terminal
      BY <2>1
    <2>4. Len(Drop(k, Len(P))) = Len(k) - Len(P) /\ Len(k) - Len(P) \in Nat
          /\ Len(k) - Len(P) >= 1
      BY <1>1, <2>2
    <2> QED BY <1>2, <2>1, <2>2, <2>3, <2>4
  <1>3. CASE ~(Len(k) <= Len(P) + ChunkSize)
    <2> DEFINE b == Take(k, Len(P) + ChunkSize)
    <2>1. EntryOf(P, k) = [token |-> Drop(b, Len(P)), kind |-> Branch]
      BY <1>3 DEF EntryOf, Entry
    <2>2. Starts(b, k) /\ Len(b) = Len(P) + ChunkSize
      BY <1>1, <1>3, Sizes, TakeStarts
    <2> HIDE DEF b
    <2>3. b \in Seq(Nat) /\ \A i \in 1 .. Len(b) : b[i] = k[i]
      BY <2>2 DEF Starts
    <2>4. /\ Drop(b, Len(P)) \in Seq(Nat)
          /\ Len(Drop(b, Len(P))) = IF Len(P) < Len(b) THEN Len(b) - Len(P) ELSE 0
          /\ \A i \in 1 .. Len(Drop(b, Len(P))) : Drop(b, Len(P))[i] = b[Len(P) + i]
      BY <1>1, <2>3, DropProperties
    <2>5. Len(Drop(b, Len(P))) = ChunkSize
      BY <1>1, <2>2, <2>4, Sizes
    <2>6. \A i \in 1 .. ChunkSize : Drop(b, Len(P))[i] = k[Len(P) + i]
      <3> SUFFICES ASSUME NEW i \in 1 .. ChunkSize PROVE Drop(b, Len(P))[i] = k[Len(P) + i]
        OBVIOUS
      <3>1. Len(P) + i \in 1 .. Len(b)
        BY <1>1, <2>2, Sizes
      <3> QED BY <2>3, <2>4, <2>5, <3>1
    <2>7. EntryOf(P, k).token = Drop(b, Len(P)) /\ EntryOf(P, k).kind = Branch
      BY <2>1
    <2> QED BY <1>3, <2>1, <2>4, <2>5, <2>6, <2>7, Sizes
  <1> QED BY <1>2, <1>3

\* What the names of entries sort by.
LEMMA NameShape ==
  ASSUME NEW k \in Keys, NEW P, Under(P, k)
  PROVE  LET e == EntryOf(P, k)
         IN  /\ Name(e) \in Seq(Nat)
             /\ Len(Name(e)) = Len(e.token) + 1
             /\ \A i \in 1 .. Len(e.token) : Name(e)[i] = k[Len(P) + i] /\ Name(e)[i] \in Nat
                                                                       /\ Name(e)[i] >= 2
             /\ Name(e)[Len(e.token) + 1] = e.kind
             /\ e.kind \in {0, 1}
  <1> DEFINE e == EntryOf(P, k)
  <1>1. /\ e.token \in Seq(Nat) /\ Len(e.token) \in Nat
        /\ Len(e.token) = IF Len(k) <= Len(P) + ChunkSize THEN Len(k) - Len(P) ELSE ChunkSize
        /\ e.kind \in {0, 1}
        /\ \A i \in 1 .. Len(e.token) : e.token[i] = k[Len(P) + i]
    BY EntryShape DEF Terminal, Branch
  <1> HIDE DEF e
  <1>2. /\ Append(e.token, e.kind) \in Seq(Nat)
        /\ Len(Append(e.token, e.kind)) = Len(e.token) + 1
        /\ \A i \in 1 .. Len(e.token) : Append(e.token, e.kind)[i] = e.token[i]
        /\ Append(e.token, e.kind)[Len(e.token) + 1] = e.kind
    <2>1. e.kind \in Nat
      BY <1>1
    <2> QED BY <1>1, <2>1, AppendProperties
  <1>3. /\ Len(k) \in Nat /\ Len(P) \in Nat /\ Len(P) < Len(k)
        /\ \A i \in 1 .. Len(k) : k[i] \in Nat /\ k[i] >= 2
    BY KeyFacts, LenProperties DEF Under, Starts
  <1>4. Len(P) + Len(e.token) <= Len(k)
    BY <1>1, <1>3, Sizes
  <1>5. \A i \in 1 .. Len(e.token) : k[Len(P) + i] \in Nat /\ k[Len(P) + i] >= 2
    <2> SUFFICES ASSUME NEW i \in 1 .. Len(e.token) PROVE Len(P) + i \in 1 .. Len(k)
      BY <1>3
    <2> QED BY <1>1, <1>3, <1>4
  <1>6. Name(e) = Append(e.token, e.kind)
    BY DEF Name
  <1> QED BY <1>1, <1>2, <1>5, <1>6 DEF e

\* Of a key under a path of p bytes, the name M in that node has the next a bytes and says
\* by x whether that is all of it.
Named(k, p, a, x, M) ==
    /\ a \in Nat /\ a >= 1 /\ p + a <= Len(k)
    /\ x \in {0, 1} /\ (x = 0 => Len(k) = p + a) /\ (x = 1 => a = ChunkSize /\ Len(k) > p + a)
    /\ M \in Seq(Nat) /\ Len(M) = a + 1 /\ M[a + 1] = x
    /\ \A i \in 1 .. a : M[i] = k[p + i]
    /\ \A i \in 1 .. a : M[i] \in Nat /\ M[i] >= 2

LEMMA EntryNamed ==
  ASSUME NEW k \in Keys, NEW P, Under(P, k)
  PROVE  LET e == EntryOf(P, k)
         IN  Named(k, Len(P), Len(e.token), e.kind, Name(e)) /\ Len(e.token) <= ChunkSize
  <1> DEFINE e == EntryOf(P, k)
  <1>1. Len(k) \in Nat /\ Len(P) \in Nat /\ Len(P) < Len(k)
    BY KeyFacts, LenProperties DEF Under, Starts
  <1>2. /\ Len(e.token) \in Nat /\ Len(e.token) >= 1
        /\ Len(e.token) = IF Len(k) <= Len(P) + ChunkSize THEN Len(k) - Len(P) ELSE ChunkSize
        /\ e.kind = IF Len(k) <= Len(P) + ChunkSize THEN 0 ELSE 1
    BY EntryShape DEF Terminal, Branch
  <1>3. /\ Name(e) \in Seq(Nat) /\ Len(Name(e)) = Len(e.token) + 1
        /\ Name(e)[Len(e.token) + 1] = e.kind
        /\ \A i \in 1 .. Len(e.token) : /\ Name(e)[i] = k[Len(P) + i]
                                       /\ Name(e)[i] \in Nat /\ Name(e)[i] >= 2
    BY NameShape
  <1> HIDE DEF e
  <1>4. /\ Len(e.token) <= ChunkSize /\ Len(P) + Len(e.token) <= Len(k) /\ e.kind \in {0, 1}
        /\ e.kind = 0 => Len(k) = Len(P) + Len(e.token)
    BY <1>1, <1>2, Sizes
  <1>5. e.kind = 1 => Len(e.token) = ChunkSize /\ Len(k) > Len(P) + Len(e.token)
    BY <1>1, <1>2, Sizes
  <1> QED BY <1>2, <1>3, <1>4, <1>5 DEF Named, e

\* Where two names in a node differ, the keys do.
LEMMA NameOrder ==
  ASSUME NEW k \in Seq(Nat), NEW l \in Seq(Nat), NEW p \in Nat, NEW a, NEW b, NEW M, NEW N,
         NEW x, NEW y, Named(k, p, a, x, M), Named(l, p, b, y, N), a <= ChunkSize, b <= ChunkSize,
         \A i \in 1 .. p : k[i] = l[i], Before(M, N)
  PROVE  Before(k, l)
  <1>1. /\ Len(k) \in Nat /\ Len(l) \in Nat /\ a \in Nat /\ b \in Nat /\ a >= 1 /\ b >= 1
        /\ p + a <= Len(k) /\ p + b <= Len(l) /\ ChunkSize \in Nat
    BY LenProperties, Sizes DEF Named
  <1>2. /\ M \in Seq(Nat) /\ Len(M) = a + 1 /\ M[a + 1] = x
        /\ N \in Seq(Nat) /\ Len(N) = b + 1 /\ N[b + 1] = y
    BY DEF Named
  <1>3. /\ \A i \in 1 .. a : M[i] = k[p + i]
        /\ \A i \in 1 .. b : N[i] = l[p + i]
    BY DEF Named
  <1>4. /\ \A i \in 1 .. a : M[i] \in Nat /\ M[i] >= 2
        /\ \A i \in 1 .. b : N[i] \in Nat /\ N[i] >= 2
    BY DEF Named
  <1>5. /\ x \in {0, 1} /\ y \in {0, 1} /\ (x = 0 => Len(k) = p + a)
        /\ (y = 1 => b = ChunkSize /\ Len(l) > p + b) /\ (x = 1 => a = ChunkSize)
    BY DEF Named
  <1>16. PICK i \in 1 .. Len(N) :
            /\ \A j \in 1 .. i - 1 : j <= Len(M) /\ M[j] = N[j]
            /\ i <= Len(M) => M[i] < N[i]
    <2>1. M \in Seq(Nat) /\ N \in Seq(Nat)
      BY <1>2
    <2> QED BY <2>1, BeforeMeans
  <1>6. /\ i \in 1 .. b + 1
        /\ \A j \in 1 .. i - 1 : j <= a + 1 /\ M[j] = N[j]
        /\ i <= a + 1 => M[i] < N[i]
    BY <1>2, <1>16
  <1>7. ~(i > a + 1)
    <2> SUFFICES ASSUME i > a + 1 PROVE FALSE
      OBVIOUS
    <2>1. a + 1 \in 1 .. i - 1 /\ a + 1 \in 1 .. b
      BY <1>1, <1>6
    <2>2. M[a + 1] = N[a + 1] /\ N[a + 1] >= 2
      BY <1>4, <1>6, <2>1
    <2> QED BY <1>2, <1>5, <2>2
  <1>8. i \in Nat /\ i >= 1 /\ M[i] < N[i]
    BY <1>1, <1>6, <1>7
  <1>9. \A j \in 1 .. i - 1 : j \in 1 .. a /\ j \in 1 .. b
    BY <1>1, <1>6, <1>7
  <1>10. \A j \in 1 .. i - 1 : k[p + j] = l[p + j]
    BY <1>3, <1>6, <1>9
  <1>11. \A j \in 1 .. (p + i) - 1 : j <= Len(k) /\ k[j] = l[j]
    <2> SUFFICES ASSUME NEW j \in 1 .. (p + i) - 1 PROVE j <= Len(k) /\ k[j] = l[j]
      OBVIOUS
    <2>1. CASE j <= p
      <3>1. j \in 1 .. p /\ j <= Len(k)
        BY <1>1, <2>1
      <3> QED BY <3>1
    <2>2. CASE j > p
      <3>1. PICK d \in 1 .. i - 1 : j = p + d
        <4>1. p \in Nat /\ i \in Nat /\ j \in Nat
          BY <1>1, <1>8
        <4>2. PICK d \in Nat : j = p + d /\ d >= 1
          BY <2>2, <4>1, Offset
        <4>3. d \in 1 .. i - 1
          BY <4>1, <4>2
        <4> QED BY <4>2, <4>3
      <3>4. k[p + d] = l[p + d]
        BY <1>10
      <3>5. d <= a
        <4>1. d \in 1 .. a
          BY <1>9
        <4> QED BY <1>1, <4>1
      <3>2. k[p + d] = l[p + d] /\ d <= a
        BY <3>4, <3>5
      <3>3. j <= Len(k)
        BY <1>1, <3>1, <3>2
      <3> QED BY <3>1, <3>2, <3>3
    <2> QED BY <2>1, <2>2
  <1>12. CASE i <= a /\ i <= b
    <2>1. i \in 1 .. a /\ i \in 1 .. b /\ p + i \in 1 .. Len(l)
      BY <1>1, <1>8, <1>12
    <2>2. k[p + i] < l[p + i]
      BY <1>3, <1>8, <2>1
    <2> QED BY <1>11, <2>1, <2>2, BeforeMeans
  <1>13. CASE i = a + 1
    <2>1. x < N[i]
      BY <1>2, <1>8, <1>13
    <2>2. x = 0 \/ i <= b
      <3>1. CASE i = b + 1
        BY <1>2, <1>5, <2>1, <3>1
      <3>2. CASE i # b + 1
        BY <1>1, <1>6, <3>2
      <3> QED BY <3>1, <3>2
    <2>3. x = 0
      <3> SUFFICES ASSUME x = 1 PROVE FALSE
        BY <1>5
      <3>1. a = ChunkSize /\ i <= b
        BY <1>5, <2>2
      <3> QED BY <1>1, <1>13, <3>1
    <2>4. Len(k) = p + a
      BY <1>5, <2>3
    <2>5. p + a + 1 <= Len(l)
      <3>1. CASE i <= b
        BY <1>1, <1>13, <3>1
      <3>2. CASE i = b + 1
        <4>1. y = 1 /\ a = b
          BY <1>1, <1>2, <1>5, <1>13, <2>1, <2>3, <3>2
        <4>2. Len(l) > p + b
          BY <1>5, <4>1
        <4> QED BY <1>1, <4>1, <4>2
      <3> QED BY <1>1, <1>6, <3>1, <3>2
    <2>6. p + i \in 1 .. Len(l) /\ ~(p + i <= Len(k))
      BY <1>1, <1>13, <2>4, <2>5
    <2> QED BY <1>11, <2>6, BeforeMeans
  <1>14. CASE i = b + 1 /\ i <= a
    <2>1. i \in 1 .. a /\ N[i] = y
      BY <1>2, <1>8, <1>14
    <2>2. M[i] >= 2 /\ M[i] < y /\ M[i] \in Nat
      BY <1>4, <1>8, <2>1
    <2> QED BY <1>5, <2>2
  <1> QED BY <1>1, <1>6, <1>7, <1>12, <1>13, <1>14

\* The order of the entries of a node is that of the keys behind them.
LEMMA EntryOrder ==
  ASSUME NEW k \in Keys, NEW l \in Keys, NEW P, Under(P, k), Under(P, l),
         Before(Name(EntryOf(P, k)), Name(EntryOf(P, l)))
  PROVE  Before(k, l)
  <1>1. /\ k \in Seq(Nat) /\ l \in Seq(Nat) /\ Len(P) \in Nat
        /\ \A i \in 1 .. Len(P) : k[i] = l[i]
    BY KeyFacts, LenProperties DEF Under, Starts
  <1> DEFINE e == EntryOf(P, k)
             f == EntryOf(P, l)
  <1>2. /\ Named(k, Len(P), Len(e.token), e.kind, Name(e)) /\ Len(e.token) <= ChunkSize
        /\ Named(l, Len(P), Len(f.token), f.kind, Name(f)) /\ Len(f.token) <= ChunkSize
    BY EntryNamed
  <1>3. Before(Name(e), Name(f))
    OBVIOUS
  <1> HIDE DEF e, f
  <1> QED BY <1>1, <1>2, <1>3, NameOrder

\* The path behind an entry: a key, or the node on the way to one.
LEMMA EntryLeads ==
  ASSUME NEW k \in Keys, NEW P, Under(P, k)
  PROVE  LET e == EntryOf(P, k)
             Q == P \o e.token
         IN  /\ Starts(Q, k) /\ Q \in Seq(Nat) /\ Len(Q) = Len(P) + Len(e.token)
             /\ \A i \in 1 .. Len(P) : Q[i] = P[i]
             /\ e.kind = Terminal => Q = k
             /\ e.kind = Branch => Under(Q, k) /\ Len(Q) = Len(P) + ChunkSize
  <1> DEFINE e == EntryOf(P, k)
             Q == P \o e.token
  <1>1. /\ k \in Seq(Nat) /\ Len(k) \in Nat /\ P \in Seq(Nat) /\ Len(P) \in Nat /\ Len(P) < Len(k)
        /\ Mult(Len(P)) /\ \A i \in 1 .. Len(P) : P[i] = k[i]
    BY KeyFacts, LenProperties DEF Under, Starts
  <1>2. /\ e.token \in Seq(Nat) /\ Len(e.token) \in Nat /\ Len(e.token) >= 1
        /\ Len(e.token) = IF Len(k) <= Len(P) + ChunkSize THEN Len(k) - Len(P) ELSE ChunkSize
        /\ e.kind = IF Len(k) <= Len(P) + ChunkSize THEN Terminal ELSE Branch
        /\ \A i \in 1 .. Len(e.token) : e.token[i] = k[Len(P) + i]
    BY EntryShape
  <1> HIDE DEF e
  <1>3. /\ Q \in Seq(Nat) /\ Len(Q) = Len(P) + Len(e.token)
        /\ \A i \in 1 .. Len(P) + Len(e.token) :
              Q[i] = IF i <= Len(P) THEN P[i] ELSE e.token[i - Len(P)]
    <2>1. P \in Seq(Nat) /\ e.token \in Seq(Nat)
      BY <1>1, <1>2
    <2> QED BY <2>1, ConcatProperties
  <1> HIDE DEF Q
  <1>4. \A i \in 1 .. Len(P) : Q[i] = P[i]
    <2> SUFFICES ASSUME NEW i \in 1 .. Len(P) PROVE Q[i] = P[i]
      OBVIOUS
    <2>1. i \in 1 .. Len(P) + Len(e.token) /\ i <= Len(P)
      BY <1>1, <1>2
    <2> QED BY <1>3, <2>1
  <1>5. ASSUME NEW i \in 1 .. Len(Q) PROVE Q[i] = k[i]
    <2>1. CASE i <= Len(P)
      BY <1>1, <1>2, <1>3, <2>1
    <2>2. CASE ~(i <= Len(P))
      <3>1. PICK j \in 1 .. Len(e.token) : i = Len(P) + j /\ j = i - Len(P)
        <4>1. i \in Nat /\ i <= Len(P) + Len(e.token) /\ Len(P) \in Nat /\ Len(e.token) \in Nat
          BY <1>1, <1>2, <1>3
        <4>2. PICK d \in Nat : i = Len(P) + d /\ d >= 1
          BY <2>2, <4>1, Offset
        <4>3. d \in 1 .. Len(e.token) /\ d = i - Len(P)
          BY <4>1, <4>2
        <4> QED BY <4>2, <4>3
      <3>2. Q[i] = e.token[j]
        BY <1>3, <2>2, <3>1
      <3> QED BY <1>2, <3>1, <3>2
    <2> QED BY <2>1, <2>2
  <1>6. Len(Q) <= Len(k)
    BY <1>1, <1>2, <1>3, Sizes
  <1>7. Starts(Q, k)
    BY <1>3, <1>5, <1>6 DEF Starts
  <1>8. e.kind = Terminal => Q = k
    <2> SUFFICES ASSUME e.kind = Terminal PROVE Q = k
      OBVIOUS
    <2>1. Len(Q) = Len(k)
      BY <1>1, <1>2, <1>3 DEF Terminal, Branch
    <2>2. \A i \in 1 .. Len(Q) : Q[i] = k[i]
      BY <1>5
    <2> QED BY <1>1, <1>3, <2>1, <2>2, SeqEqual
  <1>9. e.kind = Branch => Under(Q, k) /\ Len(Q) = Len(P) + ChunkSize
    <2> SUFFICES ASSUME e.kind = Branch PROVE Under(Q, k) /\ Len(Q) = Len(P) + ChunkSize
      OBVIOUS
    <2>1. ~(Len(k) <= Len(P) + ChunkSize) /\ Len(e.token) = ChunkSize
      BY <1>2 DEF Terminal, Branch
    <2>2. Len(Q) = Len(P) + ChunkSize /\ Len(Q) < Len(k)
      BY <1>1, <1>3, <2>1, Sizes
    <2>3. Mult(Len(Q))
      BY <1>1, <2>2, Multiples
    <2> QED BY <1>7, <2>2, <2>3 DEF Under
  <1> QED BY <1>3, <1>4, <1>7, <1>8, <1>9 DEF e, Q

\* A branch entry stands for all keys below its path.
LEMMA BranchCovers ==
  ASSUME NEW k \in Keys, NEW l \in Keys, NEW P, Under(P, k), EntryOf(P, k).kind = Branch,
         Under(P \o EntryOf(P, k).token, l)
  PROVE  Under(P, l) /\ EntryOf(P, l) = EntryOf(P, k)
  <1> DEFINE Q == P \o EntryOf(P, k).token
  <1>1. /\ Starts(Q, k) /\ Q \in Seq(Nat) /\ Len(Q) = Len(P) + ChunkSize /\ Len(Q) < Len(k)
        /\ \A i \in 1 .. Len(P) : Q[i] = P[i]
    BY EntryLeads DEF Under
  <1>2. Starts(Q, l) /\ Len(Q) < Len(l)
    BY DEF Under
  <1> HIDE DEF Q
  <1>3. /\ P \in Seq(Nat) /\ Len(P) \in Nat /\ Mult(Len(P)) /\ k \in Seq(Nat) /\ l \in Seq(Nat)
        /\ Len(l) \in Nat /\ Len(k) \in Nat /\ Len(Q) \in Nat
    BY <1>1, KeyFacts, LenProperties DEF Under, Starts
  <1>4. Under(P, l)
    <2>1. \A i \in 1 .. Len(P) : i \in 1 .. Len(Q)
      BY <1>1, <1>3, Sizes
    <2>2. \A i \in 1 .. Len(P) : P[i] = l[i]
      BY <1>1, <1>2, <2>1 DEF Starts
    <2>3. Len(P) < Len(l)
      BY <1>1, <1>2, <1>3, Sizes
    <2> QED BY <1>3, <2>2, <2>3 DEF Under, Starts
  <1>5. /\ Starts(Take(k, Len(Q)), k) /\ Len(Take(k, Len(Q))) = Len(Q)
        /\ Starts(Take(l, Len(Q)), l) /\ Len(Take(l, Len(Q))) = Len(Q)
    <2>1. Len(Q) <= Len(k) /\ Len(Q) <= Len(l)
      BY <1>1, <1>2, <1>3
    <2> QED BY <1>3, <2>1, TakeStarts
  <1>6. Take(k, Len(Q)) = Q /\ Take(l, Len(Q)) = Q
    BY <1>1, <1>2, <1>5, StartsSame
  <1>7. EntryOf(P, k) = Entry(P, Q, Branch)
    BY <1>1, <1>3, <1>6, Sizes DEF EntryOf
  <1>8. EntryOf(P, l) = Entry(P, Q, Branch)
    BY <1>1, <1>2, <1>3, <1>6, Sizes DEF EntryOf
  <1> QED BY <1>4, <1>7, <1>8

LEMMA SameName ==
  ASSUME NEW k \in Keys, NEW l \in Keys, NEW P, Under(P, k), Under(P, l),
         Name(EntryOf(P, k)) = Name(EntryOf(P, l))
  PROVE  EntryOf(P, k) = EntryOf(P, l)
  <1> DEFINE e == EntryOf(P, k)
             f == EntryOf(P, l)
  <1>1. e = [token |-> e.token, kind |-> e.kind] /\ e.token \in Seq(Nat) /\ e.kind \in Nat
    <2>1. e = [token |-> e.token, kind |-> e.kind] /\ e.token \in Seq(Nat)
      BY EntryShape
    <2>2. e.kind \in {Terminal, Branch}
      BY EntryShape
    <2> QED BY <2>1, <2>2 DEF Terminal, Branch
  <1>2. f = [token |-> f.token, kind |-> f.kind] /\ f.token \in Seq(Nat) /\ f.kind \in Nat
    <2>1. f = [token |-> f.token, kind |-> f.kind] /\ f.token \in Seq(Nat)
      BY EntryShape
    <2>2. f.kind \in {Terminal, Branch}
      BY EntryShape
    <2> QED BY <2>1, <2>2 DEF Terminal, Branch
  <1>3. Append(e.token, e.kind) = Append(f.token, f.kind)
    BY DEF Name
  <1>4. e.token = f.token /\ e.kind = f.kind
    BY <1>1, <1>2, <1>3, AppendInjective
  <1> QED BY <1>1, <1>2, <1>4

\* Distinct keys have entries of different names, unless they share a branch.
LEMMA SameTerminal ==
  ASSUME NEW k \in Keys, NEW l \in Keys, NEW P, Under(P, k), Under(P, l),
         EntryOf(P, k) = EntryOf(P, l), EntryOf(P, k).kind = Terminal
  PROVE  k = l
  <1>1. P \o EntryOf(P, k).token = k
    BY EntryLeads
  <1>2. P \o EntryOf(P, l).token = l
    BY EntryLeads
  <1> QED BY <1>1, <1>2

-----------------------------------------------------------------------------
(* The index *)

\* What a branch entry needs to be there for: a key.
IndexShape == leaves \subseteq Keys /\ \A b \in branches : \E k \in Keys : b \in Trail(k)

LEMMA EntriesAreOfKeys ==
  ASSUME IndexShape, NEW P \in Seq(Nat), Mult(Len(P)), NEW e \in Entries(P)
  PROVE  e \in EntriesAt(P)
  <1>1. Len(P) \in Nat
    BY LenProperties
  <1>2. CASE \E k \in leaves : NodeOf(k) = P /\ e = Entry(P, k, Terminal)
    <2>1. PICK k \in leaves : NodeOf(k) = P /\ e = Entry(P, k, Terminal)
      BY <1>2
    <2>2. k \in Keys /\ k \in Seq(Nat) /\ Len(k) > 0
      BY <2>1, KeyFacts DEF IndexShape
    <2>3. Starts(P, k) /\ Len(P) < Len(k) /\ Len(k) <= Len(P) + ChunkSize
      BY <2>1, <2>2, NodeOfIs
    <2>4. Under(P, k) /\ e = EntryOf(P, k)
      BY <2>1, <2>3 DEF Under, EntryOf
    <2> QED BY <2>2, <2>4 DEF EntriesAt
  <1>3. CASE \E b \in branches : NodeOf(b) = P /\ e = Entry(P, b, Branch)
    <2>1. PICK b \in branches : NodeOf(b) = P /\ e = Entry(P, b, Branch)
      BY <1>3
    <2>2. PICK k \in Keys : b \in Trail(k)
      BY <2>1 DEF IndexShape
    <2>3. /\ Starts(b, k) /\ Mult(Len(b)) /\ 0 < Len(b) /\ Len(b) < Len(k)
          /\ b \in Seq(Nat) /\ Len(b) \in Nat /\ k \in Seq(Nat) /\ Len(k) \in Nat
      BY <2>2, TrailMeans, KeyFacts, LenProperties DEF Starts
    <2>4. Starts(P, b) /\ Len(P) < Len(b) /\ Len(b) <= Len(P) + ChunkSize
      BY <2>1, <2>3, NodeOfIs
    <2>5. Len(b) = Len(P) + ChunkSize
      BY <1>1, <2>3, <2>4, Multiples, Sizes
    <2>6. Starts(P, k)
      <3>1. \A i \in 1 .. Len(P) : i \in 1 .. Len(b)
        BY <1>1, <2>3, <2>4
      <3>2. Len(P) <= Len(k)
        BY <1>1, <2>3, <2>4
      <3> QED BY <2>3, <2>4, <3>1, <3>2 DEF Starts
    <2>7. Under(P, k)
      BY <1>1, <2>3, <2>4, <2>6 DEF Under
    <2>8. Starts(Take(k, Len(b)), k) /\ Len(Take(k, Len(b))) = Len(b)
      BY <2>3, TakeStarts
    <2>9. Take(k, Len(P) + ChunkSize) = b
      BY <2>3, <2>5, <2>8, StartsSame
    <2>10. e = EntryOf(P, k)
      BY <1>1, <2>1, <2>3, <2>5, <2>9, Sizes DEF EntryOf
    <2> QED BY <2>2, <2>7, <2>10 DEF EntriesAt
  <1> QED BY <1>2, <1>3 DEF Entries

\* A key with its leaf and its branches has an entry in every node on the way.
LEMMA EntryIsThere ==
  ASSUME NEW k \in Keys, k \in leaves, Trail(k) \subseteq branches, NEW P, Under(P, k)
  PROVE  EntryOf(P, k) \in Entries(P)
  <1>1. /\ k \in Seq(Nat) /\ Len(k) \in Nat /\ Len(k) > 0 /\ P \in Seq(Nat) /\ Len(P) \in Nat
        /\ Starts(P, k) /\ Mult(Len(P)) /\ Len(P) < Len(k)
    BY KeyFacts, LenProperties DEF Under, Starts
  <1>2. CASE Len(k) <= Len(P) + ChunkSize
    <2>1. P = NodeOf(k)
      BY <1>1, <1>2, NodeOfIs
    <2>2. EntryOf(P, k) = Entry(P, k, Terminal)
      BY <1>2 DEF EntryOf
    <2> QED BY <2>1, <2>2 DEF Entries
  <1>3. CASE ~(Len(k) <= Len(P) + ChunkSize)
    <2> DEFINE b == Take(k, Len(P) + ChunkSize)
    <2>1. Starts(b, k) /\ Len(b) = Len(P) + ChunkSize
      BY <1>1, <1>3, TakeStarts, Sizes
    <2>2. EntryOf(P, k) = Entry(P, b, Branch)
      BY <1>3 DEF EntryOf
    <2> HIDE DEF b
    <2>3. b \in Seq(Nat) /\ Len(b) \in Nat /\ 0 < Len(b) /\ Len(b) < Len(k) /\ Mult(Len(b))
      <3>1. b \in Seq(Nat)
        BY <2>1 DEF Starts
      <3>2. Len(b) \in Nat /\ 0 < Len(b) /\ Len(b) < Len(k)
        BY <1>1, <1>3, <2>1, Sizes
      <3>3. Mult(Len(P) + ChunkSize)
        BY <1>1, Multiples
      <3> QED BY <2>1, <3>1, <3>2, <3>3
    <2>4. b \in branches
      BY <2>1, <2>3, TrailMeans
    <2>5. Starts(P, b)
      <3>1. \A i \in 1 .. Len(P) : i \in 1 .. Len(b)
        BY <1>1, <2>1, Sizes
      <3>2. Len(P) <= Len(b)
        BY <1>1, <2>1, Sizes
      <3> QED BY <1>1, <2>1, <3>1, <3>2 DEF Starts
    <2>6. P = NodeOf(b)
      <3>1. Len(P) < Len(b) /\ Len(b) <= Len(P) + ChunkSize
        BY <1>1, <2>1, Sizes
      <3> QED BY <1>1, <2>3, <2>5, <3>1, NodeOfIs
    <2> QED BY <2>2, <2>4, <2>6 DEF Entries
  <1> QED BY <1>2, <1>3

-----------------------------------------------------------------------------
(* Entries in order *)

LEMMA KeysUnderFinite ==
  ASSUME NEW P
  PROVE  IsFiniteSet(EntriesAt(P))
  <1> DEFINE K == {x \in Keys : Under(P, x)}
             f == [k \in K |-> EntryOf(P, k)]
  <1>1. IsFiniteSet(K)
    <2>1. IsFiniteSet(Keys) /\ K \in SUBSET Keys
      BY KeysAssumption
    <2> QED BY <2>1, FS_Subset
  <1>2. f \in Surjection(K, EntriesAt(P))
    <2>1. EntriesAt(P) = {EntryOf(P, k) : k \in K}
      BY DEF EntriesAt
    <2>2. f \in [K -> EntriesAt(P)]
      BY <2>1
    <2>3. \A e \in EntriesAt(P) : \E k \in K : f[k] = e
      BY <2>1
    <2> QED BY <2>2, <2>3 DEF Surjection
  <1> QED BY <1>1, <1>2, FS_Surjection

\* What the order of a set of names needs, whatever they are names of.
Nameable(T) ==
    /\ IsFiniteSet(T)
    /\ \A e \in T : Name(e) \in Seq(Nat)
    /\ \A e, f \in T : Name(e) = Name(f) => e = f

LEMMA EntriesNameable ==
  ASSUME NEW P, NEW T, T \subseteq EntriesAt(P)
  PROVE  Nameable(T)
  <1>1. IsFiniteSet(T)
    BY KeysUnderFinite, FS_Subset
  <1>2. ASSUME NEW e \in T PROVE \E k \in Keys : Under(P, k) /\ e = EntryOf(P, k)
    BY DEF EntriesAt
  <1>3. ASSUME NEW e \in T PROVE Name(e) \in Seq(Nat)
    <2>1. PICK k \in Keys : Under(P, k) /\ e = EntryOf(P, k)
      BY <1>2
    <2> QED BY <2>1, NameShape
  <1>4. ASSUME NEW e \in T, NEW f \in T, Name(e) = Name(f) PROVE e = f
    <2>1. PICK k \in Keys : Under(P, k) /\ e = EntryOf(P, k)
      BY <1>2
    <2>2. PICK l \in Keys : Under(P, l) /\ f = EntryOf(P, l)
      BY <1>2
    <2> QED BY <1>4, <2>1, <2>2, SameName
  <1> QED BY <1>1, <1>3, <1>4 DEF Nameable

\* Entries in the order of their names, as a list call of KV gives them.
Sorted(s) == \A i, j \in DOMAIN s : i < j => Before(Name(s[i]), Name(s[j]))

\* A set of entries can be sorted: an entry's place is the number of those up to it.
LEMMA Sortable ==
  ASSUME NEW T, Nameable(T)
  PROVE  \E s \in [1 .. Cardinality(T) -> T] : Sorted(s)
  <1> DEFINE n == Cardinality(T)
             UpTo(e) == {f \in T : ~Before(Name(e), Name(f))}
             r == [e \in T |-> Cardinality(UpTo(e))]
  <1>1. IsFiniteSet(T) /\ n \in Nat
    BY FS_CardinalityType DEF Nameable
  <1>2. ASSUME NEW e \in T
        PROVE  /\ e \in UpTo(e) /\ IsFiniteSet(UpTo(e)) /\ Cardinality(UpTo(e)) \in 1 .. n
    <2>1. e \in UpTo(e)
      BY BeforeSelf DEF Nameable
    <2>2. UpTo(e) \in SUBSET T
      OBVIOUS
    <2> HIDE DEF UpTo
    <2>3. IsFiniteSet(UpTo(e)) /\ Cardinality(UpTo(e)) <= n
      BY <1>1, <2>2, FS_Subset
    <2>4. Cardinality(UpTo(e)) \in Nat /\ Cardinality(UpTo(e)) # 0
      BY <2>1, <2>3, FS_CardinalityType, FS_EmptySet
    <2> QED BY <1>1, <2>1, <2>3, <2>4
  <1>3. ASSUME NEW e \in T, NEW f \in T, Before(Name(e), Name(f)) PROVE r[e] < r[f]
    <2>1. UpTo(e) \subseteq UpTo(f)
      <3> SUFFICES ASSUME NEW g \in T, ~Before(Name(e), Name(g)), Before(Name(f), Name(g))
                   PROVE  FALSE
        OBVIOUS
      <3>1. Name(e) \in Seq(Nat) /\ Name(f) \in Seq(Nat) /\ Name(g) \in Seq(Nat)
        BY DEF Nameable
      <3> QED BY <1>3, <3>1, BeforeTransitive
    <2>2. f \notin UpTo(e) /\ f \in UpTo(f)
      BY <1>2, <1>3
    <2>3. /\ IsFiniteSet(UpTo(e)) /\ IsFiniteSet(UpTo(f))
          /\ Cardinality(UpTo(e)) \in Nat /\ Cardinality(UpTo(f)) \in Nat
      BY <1>1, <1>2
    <2> HIDE DEF UpTo
    <2>4. /\ Cardinality(UpTo(e)) <= Cardinality(UpTo(f))
          /\ Cardinality(UpTo(f)) = Cardinality(UpTo(e)) => UpTo(f) = UpTo(e)
      BY <2>1, <2>3, FS_Subset
    <2> QED BY <2>2, <2>3, <2>4
  <1>4. r \in [T -> 1 .. n]
    BY <1>2
  <1> HIDE DEF r, UpTo
  <1>5. ASSUME NEW e \in T, NEW f \in T, e # f
        PROVE  Before(Name(e), Name(f)) \/ Before(Name(f), Name(e))
    <2>1. Name(e) \in Seq(Nat) /\ Name(f) \in Seq(Nat) /\ Name(e) # Name(f)
      BY <1>5 DEF Nameable
    <2> QED BY <2>1, BeforeTotal
  <1>6. ASSUME NEW e \in T, NEW f \in T, r[e] = r[f] PROVE e = f
    <2>1. r[e] \in Nat /\ r[f] \in Nat
      BY <1>1, <1>4
    <2>2. r[e] = r[f]
      BY <1>6
    <2> QED BY <1>3, <1>5, <2>1, <2>2
  <1>7. r \in Injection(T, 1 .. n)
    BY <1>4, <1>6 DEF Injection, IsInjective
  <1>8. IsFiniteSet(1 .. n) /\ Cardinality(1 .. n) = n
    BY <1>1, FS_Interval
  <1>9. r \in Surjection(T, 1 .. n)
    BY <1>7, <1>8, FS_Injection
  <1>10. \A i \in 1 .. n : \E e \in T : r[e] = i
    BY <1>9 DEF Surjection
  <1> DEFINE s == [i \in 1 .. n |-> CHOOSE e \in T : r[e] = i]
  <1>11. \A i \in 1 .. n : s[i] \in T /\ r[s[i]] = i
    BY <1>10
  <1>12. s \in [1 .. n -> T] /\ DOMAIN s = 1 .. n
    BY <1>11
  <1> HIDE DEF s
  <1>13. ASSUME NEW i \in 1 .. n, NEW j \in 1 .. n, i < j PROVE Before(Name(s[i]), Name(s[j]))
    <2>1. s[i] \in T /\ s[j] \in T /\ r[s[i]] = i /\ r[s[j]] = j
      BY <1>11
    <2>2. s[i] # s[j] /\ ~(r[s[j]] < r[s[i]])
      BY <1>1, <1>13, <2>1
    <2> QED BY <1>3, <1>5, <2>1, <2>2
  <1>14. Sorted(s)
    BY <1>12, <1>13 DEF Sorted
  <1> QED BY <1>12, <1>14

\* InOrder lists every member of such a set once, in order.
LEMMA InOrderIs ==
  ASSUME NEW T, Nameable(T)
  PROVE  /\ InOrder(T) \in Seq(T) /\ Sorted(InOrder(T))
         /\ \A e \in T : \E i \in 1 .. Len(InOrder(T)) : InOrder(T)[i] = e
  <1> DEFINE n == Cardinality(T)
             s == InOrder(T)
  <1>1. IsFiniteSet(T) /\ n \in Nat
    BY FS_CardinalityType DEF Nameable
  <1>2. \E q \in [1 .. n -> T] : \A i, j \in DOMAIN q : i < j => Before(Name(q[i]), Name(q[j]))
    BY Sortable DEF Sorted
  <1>3. s \in [1 .. n -> T] /\ Sorted(s)
    <2>1. s = CHOOSE q \in [1 .. n -> T] :
                  \A i, j \in DOMAIN q : i < j => Before(Name(q[i]), Name(q[j]))
      BY DEF InOrder
    <2> QED BY <1>2, <2>1 DEF Sorted
  <1> HIDE DEF s
  <1>4. s \in Seq(T) /\ Len(s) = n
    BY <1>1, <1>3
  <1>5. ASSUME NEW i \in 1 .. n, NEW j \in 1 .. n, s[i] = s[j] PROVE i = j
    <2>1. ~Before(Name(s[i]), Name(s[j]))
      BY <1>3, <1>5, BeforeSelf DEF Nameable
    <2>2. ~Before(Name(s[j]), Name(s[i]))
      BY <1>5, <2>1
    <2>3. DOMAIN s = 1 .. n
      BY <1>3
    <2> QED BY <1>1, <1>3, <2>1, <2>2, <2>3 DEF Sorted
  <1>6. s \in Injection(1 .. n, T)
    BY <1>3, <1>5 DEF Injection, IsInjective
  <1>7. Cardinality(1 .. n) = Cardinality(T)
    BY <1>1, FS_Interval
  <1>8. s \in Surjection(1 .. n, T)
    BY <1>1, <1>6, <1>7, FS_Injection
  <1>9. \A e \in T : \E i \in 1 .. n : s[i] = e
    BY <1>8 DEF Surjection
  <1> QED BY <1>3, <1>4, <1>9 DEF s

-----------------------------------------------------------------------------
(* Common prefixes *)

\* A key's group is what it shows in a listing; the order of the keys is that of the groups,
\* and the keys of one common prefix are next to each other.
LEMMA GroupOf ==
  ASSUME NEW k \in Keys, NEW sel \in Selections
  PROVE  /\ Starts(GroupForKey(k, sel), k) /\ GroupForKey(k, sel) \in Seq(Nat)
         /\ ~IsGroup(k, sel) => GroupForKey(k, sel) = k
         /\ IsGroup(k, sel) =>
               /\ Len(GroupForKey(k, sel)) \in Cuts(k, sel)
               /\ \A c \in Cuts(k, sel) : Len(GroupForKey(k, sel)) <= c
  <1>1. k \in Seq(Nat) /\ Len(k) \in Nat /\ sel.prefix \in Seq(Nat) /\ Len(sel.prefix) \in Nat
    BY KeyFacts, SelectionAssumption, LenProperties
  <1>2. CASE ~IsGroup(k, sel)
    <2>1. GroupForKey(k, sel) = k
      BY <1>2 DEF GroupForKey
    <2> QED BY <1>1, <1>2, <2>1 DEF Starts
  <1>3. CASE IsGroup(k, sel)
    <2>1. Cuts(k, sel) \subseteq Nat /\ Cuts(k, sel) # {} /\ \A c \in Cuts(k, sel) : c <= Len(k)
      BY <1>1, <1>3 DEF IsGroup, Cuts
    <2> DEFINE m == Min(Cuts(k, sel))
    <2>2. m \in Cuts(k, sel) /\ \A c \in Cuts(k, sel) : m <= c
      <3>1. \E x \in Cuts(k, sel) : \A y \in Cuts(k, sel) : x <= y
        BY <2>1, LeastNumber
      <3>2. m = CHOOSE x \in Cuts(k, sel) : \A y \in Cuts(k, sel) : x <= y
        BY DEF Min
      <3> QED BY <3>1, <3>2
    <2>3. GroupForKey(k, sel) = Take(k, m)
      BY <1>3 DEF GroupForKey
    <2> HIDE DEF m
    <2>4. m \in Nat /\ m <= Len(k)
      BY <2>1, <2>2
    <2>5. Starts(Take(k, m), k) /\ Len(Take(k, m)) = m
      BY <1>1, <2>4, TakeStarts
    <2>6. Take(k, m) \in Seq(Nat)
      BY <2>5 DEF Starts
    <2> QED BY <1>3, <2>2, <2>3, <2>5, <2>6
  <1> QED BY <1>2, <1>3

\* Grouping keeps the order of keys.
LEMMA GroupOrder ==
  ASSUME NEW k \in Keys, NEW l \in Keys, NEW sel \in Selections, Before(k, l)
  PROVE  \/ Before(GroupForKey(k, sel), GroupForKey(l, sel))
         \/ /\ IsGroup(k, sel) /\ IsGroup(l, sel)
            /\ GroupForKey(k, sel) = GroupForKey(l, sel)
  <1> DEFINE G == GroupForKey(k, sel)
             H == GroupForKey(l, sel)
             a == Len(sel.prefix)
  <1>1. /\ k \in Seq(Nat) /\ Len(k) \in Nat /\ l \in Seq(Nat) /\ Len(l) \in Nat
        /\ sel.prefix \in Seq(Nat) /\ a \in Nat
    BY KeyFacts, SelectionAssumption, LenProperties
  <1>2. /\ Starts(G, k) /\ G \in Seq(Nat) /\ Starts(H, l) /\ H \in Seq(Nat)
        /\ ~IsGroup(k, sel) => G = k
        /\ ~IsGroup(l, sel) => H = l
        /\ IsGroup(k, sel) => Len(G) \in Cuts(k, sel) /\ \A c \in Cuts(k, sel) : Len(G) <= c
        /\ IsGroup(l, sel) => Len(H) \in Cuts(l, sel) /\ \A c \in Cuts(l, sel) : Len(H) <= c
    BY GroupOf
  <1> HIDE DEF G, H
  <1>3. /\ Len(G) \in Nat /\ Len(H) \in Nat /\ Len(G) <= Len(k) /\ Len(H) <= Len(l)
        /\ \A i \in 1 .. Len(G) : G[i] = k[i]
        /\ \A i \in 1 .. Len(H) : H[i] = l[i]
    BY <1>2, LenProperties DEF Starts
  <1>4. PICK d \in 1 .. Len(l) : /\ \A j \in 1 .. d - 1 : j <= Len(k) /\ k[j] = l[j]
                                 /\ d <= Len(k) => k[d] < l[d]
    BY <1>1, BeforeMeans
  <1>5. /\ \A c \in Cuts(k, sel) : c <= d - 1 => c \in Cuts(l, sel)
        /\ \A c \in Cuts(l, sel) : c <= d - 1 => c \in Cuts(k, sel)
    <2>1. ASSUME NEW c \in a + 1 .. d - 1
          PROVE  c \in 1 .. d - 1 /\ c <= Len(k) /\ c <= Len(l) /\ k[c] = l[c]
      <3>1. c \in 1 .. d - 1
        BY <1>1
      <3> QED BY <1>1, <1>4, <3>1
    <2>2. ASSUME NEW c \in Cuts(k, sel), c <= d - 1 PROVE c \in Cuts(l, sel)
      <3>1. c \in a + 1 .. d - 1 /\ k[c] = Slash /\ c \in Int /\ a + 1 <= c
        BY <1>1, <2>2 DEF Cuts
      <3>2. c <= Len(l) /\ l[c] = Slash
        BY <2>1, <3>1
      <3> QED BY <1>1, <3>1, <3>2 DEF Cuts
    <2>3. ASSUME NEW c \in Cuts(l, sel), c <= d - 1 PROVE c \in Cuts(k, sel)
      <3>1. c \in a + 1 .. d - 1 /\ l[c] = Slash /\ c \in Int /\ a + 1 <= c
        BY <1>1, <2>3 DEF Cuts
      <3>2. c <= Len(k) /\ k[c] = Slash
        BY <2>1, <3>1
      <3> QED BY <1>1, <3>1, <3>2 DEF Cuts
    <2> QED BY <2>2, <2>3
  <1>6. CASE d <= Len(H)
    <2>1. ~(d - 1 > Len(G))
      <3> SUFFICES ASSUME d - 1 > Len(G) PROVE FALSE
        OBVIOUS
      <3>1. Len(G) < Len(k)
        <4>1. d - 1 \in 1 .. d - 1
          BY <1>1, <1>3
        <4> QED BY <1>1, <1>3, <1>4, <4>1
      <3>2. IsGroup(k, sel) /\ Len(G) \in Cuts(k, sel)
        BY <1>1, <1>2, <3>1
      <3>3. Len(G) \in Cuts(l, sel)
        BY <1>3, <1>5, <3>2
      <3>4. IsGroup(l, sel)
        BY <3>2, <3>3 DEF IsGroup
      <3> QED BY <1>2, <1>3, <1>6, <3>3, <3>4
    <2>2. \A j \in 1 .. d - 1 : j <= Len(G) /\ G[j] = H[j]
      <3> SUFFICES ASSUME NEW j \in 1 .. d - 1 PROVE j <= Len(G) /\ G[j] = H[j]
        OBVIOUS
      <3>1. j \in 1 .. Len(G) /\ j \in 1 .. Len(H)
        BY <1>3, <1>6, <2>1
      <3> QED BY <1>3, <1>4, <3>1
    <2>3. d <= Len(G) => G[d] < H[d]
      <3> SUFFICES ASSUME d <= Len(G) PROVE G[d] < H[d]
        OBVIOUS
      <3>1. d \in 1 .. Len(G) /\ d \in 1 .. Len(H) /\ d <= Len(k)
        BY <1>1, <1>3, <1>6
      <3> QED BY <1>3, <1>4, <3>1
    <2>4. d \in 1 .. Len(H)
      BY <1>3, <1>6
    <2>5. Before(G, H)
      BY <1>2, <2>2, <2>3, <2>4, BeforeMeans
    <2> QED BY <2>5 DEF G, H
  <1>7. CASE ~(d <= Len(H))
    <2>1. Len(H) <= d - 1 /\ Len(H) < Len(l)
      BY <1>1, <1>3, <1>7
    <2>2. IsGroup(l, sel) /\ Len(H) \in Cuts(l, sel)
      BY <1>1, <1>2, <2>1
    <2>3. Len(H) \in Cuts(k, sel)
      BY <1>5, <2>1, <2>2
    <2>4. IsGroup(k, sel)
      BY <2>2, <2>3 DEF IsGroup
    <2>5. Len(G) <= Len(H) /\ Len(G) \in Cuts(k, sel)
      BY <1>2, <2>3, <2>4
    <2>6. Len(G) \in Cuts(l, sel)
      BY <1>3, <1>5, <2>1, <2>5
    <2>7. Len(G) = Len(H)
      BY <1>2, <1>3, <2>2, <2>5, <2>6
    <2>8. \A i \in 1 .. Len(G) : G[i] = H[i]
      <3> SUFFICES ASSUME NEW i \in 1 .. Len(G) PROVE G[i] = H[i]
        OBVIOUS
      <3>1. i \in 1 .. Len(H) /\ i \in 1 .. d - 1
        BY <1>1, <1>3, <2>1, <2>7
      <3> QED BY <1>3, <1>4, <3>1
    <2>9. G = H
      BY <1>2, <2>7, <2>8, SeqEqual
    <2> QED BY <2>2, <2>4, <2>9 DEF G, H
  <1> QED BY <1>6, <1>7

-----------------------------------------------------------------------------
(* Frames *)

EntrySet == [token : Seq(Nat), kind : Nat]

FrameSet == [path : Seq(Nat), after : Seq(Nat), complete : BOOLEAN, pending : Seq(EntrySet)]

\* What a frame has read ahead are entries of its node in order, and none of them is after
\* the place from which it goes on.
FrameOK(f) ==
    /\ f \in FrameSet /\ Mult(Len(f.path))
    /\ \A i \in 1 .. Len(f.pending) : f.pending[i] \in EntriesAt(f.path)
    /\ Sorted(f.pending)
    /\ ~f.complete => \A i \in 1 .. Len(f.pending) : ~Before(f.after, Name(f.pending[i]))

\* The frame has still to come to a key: to its entry read ahead or after its place.
Has(f, k) ==
    /\ Under(f.path, k)
    /\ \/ \E i \in 1 .. Len(f.pending) : f.pending[i] = EntryOf(f.path, k)
       \/ ~f.complete /\ Before(f.after, Name(EntryOf(f.path, k)))

LEMMA EntryTyped ==
  ASSUME NEW P, NEW e \in EntriesAt(P)
  PROVE  /\ e \in EntrySet /\ Name(e) \in Seq(Nat) /\ e.kind \in {Terminal, Branch}
         /\ \E k \in Keys : Under(P, k) /\ e = EntryOf(P, k)
  <1>1. PICK k \in Keys : Under(P, k) /\ e = EntryOf(P, k)
    BY DEF EntriesAt
  <1>2. /\ e = [token |-> e.token, kind |-> e.kind] /\ e.token \in Seq(Nat)
        /\ e.kind \in {Terminal, Branch}
    BY <1>1, EntryShape
  <1>3. Name(e) \in Seq(Nat)
    BY <1>1, NameShape
  <1>4. e \in EntrySet
    BY <1>2 DEF EntrySet, Terminal, Branch
  <1> QED BY <1>1, <1>2, <1>3, <1>4

LEMMA FrameFirst ==
  ASSUME NEW P \in Seq(Nat), Mult(Len(P))
  PROVE  FrameOK(Frame(P)) /\ \A k \in Keys : Has(Frame(P), k) <=> Under(P, k)
  <1>1. <<>> \in Seq(Nat) /\ <<>> \in Seq(EntrySet) /\ Len(<<>>) = 0 /\ DOMAIN <<>> = {}
    BY EmptySeq
  <1>2. /\ Frame(P) \in FrameSet /\ Frame(P).path = P /\ Frame(P).pending = <<>>
        /\ Frame(P).after = <<>> /\ Frame(P).complete = FALSE
    BY <1>1 DEF Frame, FrameSet
  <1>3. FrameOK(Frame(P))
    BY <1>1, <1>2 DEF FrameOK, Sorted
  <1>4. ASSUME NEW k \in Keys, Under(P, k) PROVE Before(<<>>, Name(EntryOf(P, k)))
    <2>1. /\ Name(EntryOf(P, k)) \in Seq(Nat)
          /\ Len(Name(EntryOf(P, k))) = Len(EntryOf(P, k).token) + 1
          /\ Len(EntryOf(P, k).token) \in Nat
      BY <1>4, NameShape, EntryShape
    <2>2. 1 \in 1 .. Len(Name(EntryOf(P, k))) /\ ~(1 <= Len(<<>>)) /\ (1 .. 1 - 1) = {}
      BY <1>1, <2>1
    <2> QED BY <1>1, <2>1, <2>2, BeforeMeans
  <1> QED BY <1>2, <1>3, <1>4 DEF Has

LEMMA FrameExhausted ==
  ASSUME NEW f, Exhausted(f), NEW k
  PROVE  ~Has(f, k)
  <1>1. Len(<<>>) = 0
    BY EmptySeq
  <1> QED BY <1>1 DEF Exhausted, Has

LEMMA MatchingIs ==
  ASSUME NEW f, FrameOK(f), IndexShape, NEW sel \in Selections
  PROVE  LET T == Matching(f, sel.prefix)
         IN  /\ T \subseteq EntriesAt(f.path)
             /\ \A e \in T : Before(f.after, Name(e))
             /\ \A k \in Keys :
                   /\ k \in leaves /\ Trail(k) \subseteq branches /\ Under(f.path, k)
                   /\ Selected(k, sel) /\ Before(f.after, Name(EntryOf(f.path, k)))
                   => EntryOf(f.path, k) \in T
  <1> DEFINE T == Matching(f, sel.prefix)
             P == f.path
             q == sel.prefix
             d == Drop(q, Len(P))
             t == Take(d, ChunkSize)
  <1>1. P \in Seq(Nat) /\ Len(P) \in Nat /\ Mult(Len(P)) /\ q \in Seq(Nat) /\ Len(q) \in Nat
    BY SelectionAssumption, LenProperties DEF FrameOK, FrameSet
  <1>2. T = {e \in Entries(P) : IsPrefix(t, Name(e)) /\ Before(f.after, Name(e))}
    BY DEF Matching, FilterFor
  <1>3. /\ d \in Seq(Nat) /\ Len(d) = IF Len(P) < Len(q) THEN Len(q) - Len(P) ELSE 0
        /\ \A i \in 1 .. Len(d) : d[i] = q[Len(P) + i]
    BY <1>1, DropProperties
  <1> HIDE DEF d
  <1>4. /\ t \in Seq(Nat) /\ Len(t) = IF ChunkSize < Len(d) THEN ChunkSize ELSE Len(d)
        /\ \A i \in 1 .. Len(t) : t[i] = d[i]
    BY <1>3, TakeProperties, Sizes
  <1> HIDE DEF t
  <1>8. /\ Len(d) \in Nat /\ (Len(P) < Len(q) => Len(d) = Len(q) - Len(P))
        /\ ~(Len(P) < Len(q)) => Len(d) = 0
    BY <1>3, LenProperties
  <1>9. Len(t) \in Nat /\ Len(t) <= Len(d) /\ Len(t) <= ChunkSize
    BY <1>4, <1>8, Sizes
  <1>5. ASSUME NEW k \in Keys, k \in leaves, Trail(k) \subseteq branches, Under(P, k),
               Selected(k, sel), Before(f.after, Name(EntryOf(P, k)))
        PROVE  EntryOf(P, k) \in T
    <2> DEFINE e == EntryOf(P, k)
    <2>1. e \in Entries(P)
      BY <1>5, EntryIsThere
    <2>2. /\ k \in Seq(Nat) /\ Len(k) \in Nat /\ Len(q) <= Len(k)
          /\ \A i \in 1 .. Len(q) : q[i] = k[i]
      BY <1>1, <1>5, KeyFacts, IsPrefixMeans DEF Selected
    <2>3. Len(P) < Len(k)
      BY <1>5 DEF Under
    <2>4. /\ Len(e.token) \in Nat
          /\ Len(e.token) = IF Len(k) <= Len(P) + ChunkSize THEN Len(k) - Len(P) ELSE ChunkSize
      BY <1>5, EntryShape
    <2>5. /\ Name(e) \in Seq(Nat) /\ Len(Name(e)) = Len(e.token) + 1
          /\ \A i \in 1 .. Len(e.token) : Name(e)[i] = k[Len(P) + i]
      BY <1>5, NameShape
    <2> HIDE DEF e
    <2>12. Len(k) \in Nat /\ Len(q) <= Len(k) /\ Len(P) \in Nat /\ Len(q) \in Nat
      BY <1>1, <2>2
    <2>6. Len(t) <= Len(e.token)
      <3>1. CASE Len(k) <= Len(P) + ChunkSize
        <4>1. Len(e.token) = Len(k) - Len(P)
          BY <2>4, <3>1
        <4>2. Len(d) <= Len(k) - Len(P)
          BY <1>8, <2>3, <2>12
        <4> QED BY <1>8, <1>9, <2>3, <2>12, <4>1, <4>2
      <3>2. CASE ~(Len(k) <= Len(P) + ChunkSize)
        BY <1>9, <2>4, <3>2
      <3> QED BY <3>1, <3>2
    <2>7. ASSUME NEW i \in 1 .. Len(t) PROVE t[i] = Name(e)[i]
      <3>4. i \in Nat /\ i >= 1 /\ i <= Len(d) /\ i <= Len(e.token) /\ Len(P) < Len(q)
        BY <1>8, <1>9, <2>4, <2>6, <2>12
      <3>1. i \in 1 .. Len(d) /\ i \in 1 .. Len(e.token) /\ Len(P) + i \in 1 .. Len(q)
        BY <1>8, <2>4, <2>12, <3>4
      <3>2. t[i] = q[Len(P) + i]
        BY <1>3, <1>4, <3>1
      <3>3. q[Len(P) + i] = k[Len(P) + i]
        BY <2>2, <3>1
      <3> QED BY <2>5, <3>1, <3>2, <3>3
    <2>8. Len(t) <= Len(Name(e))
      BY <2>4, <2>5, <2>6
    <2>9. IsPrefix(t, Name(e))
      BY <1>4, <2>5, <2>7, <2>8, IsPrefixMeans
    <2>10. Before(f.after, Name(e))
      BY <1>5 DEF e
    <2>11. e \in T
      BY <1>2, <2>1, <2>9, <2>10 DEF e
    <2> QED BY <2>11 DEF e
  <1>6. T \subseteq EntriesAt(P)
    BY <1>1, <1>2, EntriesAreOfKeys
  <1>7. \A e \in T : Before(f.after, Name(e))
    BY <1>2
  <1> QED BY <1>5, <1>6, <1>7

\* The next entries of a node.
Listing(f, sel) ==
    LET all == InOrder(Matching(f, sel.prefix))
        some == Take(all, NodePage)
    IN [f EXCEPT !.pending = some, !.complete = (some = all),
                 !.after = IF some = all THEN <<>> ELSE Name(Last(some))]

\* They are still to come; and every selected key that is in the index stays to come.
LEMMA FrameListed ==
  ASSUME NEW f, FrameOK(f), IndexShape, NEW sel \in Selections, f.pending = <<>>, ~f.complete
  PROVE  LET g == Listing(f, sel)
         IN  /\ FrameOK(g)
             /\ \A k \in Keys : Has(g, k) => Has(f, k)
             /\ \A k \in Keys : /\ k \in leaves /\ Trail(k) \subseteq branches
                                /\ Selected(k, sel) /\ Has(f, k)
                                => Has(g, k)
  <1> DEFINE T == Matching(f, sel.prefix)
             all == InOrder(T)
             some == Take(all, NodePage)
             g == Listing(f, sel)
             P == f.path
  <1>1. /\ f \in FrameSet /\ P \in Seq(Nat) /\ Mult(Len(P)) /\ f.after \in Seq(Nat)
        /\ Len(f.pending) = 0
    BY EmptySeq DEF FrameOK, FrameSet
  <1>2. /\ T \subseteq EntriesAt(P)
        /\ \A e \in T : Before(f.after, Name(e))
        /\ \A k \in Keys : /\ k \in leaves /\ Trail(k) \subseteq branches /\ Under(P, k)
                           /\ Selected(k, sel) /\ Before(f.after, Name(EntryOf(P, k)))
                           => EntryOf(P, k) \in T
    BY MatchingIs
  <1> HIDE DEF T
  <1>3. /\ all \in Seq(T) /\ Sorted(all)
        /\ \A e \in T : \E i \in 1 .. Len(all) : all[i] = e
    BY <1>2, EntriesNameable, InOrderIs
  <1> HIDE DEF all
  <1>4. Len(all) \in Nat /\ DOMAIN all = 1 .. Len(all) /\ \A i \in 1 .. Len(all) : all[i] \in T
    BY <1>3, LenProperties, ElementOfSeq
  <1>5. /\ some \in Seq(T) /\ Len(some) = IF NodePage < Len(all) THEN NodePage ELSE Len(all)
        /\ \A i \in 1 .. Len(some) : some[i] = all[i]
    BY <1>3, Sizes, TakeProperties
  <1> HIDE DEF some
  <1>6. /\ Len(some) \in Nat /\ DOMAIN some = 1 .. Len(some) /\ Len(some) <= Len(all)
        /\ \A i \in 1 .. Len(some) : some[i] \in T
    BY <1>4, <1>5, Sizes, LenProperties, ElementOfSeq
  <1>7. Sorted(some)
    BY <1>3, <1>4, <1>5, <1>6 DEF Sorted
  <1>8. \A e \in T : e \in EntriesAt(P) /\ e \in EntrySet /\ Name(e) \in Seq(Nat)
    BY <1>2, EntryTyped
  <1>9. some \in Seq(EntrySet)
    BY <1>5, <1>8, SeqMonotonic
  <1>10. some # all => Len(some) = NodePage /\ Len(some) < Len(all)
    <2> SUFFICES ASSUME ~(NodePage < Len(all)) PROVE some = all
      BY <1>5
    <2>1. Len(some) = Len(all)
      BY <1>5
    <2> QED BY <1>3, <1>5, <2>1, SeqEqual
  <1>11. some # all => /\ Last(some) = some[NodePage] /\ NodePage \in 1 .. Len(some)
                       /\ Last(some) \in T /\ Name(Last(some)) \in Seq(Nat)
    BY <1>6, <1>8, <1>10, Sizes DEF Last
  <1>12. /\ g = [f EXCEPT !.pending = some, !.complete = (some = all),
                          !.after = IF some = all THEN <<>> ELSE Name(Last(some))]
    BY DEF Listing, all, some, T
  <1>13. g \in FrameSet /\ g.path = P /\ g.pending = some /\ g.complete = (some = all)
         /\ g.after = IF some = all THEN <<>> ELSE Name(Last(some))
    <2>1. (IF some = all THEN <<>> ELSE Name(Last(some))) \in Seq(Nat)
      BY <1>11, EmptySeq
    <2> QED BY <1>1, <1>9, <1>12, <2>1 DEF FrameSet
  <1> HIDE DEF g
  <1>14. FrameOK(g)
    <2>1. ASSUME some # all, NEW i \in 1 .. Len(some) PROVE ~Before(Name(Last(some)), Name(some[i]))
      <3>1. CASE i = NodePage
        BY <1>6, <1>8, <1>11, <2>1, <3>1, BeforeSelf
      <3>2. CASE i < NodePage
        <4>1. Before(Name(some[i]), Name(Last(some)))
          BY <1>6, <1>7, <1>11, <2>1, <3>2 DEF Sorted
        <4>2. Name(some[i]) \in Seq(Nat) /\ Name(Last(some)) \in Seq(Nat)
          BY <1>6, <1>8, <1>11, <2>1
        <4> QED BY <4>1, <4>2, BeforeSelf, BeforeTransitive
      <3> QED BY <1>6, <1>10, <2>1, <3>1, <3>2, Sizes
    <2> QED BY <1>1, <1>6, <1>7, <1>8, <1>13, <2>1 DEF FrameOK
  <1>15. ASSUME NEW k \in Keys, Has(g, k) PROVE Has(f, k)
    <2>1. Under(P, k)
      BY <1>13, <1>15 DEF Has
    <2>2. CASE \E i \in 1 .. Len(some) : some[i] = EntryOf(P, k)
      <3>1. EntryOf(P, k) \in T
        BY <1>6, <2>2
      <3> QED BY <1>2, <2>1, <3>1 DEF Has
    <2>3. CASE some # all /\ Before(Name(Last(some)), Name(EntryOf(P, k)))
      <3>1. Before(f.after, Name(Last(some))) /\ Name(EntryOf(P, k)) \in Seq(Nat)
        BY <1>2, <1>11, <2>1, <2>3, NameShape
      <3>2. Before(f.after, Name(EntryOf(P, k)))
        BY <1>1, <1>11, <2>3, <3>1, BeforeTransitive
      <3> QED BY <2>1, <3>2 DEF Has
    <2> QED BY <1>13, <1>15, <2>2, <2>3 DEF Has
  <1>16. ASSUME NEW k \in Keys, k \in leaves, Trail(k) \subseteq branches, Selected(k, sel), Has(f, k)
         PROVE  Has(g, k)
    <2>1. Under(P, k) /\ Before(f.after, Name(EntryOf(P, k)))
      BY <1>1, <1>16 DEF Has
    <2>2. EntryOf(P, k) \in T
      BY <1>2, <1>16, <2>1
    <2>3. PICK i \in 1 .. Len(all) : all[i] = EntryOf(P, k)
      BY <1>3, <2>2
    <2>4. CASE i <= Len(some)
      <3>1. i \in 1 .. Len(some) /\ some[i] = EntryOf(P, k)
        BY <1>5, <1>6, <2>3, <2>4
      <3> QED BY <1>13, <2>1, <3>1 DEF Has
    <2>5. CASE ~(i <= Len(some))
      <3>1. some # all
        BY <2>5
      <3>2. NodePage < i /\ Last(some) = all[NodePage] /\ NodePage \in 1 .. Len(all)
        BY <1>4, <1>5, <1>6, <1>10, <1>11, <2>5, <3>1
      <3>3. Before(Name(Last(some)), Name(EntryOf(P, k)))
        BY <1>3, <1>4, <2>3, <3>2 DEF Sorted
      <3> QED BY <1>13, <2>1, <3>1, <3>3 DEF Has
    <2> QED BY <2>4, <2>5
  <1> QED BY <1>14, <1>15, <1>16 DEF g

\* Its next entry is the first of what a frame has still to come to.
LEMMA FrameShifted ==
  ASSUME NEW f, FrameOK(f), f.pending # <<>>
  PROVE  LET e == Head(f.pending)
             g == [f EXCEPT !.pending = Tail(f.pending)]
         IN  /\ FrameOK(g) /\ e \in EntriesAt(f.path)
             /\ \A k \in Keys : Has(g, k) => /\ Has(f, k)
                                             /\ Before(Name(e), Name(EntryOf(f.path, k)))
             /\ \A k \in Keys : Has(f, k) => Has(g, k) \/ EntryOf(f.path, k) = e
             /\ \A k \in Keys : Under(f.path, k) /\ EntryOf(f.path, k) = e => Has(f, k)
  <1> DEFINE p == f.pending
             e == Head(p)
             g == [f EXCEPT !.pending = Tail(p)]
             P == f.path
  <1>1. /\ f \in FrameSet /\ P \in Seq(Nat) /\ Mult(Len(P)) /\ f.after \in Seq(Nat)
        /\ p \in Seq(EntrySet) /\ Sorted(p) /\ f.complete \in BOOLEAN
        /\ \A i \in 1 .. Len(p) : p[i] \in EntriesAt(P)
        /\ ~f.complete => \A i \in 1 .. Len(p) : ~Before(f.after, Name(p[i]))
    BY DEF FrameOK, FrameSet
  <1>2. Len(p) \in Nat /\ Len(p) >= 1 /\ DOMAIN p = 1 .. Len(p) /\ e = p[1]
    BY <1>1, LenProperties, EmptySeq
  <1>3. /\ Tail(p) \in Seq(EntrySet) /\ Len(Tail(p)) = Len(p) - 1
        /\ \A i \in 1 .. Len(Tail(p)) : Tail(p)[i] = p[i + 1]
        /\ DOMAIN Tail(p) = 1 .. Len(Tail(p))
    BY <1>1, HeadTailProperties, LenProperties
  <1>4. g \in FrameSet /\ g.path = P /\ g.pending = Tail(p) /\ g.complete = f.complete
        /\ g.after = f.after
    BY <1>1, <1>3 DEF FrameSet
  <1> HIDE DEF g, e, p
  <1>5. \A i \in 1 .. Len(Tail(p)) : i + 1 \in 1 .. Len(p) /\ 1 < i + 1
    BY <1>2, <1>3
  <1>6. Sorted(Tail(p))
    <2> SUFFICES ASSUME NEW i \in 1 .. Len(Tail(p)), NEW j \in 1 .. Len(Tail(p)), i < j
                 PROVE  Before(Name(Tail(p)[i]), Name(Tail(p)[j]))
      BY <1>3 DEF Sorted
    <2>1. i + 1 \in 1 .. Len(p) /\ j + 1 \in 1 .. Len(p) /\ i + 1 < j + 1
      BY <1>5
    <2> QED BY <1>1, <1>2, <1>3, <2>1 DEF Sorted
  <1>7. FrameOK(g)
    <2>1. \A i \in 1 .. Len(Tail(p)) : Tail(p)[i] \in EntriesAt(P)
      BY <1>1, <1>3, <1>5
    <2>2. ~f.complete => \A i \in 1 .. Len(Tail(p)) : ~Before(f.after, Name(Tail(p)[i]))
      BY <1>1, <1>3, <1>5
    <2> QED BY <1>1, <1>4, <1>6, <2>1, <2>2 DEF FrameOK
  <1>8. e \in EntriesAt(P) /\ Name(e) \in Seq(Nat)
    BY <1>1, <1>2, EntryTyped
  <1>9. ASSUME NEW k \in Keys, Has(g, k)
        PROVE  Has(f, k) /\ Before(Name(e), Name(EntryOf(P, k)))
    <2>1. Under(P, k) /\ Name(EntryOf(P, k)) \in Seq(Nat)
      BY <1>4, <1>9, NameShape DEF Has
    <2>2. CASE \E i \in 1 .. Len(Tail(p)) : Tail(p)[i] = EntryOf(P, k)
      <3>1. PICK i \in 1 .. Len(Tail(p)) : Tail(p)[i] = EntryOf(P, k)
        BY <2>2
      <3>2. i + 1 \in 1 .. Len(p) /\ 1 < i + 1 /\ p[i + 1] = EntryOf(P, k)
        BY <1>3, <1>5, <3>1
      <3>3. Before(Name(p[1]), Name(p[i + 1]))
        BY <1>1, <1>2, <3>2 DEF Sorted
      <3> QED BY <1>2, <2>1, <3>2, <3>3 DEF Has, p
    <2>3. CASE ~f.complete /\ Before(f.after, Name(EntryOf(P, k)))
      <3>1. ~Before(f.after, Name(e))
        BY <1>1, <1>2, <2>3
      <3>2. Name(e) = f.after \/ Before(Name(e), f.after)
        BY <1>1, <1>8, <3>1, BeforeTotal
      <3>3. Before(Name(e), Name(EntryOf(P, k)))
        BY <1>1, <1>8, <2>1, <2>3, <3>2, BeforeTransitive
      <3> QED BY <2>1, <2>3, <3>3 DEF Has
    <2> QED BY <1>4, <1>9, <2>2, <2>3 DEF Has
  <1>10. ASSUME NEW k \in Keys, Has(f, k) PROVE Has(g, k) \/ EntryOf(P, k) = e
    <2>1. CASE \E i \in 1 .. Len(p) : p[i] = EntryOf(P, k)
      <3>1. PICK i \in 1 .. Len(p) : p[i] = EntryOf(P, k)
        BY <2>1
      <3>2. CASE i = 1
        BY <1>2, <3>1, <3>2
      <3>3. CASE i # 1
        <4>1. PICK j \in 1 .. Len(Tail(p)) : i = j + 1
          <5>1. i - 1 \in 1 .. Len(Tail(p)) /\ i = (i - 1) + 1
            BY <1>2, <1>3, <3>3
          <5> QED BY <5>1
        <4>2. Tail(p)[j] = EntryOf(P, k)
          BY <1>3, <3>1, <4>1
        <4> QED BY <1>4, <1>10, <4>1, <4>2 DEF Has
      <3> QED BY <3>2, <3>3
    <2>2. CASE ~f.complete /\ Before(f.after, Name(EntryOf(P, k)))
      BY <1>4, <1>10, <2>2 DEF Has
    <2> QED BY <1>10, <2>1, <2>2 DEF Has, p
  <1>11. ASSUME NEW k \in Keys, Under(P, k), EntryOf(P, k) = e PROVE Has(f, k)
    <2>1. 1 \in 1 .. Len(p) /\ p[1] = EntryOf(P, k)
      BY <1>2, <1>11
    <2> QED BY <1>11, <2>1 DEF Has, p
  <1> QED BY <1>7, <1>8, <1>9, <1>10, <1>11 DEF g, e, p

-----------------------------------------------------------------------------
(* Stacks *)

\* The frames of a stack, the top last: what a higher one has still to come to is before
\* what a lower one has.
StackOK(st) ==
    /\ st \in Seq(FrameSet)
    /\ \A i \in 1 .. Len(st) : FrameOK(st[i])
    /\ \A i, j \in 1 .. Len(st) : i < j =>
          \A k, l \in Keys : Has(st[i], k) /\ Has(st[j], l) => Before(l, k)

\* Some frame has still to come to the key.
Ahead(st, k) == \E i \in 1 .. Len(st) : Has(st[i], k)

LEMMA StackEmpty == StackOK(<<>>) /\ \A k : ~Ahead(<<>>, k)
  <1>1. <<>> \in Seq(FrameSet) /\ Len(<<>>) = 0
    BY EmptySeq
  <1> QED BY <1>1 DEF StackOK, Ahead

LEMMA StackTake ==
  ASSUME NEW st, StackOK(st), NEW n \in Nat, n <= Len(st)
  PROVE  /\ StackOK(Take(st, n)) /\ Len(Take(st, n)) = n
         /\ \A i \in 1 .. n : Take(st, n)[i] = st[i]
         /\ \A k : Ahead(Take(st, n), k) <=> \E i \in 1 .. n : Has(st[i], k)
  <1> DEFINE t == Take(st, n)
  <1>1. st \in Seq(FrameSet) /\ Len(st) \in Nat
    BY LenProperties DEF StackOK
  <1>2. t \in Seq(FrameSet) /\ Len(t) = n /\ \A i \in 1 .. n : t[i] = st[i]
    BY <1>1, TakeProperties
  <1> HIDE DEF t
  <1>3. \A i \in 1 .. n : i \in 1 .. Len(st)
    BY <1>1
  <1>4. \A i \in 1 .. n : FrameOK(t[i])
    BY <1>2, <1>3 DEF StackOK
  <1>5. \A i, j \in 1 .. n : i < j =>
          \A k, l \in Keys : Has(t[i], k) /\ Has(t[j], l) => Before(l, k)
    BY <1>2, <1>3 DEF StackOK
  <1>6. StackOK(t)
    BY <1>2, <1>4, <1>5 DEF StackOK
  <1>7. \A k : Ahead(t, k) <=> \E i \in 1 .. n : Has(st[i], k)
    BY <1>2 DEF Ahead
  <1> QED BY <1>2, <1>6, <1>7 DEF t

LEMMA StackFront ==
  ASSUME NEW st, StackOK(st), st # <<>>
  PROVE  /\ StackOK(Front(st)) /\ FrameOK(Last(st))
         /\ \A k : Ahead(st, k) <=> Ahead(Front(st), k) \/ Has(Last(st), k)
         /\ \A k, l \in Keys : Ahead(Front(st), k) /\ Has(Last(st), l) => Before(l, k)
  <1> DEFINE n == Len(st) - 1
  <1>1. st \in Seq(FrameSet) /\ Len(st) \in Nat /\ Len(st) >= 1
    BY LenProperties, EmptySeq DEF StackOK
  <1>2. /\ n \in Nat /\ n <= Len(st) /\ n < Len(st) /\ n + 1 = Len(st) /\ n + 1 \in 1 .. Len(st)
        /\ Front(st) = SubSeq(st, 1, n)
    BY <1>1 DEF Front
  <1> HIDE DEF n
  <1>3. Front(st) = Take(st, n) /\ Last(st) = st[n + 1]
    BY <1>2 DEF Last, Take
  <1>4. /\ StackOK(Front(st))
        /\ \A k : Ahead(Front(st), k) <=> \E i \in 1 .. n : Has(st[i], k)
    BY <1>2, <1>3, StackTake
  <1>5. \A i : i \in 1 .. Len(st) <=> i \in 1 .. n \/ i = n + 1
    BY <1>1, <1>2
  <1>6. \A k : Ahead(st, k) <=> Ahead(Front(st), k) \/ Has(Last(st), k)
    BY <1>3, <1>4, <1>5 DEF Ahead
  <1>7. FrameOK(Last(st))
    BY <1>2, <1>3 DEF StackOK
  <1>8. ASSUME NEW k \in Keys, NEW l \in Keys, Ahead(Front(st), k), Has(Last(st), l)
        PROVE  Before(l, k)
    <2>1. PICK i \in 1 .. n : Has(st[i], k)
      BY <1>4, <1>8
    <2>2. i < n + 1 /\ i \in 1 .. Len(st)
      BY <1>2, <1>5
    <2> QED BY <1>2, <1>3, <1>8, <2>1, <2>2 DEF StackOK
  <1> QED BY <1>4, <1>6, <1>7, <1>8

LEMMA StackAppend ==
  ASSUME NEW st, StackOK(st), NEW f, FrameOK(f),
         \A k, l \in Keys : Ahead(st, k) /\ Has(f, l) => Before(l, k)
  PROVE  /\ StackOK(Append(st, f)) /\ Append(st, f) # <<>>
         /\ \A k : Ahead(Append(st, f), k) <=> Ahead(st, k) \/ Has(f, k)
  <1> DEFINE t == Append(st, f)
             n == Len(st)
  <1>1. st \in Seq(FrameSet) /\ n \in Nat /\ f \in FrameSet
    BY LenProperties DEF StackOK, FrameOK
  <1>2. /\ t \in Seq(FrameSet) /\ t # <<>> /\ Len(t) = n + 1 /\ t[n + 1] = f
        /\ \A i \in 1 .. n : t[i] = st[i]
    BY <1>1, AppendProperties
  <1> HIDE DEF t
  <1>3. \A i : i \in 1 .. n + 1 <=> i \in 1 .. n \/ i = n + 1
    BY <1>1
  <1>4. \A i \in 1 .. n + 1 : FrameOK(t[i])
    BY <1>2, <1>3 DEF StackOK
  <1>5. \A k : Ahead(t, k) <=> Ahead(st, k) \/ Has(f, k)
    BY <1>2, <1>3 DEF Ahead
  <1>6. ASSUME NEW i \in 1 .. n + 1, NEW j \in 1 .. n + 1, i < j, NEW k \in Keys, NEW l \in Keys,
               Has(t[i], k), Has(t[j], l)
        PROVE  Before(l, k)
    <2>1. i \in 1 .. n /\ t[i] = st[i]
      BY <1>1, <1>2, <1>6
    <2>2. CASE j \in 1 .. n
      BY <1>2, <1>6, <2>1, <2>2 DEF StackOK
    <2>3. CASE j = n + 1
      <3>1. Ahead(st, k)
        BY <1>6, <2>1 DEF Ahead
      <3> QED BY <1>2, <1>6, <2>3, <3>1
    <2> QED BY <1>3, <2>2, <2>3
  <1> QED BY <1>2, <1>4, <1>5, <1>6 DEF StackOK, t

LEMMA GreatestOf ==
  ASSUME NEW n \in Nat, NEW K, K \subseteq 1 .. n, K # {}
  PROVE  \E m \in K : \A i \in K : i <= m
  <1> DEFINE S == {m \in 0 .. n : \A i \in K : i <= m}
  <1>1. n \in S /\ S \subseteq Nat
    OBVIOUS
  <1>2. PICK m \in S : \A x \in S : m <= x
    BY <1>1, LeastNumber
  <1>3. m \in K
    <2> SUFFICES ASSUME m \notin K PROVE FALSE
      OBVIOUS
    <2>1. \A i \in K : i \in 1 .. n /\ i <= m /\ i # m
      BY <1>2
    <2>2. m \in 0 .. n /\ m >= 1
      <3>1. PICK i \in K : TRUE
        OBVIOUS
      <3> QED BY <1>2, <2>1, <3>1
    <2>3. m - 1 \in S
      BY <2>1, <2>2
    <2> QED BY <1>2, <2>2, <2>3
  <1> QED BY <1>2, <1>3

\* Popping exhausted frames forgets nothing.
LEMMA StackPop ==
  ASSUME NEW st, StackOK(st)
  PROVE  /\ StackOK(PopExhausted(st))
         /\ \A k : Ahead(PopExhausted(st), k) <=> Ahead(st, k)
  <1> DEFINE kept == {i \in DOMAIN st : ~Exhausted(st[i])}
  <1>1. st \in Seq(FrameSet) /\ Len(st) \in Nat /\ DOMAIN st = 1 .. Len(st)
    BY LenProperties DEF StackOK
  <1>2. CASE kept = {}
    <2>1. PopExhausted(st) = <<>>
      BY <1>2 DEF PopExhausted
    <2>2. \A i \in 1 .. Len(st) : Exhausted(st[i])
      BY <1>1, <1>2
    <2>3. \A k : ~Ahead(st, k)
      BY <2>2, FrameExhausted DEF Ahead
    <2> QED BY <2>1, <2>3, StackEmpty
  <1>3. CASE kept # {}
    <2> DEFINE m == CHOOSE i \in kept : \A j \in kept : j <= i
    <2>1. PopExhausted(st) = Take(st, m)
      BY <1>3 DEF PopExhausted
    <2>2. m \in kept /\ \A j \in kept : j <= m
      <3>1. kept \subseteq 1 .. Len(st)
        BY <1>1
      <3>2. \E i \in kept : \A j \in kept : j <= i
        BY <1>1, <1>3, <3>1, GreatestOf
      <3> QED BY <3>2
    <2> HIDE DEF m
    <2>3. m \in Nat /\ m <= Len(st)
      BY <1>1, <2>2
    <2>4. \A i \in 1 .. Len(st) : i \in 1 .. m \/ Exhausted(st[i])
      BY <1>1, <2>2, <2>3
    <2>5. /\ StackOK(Take(st, m))
          /\ \A k : Ahead(Take(st, m), k) <=> \E i \in 1 .. m : Has(st[i], k)
      BY <2>3, StackTake
    <2>6. \A i \in 1 .. m : i \in 1 .. Len(st)
      BY <1>1, <2>3
    <2>7. \A k : (\E i \in 1 .. m : Has(st[i], k)) <=> Ahead(st, k)
      BY <2>4, <2>6, FrameExhausted DEF Ahead
    <2> QED BY <2>1, <2>5, <2>7
  <1> QED BY <1>2, <1>3

\* The top frame replaced by one with no more to come to.
LEMMA StackTop ==
  ASSUME NEW st, StackOK(st), st # <<>>, NEW g, FrameOK(g),
         \A k \in Keys : Has(g, k) => Has(Last(st), k)
  PROVE  LET t == Append(Front(st), g)
         IN  /\ StackOK(t) /\ t # <<>>
             /\ \A k \in Keys : Ahead(t, k) => Ahead(st, k)
             /\ \A k \in Keys : Ahead(st, k) => \/ Ahead(t, k)
                                                \/ Has(Last(st), k) /\ ~Has(g, k)
             /\ \A k \in Keys : Ahead(t, k) <=> Ahead(Front(st), k) \/ Has(g, k)
  <1>1. /\ StackOK(Front(st))
        /\ \A k : Ahead(st, k) <=> Ahead(Front(st), k) \/ Has(Last(st), k)
        /\ \A k, l \in Keys : Ahead(Front(st), k) /\ Has(Last(st), l) => Before(l, k)
    BY StackFront
  <1>2. /\ StackOK(Append(Front(st), g)) /\ Append(Front(st), g) # <<>>
        /\ \A k : Ahead(Append(Front(st), g), k) <=> Ahead(Front(st), k) \/ Has(g, k)
    <2>1. \A k, l \in Keys : Ahead(Front(st), k) /\ Has(g, l) => Before(l, k)
      BY <1>1
    <2> QED BY <1>1, <2>1, StackAppend
  <1> QED BY <1>1, <1>2

-----------------------------------------------------------------------------
(* The steps of the walk, on the stack *)

\* ListNode of a node that is not exhausted.
LEMMA StackListed ==
  ASSUME NEW st, StackOK(st), st # <<>>, IndexShape, NEW sel \in Selections,
         Last(st).pending = <<>>, ~Last(st).complete
  PROVE  LET t == Append(Front(st), Listing(Last(st), sel))
         IN  /\ StackOK(t) /\ \A k \in Keys : Ahead(t, k) => Ahead(st, k)
             /\ \A k \in Keys : /\ k \in leaves /\ Trail(k) \subseteq branches
                                /\ Selected(k, sel) /\ Ahead(st, k)
                                => Ahead(t, k)
  <1> DEFINE f == Last(st)
             g == Listing(f, sel)
             t == Append(Front(st), g)
  <1>1. FrameOK(f)
    BY StackFront
  <1>2. /\ FrameOK(g)
        /\ \A k \in Keys : Has(g, k) => Has(f, k)
        /\ \A k \in Keys : /\ k \in leaves /\ Trail(k) \subseteq branches
                           /\ Selected(k, sel) /\ Has(f, k)
                           => Has(g, k)
    BY <1>1, FrameListed
  <1> HIDE DEF g
  <1>11. \A x \in Keys : Has(g, x) => Has(f, x)
    BY <1>2
  <1>3. /\ StackOK(t)
        /\ \A k \in Keys : Ahead(t, k) => Ahead(st, k)
        /\ \A k \in Keys : Ahead(st, k) => Ahead(t, k) \/ (Has(f, k) /\ ~Has(g, k))
    BY <1>2, <1>11, StackTop
  <1> HIDE DEF t
  <1>4. \A k \in Keys : /\ k \in leaves /\ Trail(k) \subseteq branches
                        /\ Selected(k, sel) /\ Ahead(st, k)
                        => Ahead(t, k)
    BY <1>2, <1>3
  <1> QED BY <1>3, <1>4 DEF g, t

Shift(f) == [f EXCEPT !.pending = Tail(f.pending)]

\* Descend: the keys of the branch are in front now.
LEMMA StackDescends ==
  ASSUME NEW st, StackOK(st), st # <<>>, Last(st).pending # <<>>,
         Head(Last(st).pending).kind = Branch
  PROVE  LET f == Last(st)
             e == Head(f.pending)
             t == Append(Append(Front(st), Shift(f)), Frame(f.path \o e.token))
         IN  StackOK(t) /\ \A k \in Keys : Ahead(t, k) <=> Ahead(st, k)
  <1> DEFINE f == Last(st)
             e == Head(f.pending)
             g == Shift(f)
             u == Append(Front(st), g)
             Q == f.path \o e.token
             t == Append(u, Frame(Q))
  <1>1. FrameOK(f) /\ \A k, l \in Keys : Ahead(Front(st), k) /\ Has(f, l) => Before(l, k)
    BY StackFront
  <1>2. /\ FrameOK(g) /\ e \in EntriesAt(f.path)
        /\ \A k \in Keys : Has(g, k) => Has(f, k) /\ Before(Name(e), Name(EntryOf(f.path, k)))
        /\ \A k \in Keys : Has(f, k) => Has(g, k) \/ EntryOf(f.path, k) = e
        /\ \A k \in Keys : Under(f.path, k) /\ EntryOf(f.path, k) = e => Has(f, k)
    BY <1>1, FrameShifted DEF Shift
  <1> HIDE DEF g
  <1>11. \A x \in Keys : Has(g, x) => Has(f, x)
    BY <1>2
  <1>3. /\ StackOK(u)
        /\ \A k \in Keys : Ahead(u, k) => Ahead(st, k)
        /\ \A k \in Keys : Ahead(st, k) => Ahead(u, k) \/ (Has(f, k) /\ ~Has(g, k))
        /\ \A k \in Keys : Ahead(u, k) <=> Ahead(Front(st), k) \/ Has(g, k)
    BY <1>2, <1>11, StackTop
  <1> HIDE DEF u
  <1>4. PICK x \in Keys : Under(f.path, x) /\ e = EntryOf(f.path, x)
    BY <1>2, EntryTyped
  <1>5. Q \in Seq(Nat) /\ Mult(Len(Q))
    BY <1>4, EntryLeads DEF Under
  <1>6. \A k \in Keys : Under(Q, k) <=> Under(f.path, k) /\ EntryOf(f.path, k) = e
    <2>1. ASSUME NEW k \in Keys, Under(Q, k) PROVE Under(f.path, k) /\ EntryOf(f.path, k) = e
      BY <1>4, <2>1, BranchCovers
    <2>2. ASSUME NEW k \in Keys, Under(f.path, k), EntryOf(f.path, k) = e PROVE Under(Q, k)
      BY <2>2, EntryLeads
    <2> QED BY <2>1, <2>2
  <1> HIDE DEF Q
  <1>7. FrameOK(Frame(Q)) /\ \A k \in Keys : Has(Frame(Q), k) <=> Under(Q, k)
    BY <1>5, FrameFirst
  <1>8. ASSUME NEW k \in Keys, NEW l \in Keys, Ahead(u, k), Has(Frame(Q), l) PROVE Before(l, k)
    <2>1. Under(f.path, l) /\ EntryOf(f.path, l) = e /\ Has(f, l)
      BY <1>2, <1>6, <1>7, <1>8
    <2>2. CASE Ahead(Front(st), k)
      BY <1>1, <2>1, <2>2
    <2>3. CASE Has(g, k)
      <3>1. Has(f, k) /\ Before(Name(EntryOf(f.path, l)), Name(EntryOf(f.path, k)))
        BY <1>2, <2>1, <2>3
      <3>2. Under(f.path, k)
        BY <3>1 DEF Has
      <3> QED BY <2>1, <3>1, <3>2, EntryOrder
    <2> QED BY <1>3, <1>8, <2>2, <2>3
  <1>9. StackOK(t) /\ \A k : Ahead(t, k) <=> Ahead(u, k) \/ Has(Frame(Q), k)
    BY <1>3, <1>7, <1>8, StackAppend
  <1> HIDE DEF t
  <1>10. \A k \in Keys : Ahead(t, k) <=> Ahead(st, k)
    <2>1. ASSUME NEW k \in Keys, Ahead(t, k) PROVE Ahead(st, k)
      <3>1. CASE Ahead(u, k)
        BY <1>3, <3>1
      <3>2. CASE Has(Frame(Q), k)
        <4>1. Has(f, k)
          BY <1>2, <1>6, <1>7, <3>2
        <4> QED BY <4>1, StackFront
      <3> QED BY <1>9, <2>1, <3>1, <3>2
    <2>2. ASSUME NEW k \in Keys, Ahead(st, k) PROVE Ahead(t, k)
      <3>1. CASE Ahead(u, k)
        BY <1>9, <3>1
      <3>2. CASE Has(f, k) /\ ~Has(g, k)
        <4>1. Has(Frame(Q), k)
          BY <1>2, <1>6, <1>7, <3>2 DEF Has
        <4> QED BY <1>9, <4>1
      <3> QED BY <1>3, <2>2, <3>1, <3>2
    <2> QED BY <2>1, <2>2
  <1> QED BY <1>9, <1>10 DEF t, u, g, Q

\* Visit: the key of the entry was ahead, and first; nothing else was consumed.
LEMMA StackVisits ==
  ASSUME NEW st, StackOK(st), st # <<>>, Last(st).pending # <<>>,
         Head(Last(st).pending).kind = Terminal
  PROVE  LET f == Last(st)
             k == f.path \o Head(f.pending).token
             t == Append(Front(st), Shift(f))
         IN  /\ k \in Keys /\ Ahead(st, k) /\ StackOK(t)
             /\ Len(k) = Len(f.path) + Len(Head(f.pending).token)
             /\ \A l \in Keys : Ahead(t, l) => Ahead(st, l) /\ Before(k, l)
             /\ \A l \in Keys : Ahead(st, l) => Ahead(t, l) \/ l = k
  <1> DEFINE f == Last(st)
             e == Head(f.pending)
             g == Shift(f)
             k == f.path \o e.token
             t == Append(Front(st), g)
  <1>1. FrameOK(f) /\ \A x, l \in Keys : Ahead(Front(st), x) /\ Has(f, l) => Before(l, x)
    BY StackFront
  <1>2. /\ FrameOK(g) /\ e \in EntriesAt(f.path)
        /\ \A l \in Keys : Has(g, l) => Has(f, l) /\ Before(Name(e), Name(EntryOf(f.path, l)))
        /\ \A l \in Keys : Has(f, l) => Has(g, l) \/ EntryOf(f.path, l) = e
        /\ \A l \in Keys : Under(f.path, l) /\ EntryOf(f.path, l) = e => Has(f, l)
    BY <1>1, FrameShifted DEF Shift
  <1> HIDE DEF g
  <1>11. \A x \in Keys : Has(g, x) => Has(f, x)
    BY <1>2
  <1>3. /\ StackOK(t)
        /\ \A l \in Keys : Ahead(t, l) => Ahead(st, l)
        /\ \A l \in Keys : Ahead(st, l) => Ahead(t, l) \/ (Has(f, l) /\ ~Has(g, l))
        /\ \A l \in Keys : Ahead(t, l) <=> Ahead(Front(st), l) \/ Has(g, l)
    BY <1>2, <1>11, StackTop
  <1> HIDE DEF t
  <1>4. PICK x \in Keys : Under(f.path, x) /\ e = EntryOf(f.path, x)
    BY <1>2, EntryTyped
  <1>5. k = x /\ Len(k) = Len(f.path) + Len(e.token)
    <2>1. Under(f.path, x) /\ EntryOf(f.path, x).kind = Terminal
      BY <1>4
    <2>2. LET Q == f.path \o EntryOf(f.path, x).token
          IN  Q = x /\ Len(Q) = Len(f.path) + Len(EntryOf(f.path, x).token)
      BY <2>1, EntryLeads
    <2> QED BY <1>4, <2>2
  <1> HIDE DEF k
  <1>6. k \in Keys /\ Under(f.path, k) /\ EntryOf(f.path, k) = e /\ Has(f, k)
    BY <1>2, <1>4, <1>5
  <1>7. Ahead(st, k)
    BY <1>6, StackFront
  <1>8. ASSUME NEW l \in Keys, Ahead(t, l) PROVE Before(k, l)
    <2>1. CASE Ahead(Front(st), l)
      BY <1>1, <1>6, <2>1
    <2>2. CASE Has(g, l)
      <3>1. Under(f.path, l) /\ Before(Name(EntryOf(f.path, k)), Name(EntryOf(f.path, l)))
        BY <1>2, <1>6, <2>2 DEF Has
      <3> QED BY <1>6, <3>1, EntryOrder
    <2> QED BY <1>3, <1>8, <2>1, <2>2
  <1>9. ASSUME NEW l \in Keys, Ahead(st, l) PROVE Ahead(t, l) \/ l = k
    <2>1. CASE Has(f, l) /\ ~Has(g, l)
      <3>1. Under(f.path, l) /\ EntryOf(f.path, l) = e
        BY <1>2, <2>1 DEF Has
      <3> QED BY <1>4, <1>5, <3>1, SameTerminal
    <2> QED BY <1>3, <1>9, <2>1
  <1> QED BY <1>3, <1>5, <1>6, <1>7, <1>8, <1>9 DEF k, t, g

-----------------------------------------------------------------------------
(* Positions *)

StateSet == [stack : Seq(FrameSet), lastGroup : Seq(Nat) \cup {NULL}]

\* A result x does not stand in the way of a key that is still to come: the key's group is
\* after it, or it is the common prefix g that was listed last.
Follows(x, k, g, sel) ==
    \/ Before(x, GroupForKey(k, sel))
    \/ IsGroup(k, sel) /\ x = GroupForKey(k, sel) /\ g = GroupForKey(k, sel)

\* The result was listed.
In(x, L) == \E i \in 1 .. Len(L) : L[i] = x

\* A position after the results L of a listing: what is ahead of it follows them, and what
\* it must list, the keys S, is in them or ahead.
Position(state, L, sel, S) ==
    /\ state \in StateSet
    /\ StackOK(state.stack)
    /\ \A i \in 1 .. Len(L) : \A k \in Keys :
          Selected(k, sel) /\ Ahead(state.stack, k) => Follows(L[i], k, state.lastGroup, sel)
    /\ state.lastGroup # NULL /\ Shows(sel, state.lastGroup) => In(state.lastGroup, L)
    /\ \A k \in S : Selected(k, sel) /\ Shows(sel, GroupForKey(k, sel)) =>
          Ahead(state.stack, k) \/ In(GroupForKey(k, sel), L)

\* Results in order, all of them of keys of X and after StartAfter.
Sound(L, sel, X) ==
    /\ L \in Seq(Seq(Nat))
    /\ \A i \in 1 .. Len(L) : Shows(sel, L[i]) /\ \E k \in X : L[i] = GroupForKey(k, sel)
    /\ \A i, j \in 1 .. Len(L) : i < j => Before(L[i], L[j])

\* Nothing that is owed is missing.
Complete(L, sel, S) ==
    \A k \in S : Selected(k, sel) /\ Shows(sel, GroupForKey(k, sel)) => In(GroupForKey(k, sel), L)

LEMMA PositionMoves ==
  ASSUME NEW s, NEW L, NEW sel, NEW S, S \subseteq Keys, Position(s, L, sel, S),
         NEW t, StackOK(t), \A k \in Keys : Ahead(t, k) => Ahead(s.stack, k),
         \A k \in S : Selected(k, sel) /\ Ahead(s.stack, k) => Ahead(t, k)
  PROVE  LET u == [s EXCEPT !.stack = t]
         IN  Position(u, L, sel, S) /\ u \in StateSet /\ u.stack = t /\ u.lastGroup = s.lastGroup
  <1> DEFINE u == [s EXCEPT !.stack = t]
  <1>1. s \in StateSet /\ t \in Seq(FrameSet)
    BY DEF Position, StackOK
  <1>2. u \in StateSet /\ u.stack = t /\ u.lastGroup = s.lastGroup
    BY <1>1 DEF StateSet
  <1> HIDE DEF u
  <1>3. Position(u, L, sel, S)
    BY <1>2 DEF Position
  <1> QED BY <1>2, <1>3 DEF u

LEMMA PositionLess ==
  ASSUME NEW s, NEW L, NEW sel, NEW S, NEW T, T \subseteq S, Position(s, L, sel, S)
  PROVE  Position(s, L, sel, T)
  BY DEF Position

LEMMA SoundMore ==
  ASSUME NEW L, NEW sel, NEW X, NEW Y, X \subseteq Y, Sound(L, sel, X)
  PROVE  Sound(L, sel, Y)
  BY DEF Sound

LEMMA PositionEnds ==
  ASSUME NEW s, NEW L, NEW sel, NEW S, Position(s, L, sel, S), s.stack = <<>>
  PROVE  Complete(L, sel, S)
  BY StackEmpty DEF Position, Complete

LEMMA PositionPops ==
  ASSUME NEW s, NEW L, NEW sel, NEW S, S \subseteq Keys, Position(s, L, sel, S)
  PROVE  Position([s EXCEPT !.stack = PopExhausted(s.stack)], L, sel, S)
  <1>1. StackOK(s.stack)
    BY DEF Position
  <1>2. /\ StackOK(PopExhausted(s.stack))
        /\ \A k : Ahead(PopExhausted(s.stack), k) <=> Ahead(s.stack, k)
    BY <1>1, StackPop
  <1> QED BY <1>2, PositionMoves

LEMMA FirstPosition ==
  ASSUME NEW sel, NEW S, S \subseteq Keys
  PROVE  Position(InitialState, <<>>, sel, S)
  <1> DEFINE f == Frame(<<>>)
  <1>1. <<>> \in Seq(Nat) /\ Len(<<>>) = 0 /\ Mult(Len(<<>>))
    BY EmptySeq, Multiples
  <1>2. FrameOK(f) /\ \A k \in Keys : Has(f, k) <=> Under(<<>>, k)
    BY <1>1, FrameFirst
  <1>3. \A k \in Keys : Under(<<>>, k)
    BY <1>1, KeyFacts DEF Under, Starts
  <1>4. StackOK(<<>>) /\ \A k : ~Ahead(<<>>, k)
    BY StackEmpty
  <1> HIDE DEF f
  <1>5. /\ StackOK(Append(<<>>, f))
        /\ \A k : Ahead(Append(<<>>, f), k) <=> Ahead(<<>>, k) \/ Has(f, k)
    BY <1>2, <1>4, StackAppend
  <1>6. <<f>> = Append(<<>>, f)
    OBVIOUS
  <1>7. StackOK(<<f>>) /\ \A k \in Keys : Ahead(<<f>>, k)
    BY <1>2, <1>3, <1>5, <1>6
  <1>8. /\ InitialState.stack = <<f>> /\ InitialState.lastGroup = NULL
        /\ InitialState = [stack |-> <<f>>, lastGroup |-> NULL]
    BY DEF InitialState, f
  <1>9. InitialState \in StateSet
    BY <1>7, <1>8 DEF StateSet, StackOK
  <1> QED BY <1>1, <1>7, <1>8, <1>9 DEF Position

\* Accept: what a key that is the first ahead, and is listed, does to the position. Its
\* common prefix may have been listed last; otherwise it is a new result.
Repeats(k, s, sel) == IsGroup(k, sel) /\ s.lastGroup = GroupForKey(k, sel)

Extended(L, k, sel) ==
    IF Shows(sel, GroupForKey(k, sel)) THEN Append(L, GroupForKey(k, sel)) ELSE L

LEMMA PositionAccepts ==
  ASSUME NEW s, NEW L, NEW sel \in Selections, NEW S, NEW X, S \subseteq Keys,
         Position(s, L, sel, S), Sound(L, sel, X),
         NEW k \in Keys, k \in X, Selected(k, sel), Ahead(s.stack, k),
         NEW t, StackOK(t),
         \A l \in Keys : Ahead(t, l) => Ahead(s.stack, l) /\ Before(k, l),
         \A l \in Keys : Ahead(s.stack, l) => Ahead(t, l) \/ l = k,
         NEW u, u \in StateSet, u.stack = t, NEW M,
         Repeats(k, s, sel) => u.lastGroup = s.lastGroup /\ M = L,
         ~Repeats(k, s, sel) =>
            /\ u.lastGroup = IF IsGroup(k, sel) THEN GroupForKey(k, sel) ELSE NULL
            /\ M = Extended(L, k, sel)
  PROVE  Position(u, M, sel, S) /\ Sound(M, sel, X)
  <1> DEFINE G == GroupForKey(k, sel)
  <1>1. /\ \A i \in 1 .. Len(L) : \A l \in Keys :
             Selected(l, sel) /\ Ahead(s.stack, l) => Follows(L[i], l, s.lastGroup, sel)
        /\ s.lastGroup # NULL /\ Shows(sel, s.lastGroup) => In(s.lastGroup, L)
        /\ \A l \in S : Selected(l, sel) /\ Shows(sel, GroupForKey(l, sel)) =>
             Ahead(s.stack, l) \/ In(GroupForKey(l, sel), L)
    BY DEF Position
  <1>2. L \in Seq(Seq(Nat)) /\ Len(L) \in Nat /\ \A i \in 1 .. Len(L) : L[i] \in Seq(Nat)
    BY LenProperties, ElementOfSeq DEF Sound
  <1>3. G \in Seq(Nat) /\ G # NULL
    BY GroupOf, SelectionAssumption
  <1>4. \A l \in Keys : GroupForKey(l, sel) \in Seq(Nat)
    BY GroupOf
  <1> HIDE DEF G
  <1>5. CASE IsGroup(k, sel) /\ s.lastGroup = G
    <2>4. u.lastGroup = G /\ M = L
      BY <1>5 DEF Repeats, G
    <2>1. \A i \in 1 .. Len(L) : \A l \in Keys :
             Selected(l, sel) /\ Ahead(t, l) => Follows(L[i], l, G, sel)
      BY <1>1, <1>5
    <2>2. Shows(sel, G) => In(G, L)
      BY <1>1, <1>3, <1>5
    <2>3. \A l \in S : Selected(l, sel) /\ Shows(sel, GroupForKey(l, sel)) =>
             Ahead(t, l) \/ In(GroupForKey(l, sel), L)
      <3> SUFFICES ASSUME NEW l \in S, Selected(l, sel), Shows(sel, GroupForKey(l, sel)),
                          ~Ahead(t, l)
                   PROVE  In(GroupForKey(l, sel), L)
        OBVIOUS
      <3>1. CASE l = k
        BY <2>2, <3>1 DEF G
      <3>2. CASE l # k
        BY <1>1, <3>2
      <3> QED BY <3>1, <3>2
    <2> QED BY <2>1, <2>2, <2>3, <2>4 DEF Position
  <1>6. CASE ~(IsGroup(k, sel) /\ s.lastGroup = G)
    <2>13. /\ u.lastGroup = IF IsGroup(k, sel) THEN G ELSE NULL
           /\ M = IF Shows(sel, G) THEN Append(L, G) ELSE L
      BY <1>6 DEF Repeats, Extended, G
    <2>1. ASSUME NEW i \in 1 .. Len(L) PROVE Before(L[i], G)
      <3>1. Follows(L[i], k, s.lastGroup, sel)
        BY <1>1
      <3> QED BY <1>6, <3>1 DEF Follows, G
    <2>2. ASSUME NEW i \in 1 .. Len(L), NEW l \in Keys, Ahead(t, l)
          PROVE  Before(L[i], GroupForKey(l, sel))
      <3>1. Before(k, l)
        BY <2>2
      <3>2. Before(G, GroupForKey(l, sel)) \/ G = GroupForKey(l, sel)
        BY <3>1, GroupOrder DEF G
      <3> QED BY <1>2, <1>3, <1>4, <2>1, <3>2, BeforeTransitive
    <2>3. ASSUME NEW l \in Keys, Ahead(t, l) PROVE Follows(G, l, u.lastGroup, sel)
      <3>1. Before(k, l)
        BY <2>3
      <3>2. \/ Before(G, GroupForKey(l, sel))
            \/ IsGroup(k, sel) /\ IsGroup(l, sel) /\ G = GroupForKey(l, sel)
        BY <3>1, GroupOrder DEF G
      <3> QED BY <2>13, <3>2 DEF Follows
    <2>4. /\ M \in Seq(Seq(Nat)) /\ Len(M) \in Nat
          /\ \A i \in 1 .. Len(M) : (i \in 1 .. Len(L) /\ M[i] = L[i]) \/ M[i] = G
          /\ \A i \in 1 .. Len(L) : i \in 1 .. Len(M) /\ M[i] = L[i]
          /\ Shows(sel, G) => In(G, M)
          /\ \A i \in 1 .. Len(M) : i \in 1 .. Len(L)
                                    \/ (Shows(sel, G) /\ M[i] = G /\ i = Len(L) + 1)
      <3>1. CASE Shows(sel, G)
        <4>1. /\ M \in Seq(Seq(Nat)) /\ Len(M) = Len(L) + 1 /\ M[Len(L) + 1] = G
              /\ \A i \in 1 .. Len(L) : M[i] = L[i]
          BY <1>2, <1>3, <2>13, <3>1, AppendProperties
        <4>2. \A i \in 1 .. Len(L) + 1 : i \in 1 .. Len(L) \/ i = Len(L) + 1
          BY <1>2
        <4>3. Len(L) + 1 \in 1 .. Len(L) + 1 /\ \A i \in 1 .. Len(L) : i \in 1 .. Len(L) + 1
          BY <1>2
        <4>4. In(G, M)
          BY <4>1, <4>3 DEF In
        <4>5. \A i \in 1 .. Len(M) : i \in 1 .. Len(L) \/ (M[i] = G /\ i = Len(L) + 1)
          BY <4>1, <4>2
        <4>6. Len(M) \in Nat /\ \A i \in 1 .. Len(L) : i \in 1 .. Len(M)
          BY <1>2, <4>1, <4>3
        <4> QED BY <3>1, <4>1, <4>4, <4>5, <4>6
      <3>2. CASE ~Shows(sel, G)
        BY <1>2, <2>13, <3>2
      <3> QED BY <3>1, <3>2
    <2>5. \A x : In(x, L) => In(x, M)
      BY <2>4 DEF In
    <2>6. \A i \in 1 .. Len(M) : \A l \in Keys :
             Selected(l, sel) /\ Ahead(t, l) => Follows(M[i], l, u.lastGroup, sel)
      BY <2>2, <2>3, <2>4 DEF Follows
    <2>7. u.lastGroup # NULL /\ Shows(sel, u.lastGroup) => In(u.lastGroup, M)
      BY <2>4, <2>13
    <2>8. \A l \in S : Selected(l, sel) /\ Shows(sel, GroupForKey(l, sel)) =>
             Ahead(t, l) \/ In(GroupForKey(l, sel), M)
      <3> SUFFICES ASSUME NEW l \in S, Selected(l, sel), Shows(sel, GroupForKey(l, sel)),
                          ~Ahead(t, l)
                   PROVE  In(GroupForKey(l, sel), M)
        OBVIOUS
      <3>1. CASE l = k
        BY <2>4, <3>1 DEF G
      <3>2. CASE l # k
        BY <1>1, <2>5, <3>2
      <3> QED BY <3>1, <3>2
    <2>9. Position(u, M, sel, S)
      BY <2>6, <2>7, <2>8 DEF Position
    <2>10. ASSUME NEW i \in 1 .. Len(M)
           PROVE  Shows(sel, M[i]) /\ \E l \in X : M[i] = GroupForKey(l, sel)
      <3>1. CASE i \in 1 .. Len(L)
        BY <2>4, <3>1 DEF Sound
      <3>2. CASE i \notin 1 .. Len(L)
        BY <2>4, <3>2 DEF G
      <3> QED BY <3>1, <3>2
    <2>11. ASSUME NEW i \in 1 .. Len(M), NEW j \in 1 .. Len(M), i < j PROVE Before(M[i], M[j])
      <3>4. /\ i \in 1 .. Len(L) \/ i = Len(L) + 1
            /\ j \in 1 .. Len(L) \/ j = Len(L) + 1
        BY <2>4
      <3>1. i \in 1 .. Len(L)
        BY <1>2, <2>11, <3>4
      <3>2. CASE j \in 1 .. Len(L)
        BY <2>4, <2>11, <3>1, <3>2 DEF Sound
      <3>3. CASE j \notin 1 .. Len(L)
        <4>1. M[j] = G
          BY <2>4, <3>3
        <4>2. M[i] = L[i]
          BY <2>4, <3>1
        <4> QED BY <2>1, <3>1, <4>1, <4>2
      <3> QED BY <3>2, <3>3
    <2>12. Sound(M, sel, X)
      BY <2>4, <2>10, <2>11 DEF Sound
    <2> QED BY <2>9, <2>12
  <1> QED BY <1>5, <1>6

-----------------------------------------------------------------------------
(* The invariant *)

HandlerSet ==
    [pc : {"walk"}, state : StateSet, entries : Int, limit : Int, visible : Seq(Seq(Nat)),
     sources : Int]

\* The branch entries on the way to a leaf are there before it, and stay.
IndexInv ==
    /\ manifest \in [Keys -> {NULL, "active", "deleted"}]
    /\ step \in [Keys -> {"idle", "branches", "leaf"}]
    /\ IndexShape
    /\ \A k \in leaves : Trail(k) \subseteq branches
    /\ \A k \in Keys : step[k] = "leaf" /\ manifest[k] = "active" => Trail(k) \subseteq branches

\* What is owed is in the index, and whatever is active may be listed.
HistoryInv ==
    /\ settled \subseteq leaves
    /\ \A k \in settled : manifest[k] = "active"
    /\ listable \subseteq Keys
    /\ \A k \in Keys : manifest[k] = "active" => k \in listable

\* The results so far are sound, and the stored cursor goes on from them.
ClientInv ==
    /\ client \in [selection : Selections, at : {"start", "cursor", "expired", "done"}]
    /\ Sound(received, client.selection, listable)
    /\ client.at = "start" => received = <<>>
    /\ client.at = "cursor" => Position(cursor, received, client.selection, settled)
    /\ client.at = "done" => Complete(received, client.selection, settled)

\* A page goes on from where the results so far end.
Walks(h) ==
    /\ h \in HandlerSet
    /\ client.at \in {"start", "cursor"}
    /\ Sound(received \o h.visible, client.selection, listable)
    /\ Position(h.state, received \o h.visible, client.selection, settled)

HandlerInv == handler # NoRequest => Walks(handler)

ListingInv == IndexInv /\ HistoryInv /\ ClientInv /\ HandlerInv

LEMMA InvInit ==
  ASSUME Init
  PROVE  ListingInv
  <1>1. leaves \subseteq Keys
    BY KeysAssumption DEF Init
  <1>2. IndexInv
    <2>1. \A b \in branches : \E k \in Keys : b \in Trail(k)
      BY <1>1 DEF Init
    <2>2. \A k \in leaves : Trail(k) \subseteq branches
      BY DEF Init
    <2> QED BY <1>1, <2>1, <2>2 DEF Init, IndexInv, IndexShape
  <1>3. HistoryInv
    BY <1>1, SelectionAssumption DEF Init, HistoryInv
  <1>4. ClientInv
    <2>1. received = <<>> /\ <<>> \in Seq(Seq(Nat)) /\ Len(<<>>) = 0
      BY EmptySeq DEF Init
    <2>2. client.at = "start" /\ client \in [selection : Selections, at : {"start"}]
      BY DEF Init
    <2> QED BY <2>1, <2>2 DEF ClientInv, Sound
  <1>5. HandlerInv
    BY DEF Init, HandlerInv
  <1> QED BY <1>2, <1>3, <1>4, <1>5 DEF ListingInv

-----------------------------------------------------------------------------
(* Steps of the index *)

\* What a listing owes and has listed stands when fewer keys are settled and more listable.
LEMMA ListingKeeps ==
  ASSUME ClientInv, HandlerInv, UNCHANGED <<clientVars, handler>>,
         settled' \subseteq settled, listable \subseteq listable'
  PROVE  ClientInv' /\ HandlerInv'
  <1>1. UNCHANGED <<cursor, client, received, handler>>
    BY DEF clientVars
  <1>2. ClientInv'
    <2>1. Sound(received, client.selection, listable')
      BY SoundMore DEF ClientInv
    <2>2. client.at = "cursor" => Position(cursor, received, client.selection, settled')
      BY PositionLess DEF ClientInv
    <2>3. client.at = "done" => Complete(received, client.selection, settled')
      BY DEF ClientInv, Complete
    <2> QED BY <1>1, <2>1, <2>2, <2>3 DEF ClientInv
  <1>3. HandlerInv'
    <2> SUFFICES ASSUME handler # NoRequest PROVE Walks(handler)'
      BY <1>1 DEF HandlerInv, NoRequest
    <2>1. Walks(handler)
      BY DEF HandlerInv
    <2>2. Sound(received \o handler.visible, client.selection, listable')
      BY <2>1, SoundMore DEF Walks
    <2>3. Position(handler.state, received \o handler.visible, client.selection, settled')
      BY <2>1, PositionLess DEF Walks
    <2> QED BY <1>1, <2>1, <2>2, <2>3 DEF Walks
  <1> QED BY <1>2, <1>3

LEMMA ObservedKeeps ==
  ASSUME IndexInv, HistoryInv, Observed, leaves' \subseteq Keys
  PROVE  HistoryInv' /\ settled' \subseteq settled /\ listable \subseteq listable'
  BY DEF HistoryInv, Observed, IndexInv

LEMMA CommitKeeps ==
  ASSUME ListingInv, NEW k \in Keys, NEW state \in {"active", "deleted"}, Commit(k, state)
  PROVE  ListingInv'
  <1>1. IndexInv'
    <2>1. /\ manifest' = [manifest EXCEPT ![k] = state]
          /\ step' = [step EXCEPT ![k] = IF state = "active" THEN "branches" ELSE "leaf"]
          /\ UNCHANGED <<leaves, branches>>
      BY DEF Commit
    <2>2. /\ manifest' \in [Keys -> {NULL, "active", "deleted"}]
          /\ step' \in [Keys -> {"idle", "branches", "leaf"}]
      BY <2>1 DEF ListingInv, IndexInv
    <2>3. ASSUME NEW l \in Keys, step'[l] = "leaf", manifest'[l] = "active"
          PROVE  Trail(l) \subseteq branches
      <3>1. l # k /\ step[l] = "leaf" /\ manifest[l] = "active"
        BY <2>1, <2>3 DEF ListingInv, IndexInv
      <3> QED BY <3>1 DEF ListingInv, IndexInv
    <2> QED BY <2>1, <2>2, <2>3 DEF ListingInv, IndexInv, IndexShape
  <1>2. leaves' \subseteq Keys /\ Observed /\ UNCHANGED <<clientVars, handler>>
    BY DEF Commit, ListingInv, IndexInv, IndexShape
  <1>3. HistoryInv' /\ settled' \subseteq settled /\ listable \subseteq listable'
    BY <1>2, ObservedKeeps DEF ListingInv
  <1>4. ClientInv' /\ HandlerInv'
    BY <1>2, <1>3, ListingKeeps DEF ListingInv
  <1> QED BY <1>1, <1>3, <1>4 DEF ListingInv

LEMMA BranchesKeep ==
  ASSUME ListingInv, NEW k \in Keys, MaterializeBranches(k)
  PROVE  ListingInv'
  <1> DEFINE missing == Trail(k) \ branches
  <1>1. UNCHANGED <<manifest, leaves, clientVars, handler, settled, listable>>
    BY DEF MaterializeBranches
  <1>2. CASE missing = {}
    <2>1. UNCHANGED branches /\ step' = [step EXCEPT ![k] = "leaf"] /\ Trail(k) \subseteq branches
      BY <1>2 DEF MaterializeBranches
    <2>2. IndexInv'
      BY <1>1, <2>1 DEF ListingInv, IndexInv, IndexShape
    <2>3. HistoryInv'
      BY <1>1 DEF ListingInv, HistoryInv
    <2> QED BY <1>1, <2>2, <2>3, ListingKeeps DEF ListingInv
  <1>3. CASE missing # {}
    <2>1. UNCHANGED step
          /\ branches' = branches \cup {CHOOSE b \in missing : \A c \in missing : Len(b) <= Len(c)}
      BY <1>3 DEF MaterializeBranches
    <2>2. PICK b \in missing : \A c \in missing : Len(b) <= Len(c)
      <3> DEFINE lengths == {n \in 0 .. Len(k) : \E b \in missing : n = Len(b)}
      <3>1. \A b \in missing : Len(b) \in 0 .. Len(k)
        BY TrailMeans, KeyFacts, LenProperties DEF Starts
      <3>2. lengths \subseteq Nat /\ lengths # {}
        BY <1>3, <3>1
      <3>3. PICK n \in lengths : \A m \in lengths : n <= m
        BY <3>2, LeastNumber
      <3>4. PICK b \in missing : n = Len(b)
        BY <3>3
      <3>5. \A c \in missing : Len(c) \in lengths
        BY <3>1
      <3> QED BY <3>3, <3>4, <3>5
    <2>3. \A b1 \in branches' : b1 \in branches \/ b1 \in Trail(k)
      BY <2>1, <2>2
    <2>4. IndexInv'
      <3>1. \A b1 \in branches' : \E l \in Keys : b1 \in Trail(l)
        BY <2>3 DEF ListingInv, IndexInv, IndexShape
      <3>2. branches \subseteq branches'
        BY <2>1
      <3> QED BY <1>1, <2>1, <3>1, <3>2 DEF ListingInv, IndexInv, IndexShape
    <2>5. HistoryInv'
      BY <1>1 DEF ListingInv, HistoryInv
    <2> QED BY <1>1, <2>4, <2>5, ListingKeeps DEF ListingInv
  <1> QED BY <1>2, <1>3

LEMMA LeafKeeps ==
  ASSUME ListingInv, NEW k \in Keys, MaterializeLeaf(k)
  PROVE  ListingInv'
  <1>1. /\ step[k] = "leaf"
        /\ leaves' = IF manifest[k] = "active" THEN leaves \cup {k} ELSE leaves \ {k}
        /\ step' = [step EXCEPT ![k] = "idle"]
        /\ UNCHANGED <<manifest, branches, clientVars, handler>>
        /\ Observed
    BY DEF MaterializeLeaf
  <1>2. leaves' \subseteq Keys /\ \A l \in leaves' : Trail(l) \subseteq branches
    BY <1>1 DEF ListingInv, IndexInv, IndexShape
  <1>3. IndexInv'
    <2>1. /\ step' \in [Keys -> {"idle", "branches", "leaf"}]
          /\ \A l \in Keys : step'[l] = "leaf" => step[l] = "leaf"
      BY <1>1 DEF ListingInv, IndexInv
    <2> QED BY <1>1, <1>2, <2>1 DEF ListingInv, IndexInv, IndexShape
  <1>4. HistoryInv' /\ settled' \subseteq settled /\ listable \subseteq listable'
    BY <1>1, <1>2, ObservedKeeps DEF ListingInv
  <1> QED BY <1>1, <1>3, <1>4, ListingKeeps DEF ListingInv

LEMMA AbandonKeeps ==
  ASSUME ListingInv, NEW k \in Keys, Abandon(k)
  PROVE  ListingInv'
  <1>1. /\ step' = [step EXCEPT ![k] = "idle"]
        /\ UNCHANGED <<manifest, leaves, branches, clientVars, handler, settled, listable>>
    BY DEF Abandon
  <1>2. IndexInv'
    <2>1. /\ step' \in [Keys -> {"idle", "branches", "leaf"}]
          /\ \A l \in Keys : step'[l] = "leaf" => step[l] = "leaf"
      BY <1>1 DEF ListingInv, IndexInv
    <2> QED BY <1>1, <2>1 DEF ListingInv, IndexInv, IndexShape
  <1>3. HistoryInv'
    BY <1>1 DEF ListingInv, HistoryInv
  <1> QED BY <1>1, <1>2, <1>3, ListingKeeps DEF ListingInv

-----------------------------------------------------------------------------
(* Steps of a page *)

\* Steps that only change the handler: it walks on.
LEMMA WalkKeeps ==
  ASSUME ListingInv, UNCHANGED <<indexVars, clientVars, settled, listable>>,
         NEW h, handler' = h, Walks(h)
  PROVE  ListingInv'
  <1>1. UNCHANGED <<manifest, leaves, branches, step, cursor, client, received, settled, listable>>
    BY DEF indexVars, clientVars
  <1>2. IndexInv' /\ HistoryInv'
    BY <1>1 DEF ListingInv, IndexInv, IndexShape, HistoryInv
  <1>3. ClientInv'
    BY <1>1 DEF ListingInv, ClientInv
  <1>4. HandlerInv'
    BY <1>1 DEF HandlerInv, Walks
  <1> QED BY <1>2, <1>3, <1>4 DEF ListingInv

\* And what it takes to walk on with another stack and the same results.
LEMMA WalkMoves ==
  ASSUME ListingInv, NEW h, Walks(h), NEW t, StackOK(t),
         \A k \in Keys : Ahead(t, k) => Ahead(h.state.stack, k),
         \A k \in settled : Selected(k, client.selection) /\ Ahead(h.state.stack, k) => Ahead(t, k),
         NEW u, u \in HandlerSet, u.visible = h.visible, u.state = [h.state EXCEPT !.stack = t]
  PROVE  Walks(u)
  <1>1. settled \subseteq Keys
    BY DEF ListingInv, HistoryInv, IndexInv, IndexShape
  <1>2. Position(u.state, received \o h.visible, client.selection, settled)
    BY <1>1, PositionMoves DEF Walks
  <1> QED BY <1>2 DEF Walks

\* What a settled key is in the index.
LEMMA SettledIndexed ==
  ASSUME ListingInv, NEW k \in settled
  PROVE  k \in Keys /\ k \in leaves /\ Trail(k) \subseteq branches /\ manifest[k] = "active"
  BY DEF ListingInv, HistoryInv, IndexInv, IndexShape

LEMMA StartKeeps ==
  ASSUME ListingInv, StartPage
  PROVE  ListingInv'
  <1> DEFINE s == IF client.at = "start" THEN InitialState ELSE cursor
             h == [pc |-> "walk", state |-> s, entries |-> 0, limit |-> Limit,
                   visible |-> <<>>, sources |-> 1]
  <1>1. /\ handler' = h /\ client.at \in {"start", "cursor"}
        /\ UNCHANGED <<indexVars, clientVars, settled, listable>>
    BY DEF StartPage
  <1>2. received \in Seq(Seq(Nat)) /\ received \o <<>> = received /\ <<>> \in Seq(Seq(Nat))
    BY ConcatEmptySeq, EmptySeq DEF ListingInv, ClientInv, Sound
  <1>3. settled \subseteq Keys
    BY DEF ListingInv, HistoryInv, IndexInv, IndexShape
  <1>4. Position(s, received, client.selection, settled)
    <2>1. CASE client.at = "start"
      BY <1>3, <2>1, FirstPosition DEF ListingInv, ClientInv
    <2>2. CASE client.at = "cursor"
      BY <2>2 DEF ListingInv, ClientInv
    <2> QED BY <1>1, <2>1, <2>2
  <1> HIDE DEF s
  <1>5. h \in HandlerSet /\ h.state = s /\ h.visible = <<>>
    BY <1>2, <1>4, Sizes DEF Position, HandlerSet
  <1> HIDE DEF h
  <1>6. Walks(h)
    BY <1>1, <1>2, <1>4, <1>5 DEF Walks, ListingInv, ClientInv
  <1> QED BY <1>1, <1>6, WalkKeeps

\* The handler that walks, and its top frame.
LEMMA Walking ==
  ASSUME ListingInv, MayContinue
  PROVE  /\ Walks(handler) /\ handler \in HandlerSet /\ handler.state \in StateSet
         /\ StackOK(handler.state.stack) /\ handler.state.stack # <<>>
         /\ FrameOK(Top) /\ client.selection \in Selections
         /\ settled \subseteq Keys
  <1>1. handler # NoRequest
    BY DEF MayContinue, NoRequest
  <1>2. Walks(handler)
    BY <1>1 DEF ListingInv, HandlerInv
  <1>3. handler \in HandlerSet /\ handler.state \in StateSet /\ StackOK(handler.state.stack)
    BY <1>2 DEF Walks, Position
  <1>4. handler.state.stack # <<>>
    BY DEF MayContinue
  <1>5. FrameOK(Top)
    BY <1>3, <1>4, StackFront DEF Top
  <1> QED BY <1>2, <1>3, <1>4, <1>5 DEF ListingInv, ClientInv, HistoryInv, IndexInv, IndexShape

LEMMA ListNodeKeeps ==
  ASSUME ListingInv, ListNode
  PROVE  ListingInv'
  <1> DEFINE st == handler.state.stack
             sel == client.selection
  <1>1. /\ MayContinue /\ Top.pending = <<>>
        /\ UNCHANGED <<indexVars, clientVars, settled, listable>>
    BY DEF ListNode
  <1>2. /\ Walks(handler) /\ handler \in HandlerSet /\ handler.state \in StateSet
        /\ StackOK(st) /\ st # <<>> /\ sel \in Selections /\ Top = Last(st)
        /\ settled \subseteq Keys
    BY <1>1, Walking DEF Top
  <1>3. IndexShape
    BY DEF ListingInv, IndexInv
  <1>4. ASSUME NEW t, handler' = [handler EXCEPT !.state.stack = t], StackOK(t),
               \A k \in Keys : Ahead(t, k) => Ahead(st, k),
               \A k \in settled : Selected(k, sel) /\ Ahead(st, k) => Ahead(t, k)
        PROVE  ListingInv'
    <2>1. /\ handler' \in HandlerSet /\ handler'.visible = handler.visible
          /\ handler'.state = [handler.state EXCEPT !.stack = t]
      BY <1>2, <1>4 DEF HandlerSet, StateSet, StackOK
    <2>2. Walks(handler')
      BY <1>2, <1>4, <2>1, WalkMoves
    <2> QED BY <1>1, <2>2, WalkKeeps
  <1>5. CASE Top.complete
    <2>1. handler' = [handler EXCEPT !.state.stack = Front(st)]
      BY <1>5 DEF ListNode
    <2>2. Exhausted(Last(st))
      BY <1>1, <1>2, <1>5 DEF Exhausted
    <2>3. StackOK(Front(st)) /\ \A k : Ahead(st, k) <=> Ahead(Front(st), k)
      BY <1>2, <2>2, StackFront, FrameExhausted
    <2> QED BY <1>4, <2>1, <2>3
  <1>6. CASE ~Top.complete
    <2> DEFINE g == Listing(Top, sel)
               t == Append(Front(st), g)
    <2>1. handler' = [handler EXCEPT !.state.stack = t]
      BY <1>6 DEF ListNode, SetTop, Listing
    <2>2. /\ StackOK(t) /\ \A k \in Keys : Ahead(t, k) => Ahead(st, k)
          /\ \A k \in Keys : /\ k \in leaves /\ Trail(k) \subseteq branches
                             /\ Selected(k, sel) /\ Ahead(st, k)
                             => Ahead(t, k)
      BY <1>1, <1>2, <1>3, <1>6, StackListed
    <2> HIDE DEF t
    <2>3. \A k \in settled : Selected(k, sel) /\ Ahead(st, k) => Ahead(t, k)
      BY <2>2, SettledIndexed
    <2> QED BY <1>4, <2>1, <2>2, <2>3
  <1> QED BY <1>5, <1>6

\* The entry that a step takes off the top frame.
LEMMA ShiftedIs ==
  ASSUME ListingInv, MayContinue, Top.pending # <<>>
  PROVE  LET t == Append(Front(handler.state.stack), Shift(Top))
         IN  /\ Shifted = [handler EXCEPT !.state.stack = t, !.entries = handler.entries + 1]
             /\ StackOK(t) => /\ Shifted \in HandlerSet /\ Shifted.visible = handler.visible
                              /\ Shifted.state = [handler.state EXCEPT !.stack = t]
                              /\ Shifted.state \in StateSet /\ Shifted.state.stack = t
  <1> DEFINE t == Append(Front(handler.state.stack), Shift(Top))
  <1>1. handler \in HandlerSet /\ handler.state \in StateSet
    BY Walking
  <1>2. Shifted = [[handler EXCEPT !.state.stack = t] EXCEPT !.entries = handler.entries + 1]
    BY DEF Shifted, SetTop, NextEntry, Shift
  <1> HIDE DEF t
  <1>3. Shifted = [handler EXCEPT !.state.stack = t, !.entries = handler.entries + 1]
    BY <1>2
  <1>4. ASSUME StackOK(t)
        PROVE  /\ Shifted \in HandlerSet /\ Shifted.visible = handler.visible
               /\ Shifted.state = [handler.state EXCEPT !.stack = t]
               /\ Shifted.state \in StateSet /\ Shifted.state.stack = t
    <2> DEFINE a == [handler EXCEPT !.state.stack = t]
    <2>1. t \in Seq(FrameSet)
      BY <1>4 DEF StackOK
    <2>2. /\ a \in HandlerSet /\ a.visible = handler.visible
          /\ a.state = [handler.state EXCEPT !.stack = t]
          /\ a.state \in StateSet /\ a.state.stack = t
      BY <1>1, <2>1 DEF HandlerSet, StateSet
    <2> HIDE DEF a
    <2>3. Shifted = [a EXCEPT !.entries = handler.entries + 1] /\ handler.entries + 1 \in Int
      BY <1>1, <1>2 DEF HandlerSet, a
    <2> QED BY <2>2, <2>3 DEF HandlerSet
  <1> QED BY <1>3, <1>4 DEF t

LEMMA DescendKeeps ==
  ASSUME ListingInv, Descend
  PROVE  ListingInv'
  <1> DEFINE st == handler.state.stack
             u == Append(Front(st), Shift(Top))
             t == Append(u, Frame(Top.path \o NextEntry.token))
  <1>1. /\ MayContinue /\ Top.pending # <<>> /\ NextEntry.kind = Branch
        /\ handler' = [Shifted EXCEPT !.state.stack =
                          Append(Shifted.state.stack, Frame(Top.path \o NextEntry.token))]
        /\ UNCHANGED <<indexVars, clientVars, settled, listable>>
    BY DEF Descend
  <1>2. /\ Walks(handler) /\ handler \in HandlerSet /\ handler.state \in StateSet
        /\ StackOK(st) /\ st # <<>> /\ Top = Last(st) /\ NextEntry = Head(Last(st).pending)
        /\ FrameOK(Top)
    BY <1>1, Walking DEF Top, NextEntry
  <1>3. StackOK(t) /\ \A k \in Keys : Ahead(t, k) <=> Ahead(st, k)
    BY <1>1, <1>2, StackDescends
  <1>4. StackOK(u)
    <2>1. FrameOK(Shift(Top)) /\ \A k \in Keys : Has(Shift(Top), k) => Has(Last(st), k)
      BY <1>1, <1>2, FrameShifted DEF Shift
    <2> QED BY <1>2, <2>1, StackTop
  <1>5. /\ Shifted \in HandlerSet /\ Shifted.visible = handler.visible
        /\ Shifted.state = [handler.state EXCEPT !.stack = u]
        /\ Shifted.state \in StateSet /\ Shifted.state.stack = u
    BY <1>1, <1>4, ShiftedIs
  <1>6. handler' = [Shifted EXCEPT !.state.stack = t]
    BY <1>1, <1>5
  <1> HIDE DEF t, u
  <1>7. /\ handler' \in HandlerSet /\ handler'.visible = handler.visible
        /\ handler'.state = [handler.state EXCEPT !.stack = t]
    BY <1>2, <1>3, <1>5, <1>6 DEF HandlerSet, StateSet, StackOK
  <1>8. \A k \in settled : k \in Keys
    BY SettledIndexed
  <1>9. Walks(handler')
    BY <1>2, <1>3, <1>7, <1>8, WalkMoves
  <1> QED BY <1>1, <1>9, WalkKeeps

\* A key shorter than the prefix is not selected.
LEMMA ShortIsNotSelected ==
  ASSUME NEW sel \in Selections, NEW P \in Seq(Nat), NEW n \in Nat, NEW k \in Keys,
         Len(k) = Len(P) + n, Len(FilterFor(sel.prefix, P)) > n
  PROVE  ~Selected(k, sel)
  <1> DEFINE q == sel.prefix
  <1>1. q \in Seq(Nat) /\ Len(q) \in Nat /\ Len(P) \in Nat /\ k \in Seq(Nat) /\ Len(k) \in Nat
    BY SelectionAssumption, KeyFacts, LenProperties
  <1>2. Len(Drop(q, Len(P))) = IF Len(P) < Len(q) THEN Len(q) - Len(P) ELSE 0
    BY <1>1, DropProperties
  <1>3. Len(q) > Len(k)
    BY <1>1, <1>2 DEF FilterFor
  <1>4. ~IsPrefix(q, k)
    BY <1>1, <1>3, IsPrefixMeans
  <1> QED BY <1>4 DEF Selected

LEMMA VisitKeeps ==
  ASSUME ListingInv, Visit
  PROVE  ListingInv'
  <1> DEFINE st == handler.state.stack
             sel == client.selection
             u == Append(Front(st), Shift(Top))
             k == Top.path \o NextEntry.token
             short == Len(FilterFor(sel.prefix, Top.path)) > Len(NextEntry.token)
             L == received \o handler.visible
  <1>1. /\ MayContinue /\ Top.pending # <<>> /\ NextEntry.kind = Terminal
        /\ handler' = IF short THEN Shifted
                      ELSE IF Listed(k) THEN Accept(Consumed(Shifted), k)
                      ELSE Consumed(Shifted)
        /\ UNCHANGED <<indexVars, clientVars, settled, listable>>
    BY DEF Visit
  <1>2. /\ Walks(handler) /\ handler \in HandlerSet /\ handler.state \in StateSet
        /\ StackOK(st) /\ st # <<>> /\ Top = Last(st) /\ NextEntry = Head(Last(st).pending)
        /\ FrameOK(Top) /\ sel \in Selections /\ settled \subseteq Keys
    BY <1>1, Walking DEF Top, NextEntry
  <1>3. /\ k \in Keys /\ Ahead(st, k) /\ StackOK(u)
        /\ Len(k) = Len(Top.path) + Len(NextEntry.token)
        /\ \A l \in Keys : Ahead(u, l) => Ahead(st, l) /\ Before(k, l)
        /\ \A l \in Keys : Ahead(st, l) => Ahead(u, l) \/ l = k
    BY <1>1, <1>2, StackVisits
  <1>4. /\ Shifted \in HandlerSet /\ Shifted.visible = handler.visible
        /\ Shifted.state = [handler.state EXCEPT !.stack = u]
        /\ Shifted.state \in StateSet /\ Shifted.state.stack = u
    BY <1>1, <1>3, ShiftedIs
  <1> HIDE DEF u
  <1>5. Top.path \in Seq(Nat) /\ Len(NextEntry.token) \in Nat
    <2>1. NextEntry \in EntriesAt(Top.path)
      BY <1>1, <1>2, FrameShifted
    <2>2. NextEntry.token \in Seq(Nat)
      BY <2>1, EntryTyped DEF EntrySet
    <2> QED BY <1>2, <2>2, LenProperties DEF FrameOK, FrameSet
  <1> HIDE DEF k
  <1>6. CASE short
    <2>1. ~Selected(k, sel)
      BY <1>2, <1>3, <1>5, <1>6, ShortIsNotSelected
    <2>2. \A l \in settled : Selected(l, sel) /\ Ahead(st, l) => Ahead(u, l)
      BY <1>2, <1>3, <2>1
    <2>3. Walks(Shifted)
      BY <1>2, <1>3, <1>4, <2>2, WalkMoves
    <2> QED BY <1>1, <1>6, <2>3, WalkKeeps
  <1> DEFINE t == PopExhausted(u)
             c == Consumed(Shifted)
  <1>7. /\ StackOK(t)
        /\ \A l \in Keys : Ahead(t, l) => Ahead(st, l) /\ Before(k, l)
        /\ \A l \in Keys : Ahead(st, l) => Ahead(t, l) \/ l = k
    BY <1>3, StackPop
  <1>8. c = [Shifted EXCEPT !.state.stack = t]
    BY <1>4 DEF Consumed
  <1> HIDE DEF t, c
  <1>9. /\ c \in HandlerSet /\ c.visible = handler.visible /\ c.state \in StateSet
        /\ c.state.stack = t /\ c.state.lastGroup = handler.state.lastGroup
        /\ c.state = [handler.state EXCEPT !.stack = t]
    BY <1>2, <1>4, <1>7, <1>8 DEF HandlerSet, StateSet, StackOK
  <1>10. CASE ~short /\ ~Listed(k)
    <2>1. \A l \in settled : Selected(l, sel) => l # k
      BY <1>10, SettledIndexed DEF Listed
    <2>2. \A l \in settled : Selected(l, sel) /\ Ahead(st, l) => Ahead(t, l)
      BY <1>2, <1>7, <2>1
    <2>3. Walks(c)
      BY <1>2, <1>7, <1>9, <2>2, WalkMoves
    <2> QED BY <1>1, <1>10, <2>3, WalkKeeps DEF c
  <1>11. CASE ~short /\ Listed(k)
    <2> DEFINE G == GroupForKey(k, sel)
               h == Accept(c, k)
    <2>1. k \in listable /\ Selected(k, sel)
      BY <1>3, <1>11 DEF Listed, ListingInv, HistoryInv
    <2>2. /\ received \in Seq(Seq(Nat)) /\ handler.visible \in Seq(Seq(Nat))
          /\ Sound(L, sel, listable) /\ Position(handler.state, L, sel, settled)
          /\ client.at \in {"start", "cursor"}
      BY <1>2 DEF Walks, ListingInv, ClientInv, Sound, HandlerSet
    <2>3. G \in Seq(Nat)
      BY <1>2, <1>3, GroupOf
    <2>4. /\ IsGroup(k, sel) /\ handler.state.lastGroup = G => h = c
          /\ ~(IsGroup(k, sel) /\ handler.state.lastGroup = G) =>
                h = [Result(c, G) EXCEPT !.state.lastGroup = IF IsGroup(k, sel) THEN G ELSE NULL]
      BY <1>9 DEF Accept
    <2> HIDE DEF h
    <2>5. handler' = h
      BY <1>1, <1>11 DEF h, c
    <2> HIDE DEF G
    <2>6. CASE IsGroup(k, sel) /\ handler.state.lastGroup = G
      <3>1. h = c
        BY <2>4, <2>6
      <3>4. Repeats(k, handler.state, sel) /\ c.state.lastGroup = handler.state.lastGroup
        BY <1>9, <2>6 DEF Repeats, G
      <3>2. Position(c.state, L, sel, settled) /\ Sound(L, sel, listable)
        BY <1>2, <1>3, <1>7, <1>9, <2>1, <2>2, <3>4, PositionAccepts
      <3>3. Walks(h)
        BY <1>9, <2>2, <3>1, <3>2 DEF Walks
      <3> QED BY <1>1, <2>5, <3>3, WalkKeeps
    <2>7. CASE ~(IsGroup(k, sel) /\ handler.state.lastGroup = G)
      <3> DEFINE lg == IF IsGroup(k, sel) THEN G ELSE NULL
                 v == IF Shows(sel, G) THEN Append(handler.visible, G) ELSE handler.visible
                 M == IF Shows(sel, G) THEN Append(L, G) ELSE L
      <3>1. lg \in Seq(Nat) \cup {NULL} /\ v \in Seq(Seq(Nat))
        BY <2>2, <2>3, AppendProperties
      <3> DEFINE r == Result(c, G)
      <3>2. /\ h = [r EXCEPT !.state.lastGroup = lg]
            /\ r = [c EXCEPT !.limit = c.limit - 1, !.visible =
                       IF Shows(sel, G) THEN Append(c.visible, G) ELSE c.visible]
        BY <2>4, <2>7 DEF Result
      <3>3. M = received \o v
        <4>1. CASE Shows(sel, G)
          <5>1. received \in Seq(Seq(Nat)) /\ handler.visible \in Seq(Seq(Nat)) /\ G \in Seq(Nat)
            BY <2>2, <2>3
          <5>2. AppendsLast(received, handler.visible, G)
            BY <5>1, AppendLast
          <5> QED BY <4>1, <5>2 DEF AppendsLast
        <4>2. CASE ~Shows(sel, G)
          BY <4>2
        <4> QED BY <4>1, <4>2
      <3>7. r = [c EXCEPT !.limit = c.limit - 1, !.visible = v] /\ c.limit - 1 \in Int
        BY <1>9, <3>2 DEF HandlerSet
      <3> HIDE DEF v, r, lg
      <3>8. r \in HandlerSet /\ r.visible = v /\ r.state = c.state
        BY <1>9, <3>1, <3>7 DEF HandlerSet
      <3>4. /\ h \in HandlerSet /\ h.visible = v /\ h.state \in StateSet
            /\ h.state.stack = t /\ h.state.lastGroup = lg
        BY <1>9, <3>1, <3>2, <3>8 DEF HandlerSet, StateSet
      <3>5. Position(h.state, M, sel, settled) /\ Sound(M, sel, listable)
        <4>1. ~Repeats(k, handler.state, sel) /\ M = Extended(L, k, sel)
          BY <2>7 DEF Repeats, Extended, G
        <4>2. h.state.lastGroup = IF IsGroup(k, sel) THEN GroupForKey(k, sel) ELSE NULL
          BY <3>4 DEF lg, G
        <4>3. Position(handler.state, L, sel, settled) /\ Sound(L, sel, listable)
          BY <2>2
        <4>4. h.state \in StateSet /\ h.state.stack = t
          BY <3>4
        <4> HIDE DEF L, M
        <4> QED BY <1>2, <1>3, <1>7, <2>1, <4>1, <4>2, <4>3, <4>4, PositionAccepts
      <3>6. Walks(h)
        BY <2>2, <3>3, <3>4, <3>5 DEF Walks
      <3> QED BY <1>1, <2>5, <3>6, WalkKeeps
    <2> QED BY <2>6, <2>7
  <1> QED BY <1>6, <1>10, <1>11

\* The page is over, and its position without exhausted frames.
LEMMA ContinuationIs ==
  ASSUME ListingInv, handler.pc = "walk"
  PROVE  /\ Walks(handler) /\ handler \in HandlerSet
         /\ Position(Continuation(handler.state), received \o handler.visible,
                     client.selection, settled)
  <1>1. handler # NoRequest
    BY DEF NoRequest
  <1>2. Walks(handler)
    BY <1>1 DEF ListingInv, HandlerInv
  <1>3. settled \subseteq Keys
    BY SettledIndexed
  <1> QED BY <1>2, <1>3, PositionPops DEF Walks, Continuation

LEMMA NextSourceKeeps ==
  ASSUME ListingInv, NextSource
  PROVE  ListingInv'
  <1> DEFINE s == Continuation(handler.state)
  <1>1. /\ handler.pc = "walk" /\ WantsSource
        /\ handler' = [pc |-> "walk", state |-> s, entries |-> 0,
                       limit |-> Limit - Len(handler.visible),
                       visible |-> handler.visible, sources |-> handler.sources + 1]
        /\ UNCHANGED <<indexVars, clientVars, settled, listable>>
    BY DEF NextSource
  <1>2. /\ Walks(handler) /\ handler \in HandlerSet
        /\ Position(s, received \o handler.visible, client.selection, settled)
    BY <1>1, ContinuationIs
  <1> HIDE DEF s
  <1>3. s \in StateSet /\ Len(handler.visible) \in Nat
    <2>1. handler.visible \in Seq(Seq(Nat))
      BY <1>2 DEF HandlerSet
    <2> QED BY <1>2, <2>1, LenProperties DEF Position
  <1>4. handler' \in HandlerSet /\ handler'.state = s /\ handler'.visible = handler.visible
    <2>1. Limit - Len(handler.visible) \in Int /\ handler.sources + 1 \in Int /\ 0 \in Int
      BY <1>2, <1>3, Sizes DEF HandlerSet
    <2> QED BY <1>1, <1>2, <1>3, <2>1 DEF HandlerSet
  <1>5. Walks(handler')
    BY <1>2, <1>4 DEF Walks
  <1> QED BY <1>1, <1>5, WalkKeeps

\* Steps after which no request runs.
LEMMA IdleKeeps ==
  ASSUME ListingInv, handler' = NoRequest, UNCHANGED <<indexVars, clientVars, settled, listable>>
  PROVE  ListingInv'
  <1>1. UNCHANGED <<manifest, leaves, branches, step, cursor, client, received, settled, listable>>
    BY DEF indexVars, clientVars
  <1>2. IndexInv' /\ HistoryInv' /\ ClientInv'
    BY <1>1 DEF ListingInv, IndexInv, IndexShape, HistoryInv, ClientInv
  <1>3. HandlerInv'
    BY DEF HandlerInv, NoRequest
  <1> QED BY <1>2, <1>3 DEF ListingInv

LEMMA EndPageKeeps ==
  ASSUME ListingInv, EndPage
  PROVE  ListingInv'
  <1> DEFINE left == Continuation(handler.state)
             L == received \o handler.visible
  <1>1. /\ handler.pc = "walk" /\ handler' = NoRequest
        /\ UNCHANGED <<indexVars, settled, listable>>
    BY DEF EndPage
  <1>2. CASE /\ received' = L
             /\ client' = [client EXCEPT !.at = IF left.stack = <<>> THEN "done" ELSE "cursor"]
             /\ cursor' = left
    <2>1. Walks(handler) /\ Position(left, L, client.selection, settled)
      BY <1>1, ContinuationIs
    <2> HIDE DEF left
    <2>2. Sound(L, client.selection, listable)
      BY <2>1 DEF Walks
    <2> HIDE DEF L
    <2>3. /\ client' \in [selection : Selections, at : {"start", "cursor", "expired", "done"}]
          /\ client'.selection = client.selection
          /\ client'.at = IF left.stack = <<>> THEN "done" ELSE "cursor"
      BY <1>2 DEF ListingInv, ClientInv
    <2>4. left.stack = <<>> => Complete(L, client.selection, settled)
      BY <2>1, PositionEnds
    <2>5. UNCHANGED <<manifest, leaves, branches, step, settled, listable>>
      BY <1>1 DEF indexVars
    <2>6. ClientInv'
      BY <1>2, <2>1, <2>2, <2>3, <2>4, <2>5 DEF ClientInv
    <2>7. IndexInv' /\ HistoryInv'
      BY <2>5 DEF ListingInv, IndexInv, IndexShape, HistoryInv
    <2>8. HandlerInv'
      BY <1>1 DEF HandlerInv, NoRequest
    <2> QED BY <2>6, <2>7, <2>8 DEF ListingInv
  <1>3. CASE UNCHANGED clientVars
    BY <1>1, <1>3, IdleKeeps
  <1> QED BY <1>2, <1>3 DEF EndPage

LEMMA RequestFailsKeeps ==
  ASSUME ListingInv, RequestFails
  PROVE  ListingInv'
  BY IdleKeeps DEF RequestFails

LEMMA CursorExpiresKeeps ==
  ASSUME ListingInv, CursorExpires
  PROVE  ListingInv'
  <1>1. /\ client' = [client EXCEPT !.at = "expired"] /\ handler = NoRequest
        /\ UNCHANGED <<manifest, leaves, branches, step, received, handler, settled, listable>>
    BY DEF CursorExpires, indexVars
  <1>2. /\ client' \in [selection : Selections, at : {"start", "cursor", "expired", "done"}]
        /\ client'.selection = client.selection /\ client'.at = "expired"
    BY <1>1 DEF ListingInv, ClientInv
  <1>3. ClientInv'
    BY <1>1, <1>2 DEF ListingInv, ClientInv
  <1>4. IndexInv' /\ HistoryInv'
    BY <1>1 DEF ListingInv, IndexInv, IndexShape, HistoryInv
  <1>5. HandlerInv'
    BY <1>1 DEF HandlerInv, NoRequest
  <1> QED BY <1>3, <1>4, <1>5 DEF ListingInv

LEMMA ListAgainKeeps ==
  ASSUME ListingInv, ListAgain
  PROVE  ListingInv'
  <1>1. /\ client' = [client EXCEPT !.at = "start"] /\ handler = NoRequest /\ received' = <<>>
        /\ settled' = {k \in leaves : manifest[k] = "active"}
        /\ listable' = {k \in Keys : manifest[k] = "active"}
        /\ UNCHANGED <<manifest, leaves, branches, step, handler>>
    BY DEF ListAgain, indexVars
  <1>2. /\ client' \in [selection : Selections, at : {"start", "cursor", "expired", "done"}]
        /\ client'.selection = client.selection /\ client'.at = "start"
    BY <1>1 DEF ListingInv, ClientInv
  <1>3. <<>> \in Seq(Seq(Nat)) /\ Len(<<>>) = 0
    BY EmptySeq
  <1>4. ClientInv'
    BY <1>1, <1>2, <1>3 DEF ClientInv, Sound
  <1>5. IndexInv'
    BY <1>1 DEF ListingInv, IndexInv, IndexShape
  <1>6. HistoryInv'
    BY <1>1 DEF HistoryInv
  <1>7. HandlerInv'
    BY <1>1 DEF HandlerInv, NoRequest
  <1> QED BY <1>4, <1>5, <1>6, <1>7 DEF ListingInv

LEMMA StutterKeeps ==
  ASSUME ListingInv, UNCHANGED vars
  PROVE  ListingInv'
  <1>1. UNCHANGED <<manifest, leaves, branches, step, cursor, client, received, handler,
                    settled, listable>>
    BY DEF vars, indexVars, clientVars
  <1>2. IndexInv' /\ HistoryInv' /\ ClientInv'
    BY <1>1 DEF ListingInv, IndexInv, IndexShape, HistoryInv, ClientInv
  <1>3. HandlerInv'
    BY <1>1 DEF ListingInv, HandlerInv, NoRequest, Walks
  <1> QED BY <1>2, <1>3 DEF ListingInv

LEMMA InvStep ==
  ASSUME ListingInv, [Next]_vars
  PROVE  ListingInv'
  <1>1. CASE \E k \in Keys : \/ \E state \in {"active", "deleted"} : Commit(k, state)
                             \/ MaterializeBranches(k)
                             \/ MaterializeLeaf(k)
                             \/ Abandon(k)
    BY <1>1, CommitKeeps, BranchesKeep, LeafKeeps, AbandonKeeps
  <1>2. CASE Serve
    BY <1>2, StartKeeps, ListNodeKeeps, DescendKeeps, VisitKeeps, NextSourceKeeps, EndPageKeeps,
       ListAgainKeeps DEF Serve
  <1>3. CASE RequestFails
    BY <1>3, RequestFailsKeeps
  <1>4. CASE CursorExpires
    BY <1>4, CursorExpiresKeeps
  <1>5. CASE UNCHANGED vars
    BY <1>5, StutterKeeps
  <1> QED BY <1>1, <1>2, <1>3, <1>4, <1>5 DEF Next

\* The inductive invariant of the index, the history, the client and the page under way.
THEOREM ListingInvHolds == Spec => []ListingInv
  <1>1. Init => ListingInv
    BY InvInit
  <1>2. ListingInv /\ [Next]_vars => ListingInv'
    BY InvStep
  <1> QED BY <1>1, <1>2, PTL DEF Spec

-----------------------------------------------------------------------------
(* The promises of a listing *)

\* Every result is a key that was active during the listing, or the common prefix of one: a
\* page reads the manifest behind each leaf, and a handler holds no result from before the
\* listing began (walkObjects and listObjects of object-list-index.js).
THEOREM NothingDeadListedHolds == Spec => []NothingDeadListed
  <1>1. ListingInv => NothingDeadListed
    <2> SUFFICES ASSUME ListingInv PROVE NothingDeadListed
      OBVIOUS
    <2>1. /\ received \in Seq(Seq(Nat))
          /\ \A i \in 1 .. Len(received) : \E k \in listable :
                received[i] = GroupForKey(k, client.selection)
      BY DEF ListingInv, ClientInv, Sound
    <2>2. DOMAIN received = 1 .. Len(received)
      BY <2>1, LenProperties
    <2> QED BY <2>1, <2>2 DEF NothingDeadListed
  <1> QED BY <1>1, ListingInvHolds, PTL

\* The pages of a listing are in the order of the keys, with nothing twice, and a listing
\* that ended has every selected object that was there all the time, for any keys and sizes
\* of chunks, pages and budgets, and whatever is written or fails between two steps: the
\* stored stack and last common prefix are a position in the order of the keys which what
\* was listed is before, and what is owed is after (cursorStateFor, storeContinuation).
THEOREM StableListedInOrderHolds == Spec => []StableListedInOrder
  <1>1. ListingInv => StableListedInOrder
    <2> SUFFICES ASSUME ListingInv PROVE StableListedInOrder
      OBVIOUS
    <2>1. /\ received \in Seq(Seq(Nat))
          /\ \A i \in 1 .. Len(received) : Shows(client.selection, received[i])
          /\ \A i, j \in 1 .. Len(received) : i < j => Before(received[i], received[j])
      BY DEF ListingInv, ClientInv, Sound
    <2>2. DOMAIN received = 1 .. Len(received)
      BY <2>1, LenProperties
    <2>3. Done => Complete(received, client.selection, settled)
      BY DEF ListingInv, ClientInv, Done
    <2> QED BY <2>1, <2>2, <2>3 DEF StableListedInOrder, Complete, In
  <1> QED BY <1>1, ListingInvHolds, PTL

=============================================================================
