------------------------- MODULE ProfileSweepProofs -------------------------
(***************************************************************************)
(* Theorems about ProfileSweep, for any number of people, every assignment *)
(* of priorities, vector size and budget, and any number of changes and    *)
(* stops: its types, that a triage hears everyone, that only a proven dead *)
(* reference is held back, that nobody is overtaken in the rotation and    *)
(* that a pass is called complete only when it is.                         *)
(***************************************************************************)
EXTENDS ProfileSweep, FiniteSetTheorems, SequenceTheorems, TLAPS,
        WellFoundedInduction

-----------------------------------------------------------------------------
(* A function to the naturals takes a least value, on any nonempty set.     *)
LEMMA LeastExists ==
    ASSUME NEW S, S # {}, NEW f \in [S -> Nat]
    PROVE  \E x \in S : \A y \in S : f[x] <= f[y]
<1> DEFINE T == {f[x] : x \in S}
<1>1. T \subseteq Nat /\ T # {}
  OBVIOUS
<1>2. PICK t \in T : \A u \in T : ~(<<u, t>> \in OpToRel(<, Nat))
  BY <1>1, NatLessThanWellFounded, WFMin
<1>3. PICK x \in S : t = f[x]
  BY <1>2
<1>4. ASSUME NEW y \in S PROVE f[x] <= f[y]
  <2>1. f[y] \in T /\ f[x] \in T /\ f[x] \in Nat /\ f[y] \in Nat
    OBVIOUS
  <2>2. ~(<<f[y], f[x]>> \in OpToRel(<, Nat))
    BY <1>2, <1>3, <2>1
  <2>3. ~(f[y] < f[x])
    BY <2>1, <2>2 DEF OpToRel
  <2> QED BY <2>1, <2>3
<1> QED BY <1>4

(* Division as it is used to cut the candidates into vectors.               *)
LEMMA Quotient ==
    ASSUME NEW a \in Nat, NEW b \in Nat \ {0}
    PROVE  a \div b \in Nat /\ (a \div b) * b <= a /\ a < (a \div b) * b + b
BY SMT

LEMMA Middle ==
    ASSUME NEW n \in Nat \ {0}, n # 1
    PROVE  n \div 2 \in 1..(n - 1)
<1>1. n \div 2 \in Nat /\ (n \div 2) * 2 <= n /\ n < (n \div 2) * 2 + 2
  BY Quotient
<1> QED BY <1>1

(* Closing the gap a stamp leaves keeps stamps apart.                       *)
LEMMA GapsClose ==
    ASSUME NEW s \in Nat, NEW a \in Nat, NEW b \in Nat,
           a = s => a = 0, b = s => b = 0,
           (IF 0 < s /\ s < a THEN a - 1 ELSE a) = (IF 0 < s /\ s < b THEN b - 1 ELSE b)
    PROVE  a = b
BY SMT

LEMMA UsersAreNumbers == Users \subseteq Int
BY ProfileAssumption DEF Users

(* People are finitely many.                                                *)
LEMMA UsersAreFinite ==
    ASSUME NEW S, S \subseteq Users
    PROVE  IsFiniteSet(S) /\ Cardinality(S) \in 0..N
<1>1. IsFiniteSet(Users) /\ Cardinality(Users) = N
  BY ProfileAssumption, FS_Interval DEF Users
<1>2. IsFiniteSet(S) /\ Cardinality(S) <= N
  BY <1>1, FS_Subset
<1>3. Cardinality(S) \in Nat
  BY <1>2, FS_CardinalityType
<1> QED BY <1>2, <1>3, ProfileAssumption

-----------------------------------------------------------------------------
(* Any set of people can be put in uri order: what InOrder chooses exists,  *)
(* and it leaves nobody out.                                                *)
LEMMA OrderExists ==
    ASSUME NEW S \in SUBSET Users
    PROVE  \E q \in [1..Cardinality(S) -> S] : \A i, j \in DOMAIN q : i < j => q[i] < q[j]
<1> DEFINE Ordered(T) == \E q \in [1..Cardinality(T) -> T] :
                             \A i, j \in DOMAIN q : i < j => q[i] < q[j]
           Bad == {T \in SUBSET Users : ~Ordered(T)}
<1> SUFFICES ASSUME Bad # {} PROVE FALSE
  OBVIOUS
<1>1. PICK T \in Bad : \A U \in Bad : Cardinality(T) <= Cardinality(U)
  <2> DEFINE f == [U \in Bad |-> Cardinality(U)]
  <2>1. f \in [Bad -> Nat]
    BY UsersAreFinite
  <2>2. PICK T \in Bad : \A U \in Bad : f[T] <= f[U]
    BY <2>1, LeastExists
  <2> QED BY <2>2
<1>2. T \subseteq Users /\ IsFiniteSet(T) /\ Cardinality(T) \in Nat /\ ~Ordered(T)
  BY UsersAreFinite
<1> DEFINE n == Cardinality(T)
<1>3. T # {}
  <2> SUFFICES ASSUME T = {} PROVE FALSE
    OBVIOUS
  <2>1. Cardinality(T) = 0
    BY FS_EmptySet
  <2>2. <<>> \in [1..0 -> T]
    OBVIOUS
  <2>3. <<>> \in [1..Cardinality(T) -> T]
    BY <2>1, <2>2
  <2>4. \A i, j \in DOMAIN <<>> : i < j => <<>>[i] < <<>>[j]
    OBVIOUS
  <2>5. Ordered(T)
    BY <2>3, <2>4
  <2> QED BY <1>2, <2>5
<1>4. PICK m \in T : \A u \in T : u <= m
  <2> DEFINE f == [u \in T |-> N - u]
  <2>1. \A u \in T : u \in Int /\ N - u \in Nat
    BY <1>2, ProfileAssumption DEF Users
  <2>2. PICK m \in T : \A u \in T : f[m] <= f[u]
    BY <1>3, <2>1, LeastExists
  <2> QED BY <2>1, <2>2, ProfileAssumption
<1> DEFINE R == T \ {m}
<1>5. Cardinality(R) = n - 1 /\ n - 1 \in Nat
  <2>1. Cardinality(R) = n - 1
    BY <1>2, FS_RemoveElement
  <2>2. Cardinality(R) \in Nat
    BY <1>2, UsersAreFinite
  <2> QED BY <2>1, <2>2
<1>6. Ordered(R)
  <2>1. R \notin Bad
    <3> SUFFICES ASSUME R \in Bad PROVE FALSE
      OBVIOUS
    <3> HIDE DEF Bad, R
    <3>1. Cardinality(T) <= Cardinality(R)
      BY <1>1
    <3> QED BY <1>2, <1>5, <3>1
  <2>2. R \in SUBSET Users
    BY <1>2
  <2> QED BY <2>1, <2>2
<1>7. PICK q \in [1..(n - 1) -> R] : \A i, j \in DOMAIN q : i < j => q[i] < q[j]
  BY <1>5, <1>6
<1> DEFINE p == [i \in 1..n |-> IF i = n THEN m ELSE q[i]]
<1>8. p \in [1..n -> T]
  <2>1. ASSUME NEW i \in 1..n, i # n PROVE q[i] \in T
    <3>1. i \in 1..(n - 1)
      BY <1>2, <2>1
    <3> QED BY <1>7, <3>1
  <2> QED BY <2>1
<1>9. ASSUME NEW i \in 1..n, NEW j \in 1..n, i < j PROVE p[i] < p[j]
  <2>1. i \in 1..(n - 1) /\ i # n
    BY <1>2, <1>9
  <2>2. q[i] \in R /\ p[i] = q[i]
    BY <1>7, <2>1
  <2>3. CASE j = n
    <3>1. q[i] \in T /\ q[i] # m /\ q[i] <= m
      BY <1>4, <2>2
    <3>2. q[i] \in Int /\ m \in Int
      BY <1>2, <3>1, UsersAreNumbers
    <3>3. p[j] = m
      BY <2>3
    <3> QED BY <2>2, <3>1, <3>2, <3>3
  <2>4. CASE j # n
    <3>1. j \in 1..(n - 1)
      BY <1>2, <2>4
    <3> QED BY <1>7, <1>9, <2>1, <2>2, <2>4, <3>1
  <2> QED BY <2>3, <2>4
<1>10. Ordered(T)
  BY <1>8, <1>9
<1> QED BY <1>2, <1>10

LEMMA InOrderWorks ==
    ASSUME NEW S \in SUBSET Users
    PROVE  InOrder(S) \in Seq(Users) /\ InVector(InOrder(S)) = S
<1> DEFINE q == InOrder(S)
           n == Cardinality(S)
<1>1. q \in [1..n -> S] /\ \A i, j \in DOMAIN q : i < j => q[i] < q[j]
  BY OrderExists DEF InOrder
<1>2. IsFiniteSet(S) /\ n \in Nat
  BY UsersAreFinite
<1> HIDE DEF q
<1>3. q \in Injection(1..n, S)
  <2>1. ASSUME NEW i \in 1..n, NEW j \in 1..n, q[i] = q[j] PROVE i = j
    <3>1. q[i] \in S /\ q[j] \in S
      BY <1>1
    <3>2. q[i] \in Int /\ q[j] \in Int
      BY <3>1, UsersAreNumbers
    <3>3. ~(q[i] < q[j]) /\ ~(q[j] < q[i])
      BY <2>1, <3>2
    <3>4. ~(i < j) /\ ~(j < i)
      BY <1>1, <3>3
    <3> QED BY <1>2, <3>4
  <2> QED BY <1>1, <2>1 DEF Injection, IsInjective
<1>4. Cardinality(1..n) = n
  BY <1>2, FS_Interval
<1>5. q \in Surjection(1..n, S)
  BY <1>2, <1>3, <1>4, FS_Injection
<1>6. q \in Seq(Users) /\ Len(q) = n
  BY <1>1, <1>2
<1>7. {q[i] : i \in 1..n} = S
  BY <1>1, <1>5 DEF Surjection
<1> QED BY <1>6, <1>7 DEF InVector, q

-----------------------------------------------------------------------------
(* Cutting into vectors loses nobody and makes no empty vector.             *)
LEMMA ChunksWork ==
    ASSUME NEW q \in Seq(Users)
    PROVE  /\ Chunks(q) \in Seq(Seq(Users) \ {<<>>})
           /\ InVector(q) \subseteq InVectors(Chunks(q))
<1> DEFINE L == Len(q)
           K == (L + Batch - 1) \div Batch
           top(k) == IF k * Batch < L THEN k * Batch ELSE L
           part(k) == SubSeq(q, (k - 1) * Batch + 1, top(k))
<1>1. L \in Nat /\ Batch \in Nat \ {0} /\ L + Batch - 1 \in Nat
  BY ProfileAssumption
<1>2. K \in Nat /\ K * Batch <= L + Batch - 1
  BY <1>1, Quotient
<1>3. ASSUME NEW k \in 1..K PROVE (k - 1) * Batch + 1 <= L /\ (k - 1) * Batch \in Nat
                                  /\ k * Batch = (k - 1) * Batch + Batch
  <2>1. k * Batch <= K * Batch
    BY <1>1, <1>2
  <2>2. k * Batch = (k - 1) * Batch + Batch
    BY <1>1
  <2>3. (k - 1) * Batch \in Nat
    BY <1>1
  <2> HIDE DEF L, K
  <2>4. k * Batch \in Nat /\ K * Batch \in Nat
    BY <1>1, <1>2
  <2> QED BY <1>1, <1>2, <2>1, <2>2, <2>3, <2>4
<1>4. ASSUME NEW k \in 1..K
      PROVE  /\ part(k) \in Seq(Users) \ {<<>>}
             /\ Len(part(k)) = top(k) - (k - 1) * Batch
             /\ \A i \in 1..Len(part(k)) : part(k)[i] = q[(k - 1) * Batch + i]
  <2> DEFINE a == (k - 1) * Batch
             b == top(k)
  <2>1. a \in Nat /\ b \in Nat /\ a + 1 <= b /\ b <= L
    BY <1>1, <1>3
  <2> HIDE DEF a, b
  <2>2. \A i \in (a + 1)..b : q[i] \in Users
    BY <1>1, <2>1
  <2>3. /\ SubSeq(q, a + 1, b) \in Seq(Users)
        /\ Len(SubSeq(q, a + 1, b)) = b - a
        /\ \A i \in 1..(b - a) : SubSeq(q, a + 1, b)[i] = q[a + i]
    <3>1. /\ SubSeq(q, a + 1, b) \in Seq(Users)
          /\ Len(SubSeq(q, a + 1, b)) = b - (a + 1) + 1
          /\ \A i \in 1..(b - (a + 1) + 1) : SubSeq(q, a + 1, b)[i] = q[(a + 1) + i - 1]
      BY <2>1, <2>2, SubSeqProperties
    <3>2. b - (a + 1) + 1 = b - a /\ \A i \in 1..(b - a) : (a + 1) + i - 1 = a + i
      BY <2>1
    <3> QED BY <3>1, <3>2
  <2>4. SubSeq(q, a + 1, b) # <<>>
    BY <2>1, <2>3
  <2> QED BY <2>3, <2>4 DEF a, b
<1>5. Chunks(q) = [k \in 1..K |-> part(k)]
  BY DEF Chunks
<1> HIDE DEF K, L, part, top
<1>6. Chunks(q) \in [1..K -> Seq(Users) \ {<<>>}]
  BY <1>4, <1>5
<1>7. Chunks(q) \in Seq(Seq(Users) \ {<<>>}) /\ Len(Chunks(q)) = K
  BY <1>2, <1>6
<1>8. ASSUME NEW i \in 1..L
      PROVE  \E k \in 1..K : \E j \in 1..Len(part(k)) : part(k)[j] = q[i]
  <2> DEFINE d == (i - 1) \div Batch
  <2>1. i - 1 \in Nat /\ i - 1 < L
    BY <1>1
  <2>2. d \in Nat /\ d * Batch <= i - 1 /\ i - 1 < d * Batch + Batch
    BY <1>1, <2>1, Quotient
  <2> HIDE DEF d
  <2>3. (d + 1) * Batch = d * Batch + Batch /\ d * Batch \in Nat
    BY <1>1, <2>2
  <2>4. d + 1 <= K
    <3> SUFFICES ASSUME K <= d PROVE FALSE
      BY <1>2, <2>2
    <3>1. K * Batch <= d * Batch /\ K * Batch \in Nat
      BY <1>1, <1>2, <2>2
    <3>2. L + Batch - 1 < K * Batch + Batch
      BY <1>1, Quotient DEF K
    <3> QED BY <1>1, <2>1, <2>2, <2>3, <3>1, <3>2
  <2>5. d + 1 \in 1..K
    BY <1>2, <2>2, <2>4
  <2>6. /\ Len(part(d + 1)) = top(d + 1) - d * Batch
        /\ \A j \in 1..Len(part(d + 1)) : part(d + 1)[j] = q[d * Batch + j]
    <3>1. (d + 1) - 1 = d
      BY <2>2
    <3> QED BY <1>4, <2>5, <3>1
  <2>7. i - d * Batch \in 1..(top(d + 1) - d * Batch)
    BY <1>1, <2>1, <2>2, <2>3 DEF top
  <2>8. part(d + 1)[i - d * Batch] = q[i]
    <3>1. d * Batch + (i - d * Batch) = i
      BY <2>3
    <3> QED BY <2>6, <2>7, <3>1
  <2> QED BY <2>5, <2>6, <2>7, <2>8
<1>9. ASSUME NEW u \in InVector(q)
      PROVE  \E k \in 1..Len(Chunks(q)) : u \in InVector(Chunks(q)[k])
  <2>1. PICK i \in 1..L : u = q[i]
    BY DEF InVector, L
  <2>2. PICK k \in 1..K : \E j \in 1..Len(part(k)) : part(k)[j] = q[i]
    BY <1>8
  <2>3. k \in 1..Len(Chunks(q)) /\ Chunks(q)[k] = part(k)
    BY <1>5, <1>7
  <2>4. u \in InVector(part(k))
    BY <2>1, <2>2 DEF InVector
  <2> QED BY <2>3, <2>4
<1> QED BY <1>7, <1>9 DEF InVectors

(* Taking the first vector off, and putting others in front.                *)
LEMMA FirstVector ==
    ASSUME NEW b \in Seq(Seq(Users) \ {<<>>}), b # <<>>
    PROVE  /\ Head(b) \in Seq(Users) \ {<<>>}
           /\ Tail(b) \in Seq(Seq(Users) \ {<<>>})
           /\ InVectors(b) \subseteq InVector(Head(b)) \cup InVectors(Tail(b))
<1>1. /\ Head(b) \in Seq(Users) \ {<<>>} /\ Tail(b) \in Seq(Seq(Users) \ {<<>>})
      /\ Len(b) \in Nat /\ Len(Tail(b)) = Len(b) - 1 /\ Head(b) = b[1]
      /\ \A i \in 1..Len(Tail(b)) : Tail(b)[i] = b[i + 1]
  BY HeadTailProperties
<1>2. ASSUME NEW k \in 1..Len(b), k # 1
      PROVE  InVector(b[k]) \subseteq InVectors(Tail(b))
  <2>1. k - 1 \in 1..Len(Tail(b)) /\ (k - 1) + 1 = k
    BY <1>1, <1>2
  <2>2. Tail(b)[k - 1] = b[k]
    BY <1>1, <2>1
  <2> QED BY <2>1, <2>2 DEF InVectors
<1>3. InVectors(b) \subseteq InVector(Head(b)) \cup InVectors(Tail(b))
  BY <1>1, <1>2 DEF InVectors
<1> QED BY <1>1, <1>3

LEMMA MoreVectors ==
    ASSUME NEW a \in Seq(Seq(Users) \ {<<>>}), NEW b \in Seq(Seq(Users) \ {<<>>})
    PROVE  /\ a \o b \in Seq(Seq(Users) \ {<<>>})
           /\ InVectors(a) \cup InVectors(b) \subseteq InVectors(a \o b)
<1>1. /\ a \o b \in Seq(Seq(Users) \ {<<>>}) /\ Len(a) \in Nat /\ Len(b) \in Nat
      /\ Len(a \o b) = Len(a) + Len(b)
      /\ \A i \in 1..(Len(a) + Len(b)) :
            (a \o b)[i] = IF i <= Len(a) THEN a[i] ELSE b[i - Len(a)]
  BY ConcatProperties
<1>2. ASSUME NEW k \in 1..Len(a) PROVE InVector(a[k]) \subseteq InVectors(a \o b)
  <2>1. k \in 1..Len(a \o b) /\ (a \o b)[k] = a[k]
    BY <1>1
  <2> QED BY <2>1 DEF InVectors
<1>3. ASSUME NEW k \in 1..Len(b) PROVE InVector(b[k]) \subseteq InVectors(a \o b)
  <2>1. /\ k + Len(a) \in 1..(Len(a) + Len(b)) /\ ~(k + Len(a) <= Len(a))
        /\ (k + Len(a)) - Len(a) = k
    BY <1>1
  <2>2. (a \o b)[k + Len(a)] = b[k]
    BY <1>1, <2>1
  <2> QED BY <1>1, <2>1, <2>2 DEF InVectors
<1> QED BY <1>1, <1>2, <1>3 DEF InVectors

(* The two halves of a vector of several make it up, and neither is empty.  *)
LEMMA HalvesWork ==
    ASSUME NEW q \in Seq(Users) \ {<<>>}, ~LoneFailure(q)
    PROVE  /\ Halves(q) \in Seq(Seq(Users) \ {<<>>})
           /\ InVector(q) \subseteq InVectors(Halves(q))
<1> DEFINE L == Len(q)
           mid == L \div 2
           left == SubSeq(q, 1, mid)
           right == SubSeq(q, mid + 1, L)
<1>1. L \in Nat /\ mid \in 1..(L - 1) /\ \A i \in 1..L : q[i] \in Users
  <2>1. q \in Seq(Users) /\ q # <<>>
    OBVIOUS
  <2>2. L \in Nat \ {0}
    BY <2>1, EmptySeq
  <2>3. L # 1
    BY DEF LoneFailure
  <2>4. \A i \in 1..L : q[i] \in Users
    BY <2>1
  <2>5. mid \in 1..(L - 1)
    BY <2>2, <2>3, Middle
  <2> QED BY <2>2, <2>4, <2>5
<1>2. mid \in Nat /\ 1 <= mid /\ mid < L
  BY <1>1
<1> HIDE DEF mid
<1>3. /\ left \in Seq(Users) /\ Len(left) = mid
      /\ \A i \in 1..mid : left[i] = q[i]
  BY <1>1, <1>2, SubSeqProperties
<1>4. /\ right \in Seq(Users) /\ Len(right) = L - mid
      /\ \A i \in 1..(L - mid) : right[i] = q[mid + i]
  <2>1. \A i \in (mid + 1)..L : q[i] \in Users
    BY <1>1, <1>2
  <2>2. /\ right \in Seq(Users) /\ Len(right) = L - (mid + 1) + 1
        /\ \A i \in 1..(L - (mid + 1) + 1) : right[i] = q[(mid + 1) + i - 1]
    BY <1>1, <1>2, <2>1, SubSeqProperties
  <2>3. L - (mid + 1) + 1 = L - mid /\ \A i \in 1..(L - mid) : (mid + 1) + i - 1 = mid + i
    BY <1>1, <1>2
  <2> QED BY <2>2, <2>3
<1> HIDE DEF left, right
<1>5. left # <<>> /\ right # <<>>
  <2>1. Len(left) # 0 /\ Len(right) # 0
    BY <1>1, <1>2, <1>3, <1>4
  <2> QED BY <2>1
<1>6. Halves(q) = <<left, right>>
  BY DEF Halves, left, right, mid
<1>7. Halves(q) \in Seq(Seq(Users) \ {<<>>}) /\ Len(Halves(q)) = 2
      /\ Halves(q)[1] = left /\ Halves(q)[2] = right
  BY <1>3, <1>4, <1>5, <1>6
<1>8. ASSUME NEW i \in 1..L PROVE q[i] \in InVector(left) \cup InVector(right)
  <2>1. CASE i <= mid
    BY <1>2, <1>3, <2>1 DEF InVector
  <2>2. CASE ~(i <= mid)
    <3>1. i - mid \in 1..(L - mid) /\ mid + (i - mid) = i
      BY <1>1, <1>2, <2>2
    <3> QED BY <1>4, <3>1 DEF InVector
  <2> QED BY <2>1, <2>2
<1>9. InVector(q) \subseteq InVector(left) \cup InVector(right)
  BY <1>8 DEF InVector
<1>10. InVector(left) \cup InVector(right) \subseteq InVectors(Halves(q))
  BY <1>7 DEF InVectors
<1> QED BY <1>7, <1>9, <1>10

-----------------------------------------------------------------------------
(* The next candidate is before everyone else who is left.                  *)
LEMMA CandidateIsFirst ==
    ASSUME TypeOK, todo # {}
    PROVE  candidate \in todo /\ \A v \in todo \ {candidate} : Before(candidate, v)
<1>1. todo \subseteq Users /\ \A u \in Users : stamp[u] \in Nat /\ Priority[u] \in Nat /\ u \in Nat
  <2>1. todo \subseteq Users /\ stamp \in [Users -> 0..N]
    BY DEF TypeOK
  <2>2. Priority \in [Users -> 0..3] /\ N \in Nat
    BY ProfileAssumption DEF Users
  <2>3. Users \subseteq Nat
    BY <2>2 DEF Users
  <2>4. \A u \in Users : stamp[u] \in 0..N /\ Priority[u] \in 0..3
    BY <2>1, <2>2
  <2> QED BY <2>1, <2>2, <2>3, <2>4
<1>2. PICK a \in todo : \A v \in todo : stamp[a] <= stamp[v]
  <2> DEFINE f == [u \in todo |-> stamp[u]]
  <2>1. f \in [todo -> Nat]
    BY <1>1
  <2>2. PICK a \in todo : \A v \in todo : f[a] <= f[v]
    BY <2>1, LeastExists
  <2> QED BY <2>2
<1> DEFINE A == {u \in todo : stamp[u] = stamp[a]}
<1>3. PICK b \in A : \A v \in A : Priority[b] <= Priority[v]
  <2> DEFINE f == [u \in A |-> Priority[u]]
  <2>1. f \in [A -> Nat] /\ A # {}
    BY <1>1
  <2>2. PICK b \in A : \A v \in A : f[b] <= f[v]
    BY <2>1, LeastExists
  <2> QED BY <2>2
<1> DEFINE B == {u \in A : Priority[u] = Priority[b]}
<1>4. PICK c \in B : \A v \in B : c <= v
  <2> DEFINE f == [u \in B |-> u]
  <2>1. f \in [B -> Nat] /\ B # {}
    BY <1>1
  <2>2. PICK c \in B : \A v \in B : f[c] <= f[v]
    BY <2>1, LeastExists
  <2> QED BY <2>2
<1>5. ASSUME NEW v \in todo \ {c} PROVE Before(c, v)
  <2>1. /\ stamp[c] = stamp[a] /\ stamp[a] <= stamp[v]
        /\ Priority[c] = Priority[b] /\ (v \in A => Priority[b] <= Priority[v])
        /\ (v \in B => c <= v)
    BY <1>2, <1>3, <1>4
  <2>2. CASE v \notin A
    BY <1>1, <1>5, <2>1, <2>2 DEF Before
  <2>3. CASE v \in A /\ v \notin B
    BY <1>1, <1>5, <2>1, <2>3 DEF Before
  <2>4. CASE v \in B
    BY <1>1, <1>5, <2>1, <2>4 DEF Before
  <2> QED BY <2>2, <2>3, <2>4
<1>6. \E u \in todo : \A v \in todo \ {u} : Before(u, v)
  BY <1>5
<1> QED BY <1>6 DEF candidate

(* A turn: the candidate's stamp becomes the newest, and the order of all    *)
(* others stays what it was.                                                *)
LEMMA TurnMovesBack ==
    ASSUME TypeOK, Ranked, NEW c \in Users, stamp' = MovedBack(c)
    PROVE  /\ stamp' \in [Users -> 0..N] /\ Ranked' /\ stamp'[c] # 0
           /\ \A u \in Users \ {c} : /\ stamp'[u] < stamp'[c]
                                     /\ stamp[u] = 0 <=> stamp'[u] = 0
           /\ \A u, v \in Users \ {c} :
                 stamp[u] < stamp[v] /\ stamp[c] < stamp[v] => stamp'[u] < stamp'[v]
<1> DEFINE k == Cardinality(Stamped)
           K == Cardinality(Stamped \cup {c})
<1>1. k \in 0..N /\ K \in 0..N /\ K = IF stamp[c] = 0 THEN k + 1 ELSE k
  <2>1. Stamped \subseteq Users /\ Stamped \cup {c} \subseteq Users
    BY DEF Stamped
  <2>2. IsFiniteSet(Stamped) /\ k \in 0..N /\ K \in 0..N
    BY <2>1, UsersAreFinite
  <2>3. K = IF c \in Stamped THEN k ELSE k + 1
    BY <2>2, FS_AddElement
  <2> QED BY <2>2, <2>3 DEF Stamped
<1>2. \A u \in Users : stamp[u] \in Nat /\ stamp[u] <= k
  <2>1. \A u \in Users : stamp[u] \in Nat
    BY ProfileAssumption DEF TypeOK
  <2> QED BY <2>1 DEF Ranked
<1>3. \A u, v \in Users : stamp[u] = stamp[v] /\ u # v => stamp[u] = 0
  BY DEF Ranked
<1>4. stamp' = [v \in Users |-> IF v = c THEN K
                     ELSE IF 0 < stamp[c] /\ stamp[c] < stamp[v]
                          THEN stamp[v] - 1 ELSE stamp[v]]
  BY DEF MovedBack, Stamped
<1> HIDE DEF k, K
<1>5. stamp'[c] = K /\ K # 0
  <2>1. K # 0
    BY <1>1, <1>2, ProfileAssumption
  <2> QED BY <1>4, <2>1
<1>6. ASSUME NEW u \in Users \ {c}
      PROVE  /\ stamp'[u] \in Nat /\ stamp'[u] < K /\ (stamp[u] = 0 <=> stamp'[u] = 0)
             /\ stamp'[u] = IF 0 < stamp[c] /\ stamp[c] < stamp[u]
                            THEN stamp[u] - 1 ELSE stamp[u]
  <2>1. stamp'[u] = IF 0 < stamp[c] /\ stamp[c] < stamp[u]
                    THEN stamp[u] - 1 ELSE stamp[u]
    BY <1>4
  <2>2. /\ stamp[u] \in Nat /\ stamp[c] \in Nat /\ stamp[u] <= k /\ stamp[c] <= k
        /\ stamp[u] = stamp[c] => stamp[u] = 0
    BY <1>2, <1>3
  <2>3. k \in Nat /\ K \in Nat
    BY <1>1, ProfileAssumption
  <2> QED BY <1>1, <2>1, <2>2, <2>3
<1>7. stamp' \in [Users -> 0..N]
  <2>1. \A u \in Users : stamp'[u] \in 0..N
    <3>1. \A u \in Users \ {c} : stamp'[u] \in 0..N
      BY <1>1, <1>6, ProfileAssumption
    <3> QED BY <1>1, <1>5, <3>1
  <2> QED BY <1>4, <2>1
<1>8. Ranked'
  <2>1. Stamped' = Stamped \cup {c}
    BY <1>5, <1>6 DEF Stamped
  <2>2. Cardinality(Stamped') = K
    BY <2>1 DEF K
  <2>3. \A u \in Users : stamp'[u] <= K
    <3>1. K \in Nat
      BY <1>1, ProfileAssumption
    <3> QED BY <1>5, <1>6, <3>1
  <2>4. ASSUME NEW u \in Users, NEW v \in Users, stamp'[u] = stamp'[v], u # v
        PROVE  stamp'[u] = 0
    <3>1. u # c /\ v # c
      <4>1. K \in Nat
        BY <1>1, ProfileAssumption
      <4> QED BY <1>5, <1>6, <2>4, <4>1
    <3>2. /\ stamp[u] \in Nat /\ stamp[v] \in Nat /\ stamp[c] \in Nat
          /\ stamp[u] = stamp[v] => stamp[u] = 0
          /\ stamp[u] = stamp[c] => stamp[u] = 0
          /\ stamp[v] = stamp[c] => stamp[v] = 0
      BY <1>2, <1>3, <2>4, <3>1
    <3>3. /\ stamp'[u] \in Nat /\ stamp'[v] \in Nat
          /\ stamp'[u] = IF 0 < stamp[c] /\ stamp[c] < stamp[u]
                         THEN stamp[u] - 1 ELSE stamp[u]
          /\ stamp'[v] = IF 0 < stamp[c] /\ stamp[c] < stamp[v]
                         THEN stamp[v] - 1 ELSE stamp[v]
      BY <1>6, <3>1
    <3>4. (IF 0 < stamp[c] /\ stamp[c] < stamp[u] THEN stamp[u] - 1 ELSE stamp[u])
            = (IF 0 < stamp[c] /\ stamp[c] < stamp[v] THEN stamp[v] - 1 ELSE stamp[v])
      BY <2>4, <3>3, Zenon
    <3>5. stamp[u] = stamp[v]
      BY <3>2, <3>4, GapsClose
    <3> QED BY <1>6, <3>1, <3>2, <3>5
  <2> QED BY <2>2, <2>3, <2>4 DEF Ranked
<1>9. ASSUME NEW u \in Users \ {c}, NEW v \in Users \ {c},
             stamp[u] < stamp[v], stamp[c] < stamp[v]
      PROVE  stamp'[u] < stamp'[v]
  <2>1. /\ stamp[u] \in Nat /\ stamp[v] \in Nat /\ stamp[c] \in Nat
        /\ stamp[u] = stamp[c] => stamp[u] = 0
    BY <1>2, <1>3
  <2> QED BY <1>6, <1>9, <2>1
<1> QED BY <1>5, <1>6, <1>7, <1>8, <1>9

-----------------------------------------------------------------------------
(* Nothing of the strengthened invariant is disturbed by a step that leaves *)
(* what it speaks of alone.                                                 *)
LEMMA AccountedStays ==
    ASSUME Accounted, UNCHANGED <<pc, known, ref, batches, replies, heard, unusable>>
    PROVE  Accounted'
BY DEF Accounted, InVectors, InVector

LEMMA RotatedStays ==
    ASSUME Rotated,
           UNCHANGED <<pc, known, ref, fresh, stamp, unusable, todo, untried, asking, late>>
    PROVE  Rotated'
BY DEF Rotated, Excused, HadTurn

LEMMA RankedStays ==
    ASSUME Ranked, UNCHANGED stamp
    PROVE  Ranked'
BY DEF Ranked, Stamped

(* When a run ends its locals are reset, and there is nothing to remember.  *)
LEMMA EndRunResets ==
    ASSUME TypeOK, EndRun
    PROVE  /\ pc' = "idle" /\ Accounted' /\ Rotated'
           /\ batches' \in Seq(Seq(Users) \ {<<>>})
           /\ clearing' \in Seq(Users) /\ replies' \in Seq(Users)
           /\ unusable' \subseteq Users /\ todo' \subseteq Users /\ untried' \subseteq Users
           /\ asking' \in Nat /\ spent' \in 0..Budget
           /\ heard' \subseteq Users /\ late' \subseteq Users
BY ProfileAssumption DEF EndRun, Accounted, Rotated

LEMMA IInvEnds ==
    ASSUME TypeOK, Ranked, EndRun, pass' \in Passes, changes' \in 0..MaxChanges,
           stops' \in 0..MaxStops, UNCHANGED <<peers, dead, people, refused>>
    PROVE  IInv'
<1>1. /\ pc' = "idle" /\ Accounted' /\ Rotated'
      /\ batches' \in Seq(Seq(Users) \ {<<>>})
      /\ clearing' \in Seq(Users) /\ replies' \in Seq(Users)
      /\ unusable' \subseteq Users /\ todo' \subseteq Users /\ untried' \subseteq Users
      /\ asking' \in Nat /\ spent' \in 0..Budget
      /\ heard' \subseteq Users /\ late' \subseteq Users
  BY EndRunResets
<1>2. TypeOK'
  BY <1>1 DEF TypeOK, peers, dead, people
<1> QED BY <1>1, <1>2, RankedStays DEF IInv, people

LEMMA PassIsNamed == PassLabel \in Passes
BY DEF PassLabel, Passes

-----------------------------------------------------------------------------
LEMMA IInvInit == Init => IInv
<1> SUFFICES ASSUME Init PROVE IInv
  OBVIOUS
<1>1. TypeOK
  <2>1. /\ ref \in [Users -> Refs] /\ marker \in [Users -> Refs]
        /\ stamp \in [Users -> 0..N] /\ pass \in Passes
    BY ProfileAssumption DEF Init, Refs, Passes
  <2>2. /\ batches \in Seq(Seq(Users) \ {<<>>})
        /\ clearing \in Seq(Users) /\ replies \in Seq(Users)
    BY DEF Init
  <2>3. /\ changes \in 0..MaxChanges /\ stops \in 0..MaxStops
        /\ asking \in Nat /\ spent \in 0..Budget
    BY ProfileAssumption DEF Init
  <2>4. /\ known \subseteq Users /\ cooled \subseteq Users /\ fresh \subseteq Users
        /\ refused \subseteq Users /\ unusable \subseteq Users /\ todo \subseteq Users
        /\ untried \subseteq Users /\ heard \subseteq Users /\ late \subseteq Users
        /\ pc = "idle"
    BY DEF Init
  <2> QED BY <2>1, <2>2, <2>3, <2>4 DEF TypeOK
<1>2. Ranked
  <2>1. \A u \in Users : stamp[u] = 0
    BY DEF Init
  <2>2. Stamped = {}
    BY <2>1 DEF Stamped
  <2>3. Cardinality(Stamped) = 0
    BY <2>2, FS_EmptySet
  <2> QED BY <2>1, <2>3 DEF Ranked
<1>3. Accounted /\ Rotated
  BY DEF Init, Accounted, Rotated
<1> QED BY <1>1, <1>2, <1>3 DEF IInv

(* What happens between runs and on Telegram's side.                        *)
LEMMA IInvOutside ==
    ASSUME IInv,
           \/ Discover \/ Sight \/ TurnStale
           \/ \E C \in SUBSET {u \in Users : marker[u] # "none"}, F \in SUBSET fresh : Pause(C, F)
    PROVE  IInv'
<1>1. TypeOK /\ Ranked /\ Accounted /\ Rotated
  BY DEF IInv
<1>2. CASE Discover
  <2>1. TypeOK'
    <3>1. known' \subseteq Users /\ ref' \in [Users -> Refs] /\ refused' \subseteq Users
      BY <1>1, <1>2 DEF TypeOK, Discover
    <3> QED BY <1>1, <1>2, <3>1
            DEF TypeOK, Discover, dead, people, bounds, triage, turn
  <2>2. pc = "idle" /\ pc' = "idle" /\ UNCHANGED <<stamp, replies>>
    BY <1>2 DEF Discover, people, triage
  <2> QED BY <1>1, <2>1, <2>2, RankedStays DEF IInv, Accounted, Rotated
<1>3. CASE Sight
  <2>1. TypeOK'
    <3>1. ref' \in [Users -> Refs] /\ refused' \subseteq Users
      BY <1>1, <1>3 DEF TypeOK, Sight, Refs
    <3>2. changes' \in 0..MaxChanges
      BY <1>1, <1>3, ProfileAssumption DEF TypeOK, Sight
    <3> QED BY <1>1, <1>3, <3>1, <3>2
            DEF TypeOK, Sight, dead, people, triage, turn
  <2>2. pc = "idle" /\ pc' = "idle" /\ UNCHANGED <<stamp, replies>>
    BY <1>3 DEF Sight, people, triage
  <2> QED BY <1>1, <2>1, <2>2, RankedStays DEF IInv, Accounted, Rotated
<1>4. CASE TurnStale
  <2>1. TypeOK'
    <3>1. refused' \subseteq Users
      BY <1>1, <1>4 DEF TypeOK, TurnStale
    <3>2. changes' \in 0..MaxChanges
      BY <1>1, <1>4, ProfileAssumption DEF TypeOK, TurnStale
    <3> QED BY <1>1, <1>4, <3>1, <3>2
            DEF TypeOK, TurnStale, peers, dead, people, triage, turn
  <2>2. /\ UNCHANGED <<pc, known, ref, batches, replies, heard, unusable>>
        /\ UNCHANGED <<fresh, stamp, todo, untried, asking, late>>
    BY <1>4 DEF TurnStale, peers, people, triage, turn
  <2> QED BY <1>1, <2>1, <2>2, RankedStays, AccountedStays, RotatedStays DEF IInv
<1>5. ASSUME NEW C \in SUBSET {u \in Users : marker[u] # "none"}, NEW F \in SUBSET fresh,
             Pause(C, F)
      PROVE  IInv'
  <2>1. TypeOK'
    <3>1. cooled' \subseteq Users /\ fresh' \subseteq Users
      BY <1>1, <1>5 DEF TypeOK, Pause
    <3> QED BY <1>1, <1>5, <3>1
            DEF TypeOK, Pause, peers, bounds, triage, turn
  <2>2. pc = "idle" /\ pc' = "idle" /\ UNCHANGED <<stamp, replies>>
    BY <1>5 DEF Pause, triage
  <2> QED BY <1>1, <2>1, <2>2, RankedStays DEF IInv, Accounted, Rotated
<1> QED BY <1>2, <1>3, <1>4, <1>5

(* Triage.                                                                  *)
LEMMA IInvTriage ==
    ASSUME IInv, StartRun \/ Triage
    PROVE  IInv'
<1>1. TypeOK /\ Ranked /\ Accounted /\ Rotated
  BY DEF IInv
<1>2. CASE StartRun
  <2> DEFINE resolvable == {u \in known : ref[u] # "none"}
             held       == {u \in resolvable : KnownDead(u)}
             asked      == resolvable \ held
  <2>1. /\ pc' = "triage" /\ batches' = Chunks(InOrder(asked)) /\ unusable' = held /\ heard' = {}
        /\ UNCHANGED <<known, ref, replies, stamp>>
    BY <1>2 DEF StartRun, peers, people
  <2>2. asked \in SUBSET Users /\ held \subseteq Users
    BY <1>1 DEF TypeOK
  <2>3. InOrder(asked) \in Seq(Users) /\ InVector(InOrder(asked)) = asked
    BY <2>2, InOrderWorks
  <2>4. batches' \in Seq(Seq(Users) \ {<<>>}) /\ asked \subseteq InVectors(batches')
    BY <2>1, <2>3, ChunksWork
  <2>5. TypeOK'
    BY <1>1, <1>2, <2>1, <2>2, <2>4
       DEF TypeOK, StartRun, peers, dead, people, bounds, turn
  <2>6. InVector(replies') \subseteq heard'
    BY <1>1, <1>2, <2>1 DEF Accounted, StartRun, InVector
  <2>7. Accounted'
    BY <2>1, <2>4, <2>6 DEF Accounted
  <2> QED BY <1>1, <2>1, <2>5, <2>7, RankedStays DEF IInv, Rotated
<1>3. ASSUME batches # <<>>
      PROVE  /\ vector \in Seq(Users) \ {<<>>} /\ Tail(batches) \in Seq(Seq(Users) \ {<<>>})
             /\ InVectors(batches) \subseteq InVector(vector) \cup InVectors(Tail(batches))
             /\ InVector(vector) \subseteq Users
  <2>1. batches \in Seq(Seq(Users) \ {<<>>})
    BY <1>1 DEF TypeOK
  <2>2. /\ vector \in Seq(Users) \ {<<>>} /\ Tail(batches) \in Seq(Seq(Users) \ {<<>>})
        /\ InVectors(batches) \subseteq InVector(vector) \cup InVectors(Tail(batches))
    BY <1>3, <2>1, FirstVector DEF vector
  <2>3. InVector(vector) \subseteq Users
    <3>1. vector \in Seq(Users)
      BY <2>2
    <3> QED BY <3>1 DEF InVector
  <2> QED BY <2>2, <2>3
<1>4. CASE TriageFails /\ LoneFailure(vector)
  <2> DEFINE u == vector[1]
  <2>1. /\ batches # <<>> /\ pc = "triage" /\ pc' = "triage"
        /\ marker' = [marker EXCEPT ![u] = ref[u]] /\ cooled' = cooled \ {u}
        /\ unusable' = unusable \cup {u} /\ heard' = heard \cup {u} /\ batches' = Tail(batches)
        /\ UNCHANGED <<peers, people, pass, refused, bounds, clearing, replies, turn>>
    BY <1>4 DEF TriageFails
  <2>2. InVector(vector) = {u} /\ u \in Users
    <3>1. Len(vector) = 1 /\ vector \in Seq(Users)
      BY <1>3, <1>4, <2>1 DEF LoneFailure
    <3> QED BY <3>1 DEF InVector
  <2> HIDE DEF u
  <2>3. TypeOK'
    <3>1. /\ marker' \in [Users -> Refs] /\ cooled' \subseteq Users
          /\ unusable' \subseteq Users /\ heard' \subseteq Users
      BY <1>1, <2>1, <2>2 DEF TypeOK
    <3>2. batches' \in Seq(Seq(Users) \ {<<>>})
      BY <1>3, <2>1
    <3> QED BY <1>1, <2>1, <3>1, <3>2 DEF TypeOK, peers, people, bounds, turn
  <2>4. Accounted'
    <3>1. InVectors(batches) \subseteq {u} \cup InVectors(batches')
      BY <1>3, <2>1, <2>2
    <3>2. InVector(replies') \subseteq heard'
      BY <1>1, <2>1 DEF Accounted
    <3> QED BY <1>1, <2>1, <3>1, <3>2 DEF Accounted, peers
  <2>5. Ranked' /\ Rotated'
    BY <1>1, <2>1, RankedStays DEF Rotated, people
  <2> QED BY <2>3, <2>4, <2>5 DEF IInv
<1>5. CASE TriageFails /\ ~LoneFailure(vector)
  <2>1. /\ batches # <<>> /\ pc = "triage" /\ pc' = "triage"
        /\ batches' = Halves(vector) \o Tail(batches)
        /\ UNCHANGED <<dead, unusable, heard>>
        /\ UNCHANGED <<peers, people, pass, refused, bounds, clearing, replies, turn>>
    BY <1>5 DEF TriageFails
  <2>2. /\ Halves(vector) \in Seq(Seq(Users) \ {<<>>})
        /\ InVector(vector) \subseteq InVectors(Halves(vector))
    BY <1>3, <1>5, <2>1, HalvesWork
  <2>3. /\ batches' \in Seq(Seq(Users) \ {<<>>})
        /\ InVectors(Halves(vector)) \cup InVectors(Tail(batches)) \subseteq InVectors(batches')
    BY <1>3, <2>1, <2>2, MoreVectors
  <2>4. TypeOK'
    BY <1>1, <2>1, <2>3 DEF TypeOK, dead, peers, people, bounds, turn
  <2>5. Accounted'
    <3>1. InVectors(batches) \subseteq InVectors(batches')
      BY <1>3, <2>1, <2>2, <2>3
    <3>2. InVector(replies') \subseteq heard'
      BY <1>1, <2>1 DEF Accounted
    <3> QED BY <1>1, <2>1, <3>1, <3>2 DEF Accounted, peers
  <2>6. Ranked' /\ Rotated'
    BY <1>1, <2>1, RankedStays DEF Rotated, people
  <2> QED BY <2>4, <2>5, <2>6 DEF IInv
<1>6. CASE TriageAnswers
  <2>1. /\ batches # <<>> /\ pc = "triage" /\ pc' = "project"
        /\ clearing' = vector /\ replies' = vector
        /\ heard' = heard \cup InVector(vector) /\ batches' = Tail(batches)
        /\ UNCHANGED <<peers, dead, people, pass, refused, bounds, unusable, turn>>
    BY <1>6 DEF TriageAnswers
  <2>2. TypeOK'
    <3>1. heard' \subseteq Users /\ clearing' \in Seq(Users) /\ replies' \in Seq(Users)
      BY <1>1, <1>3, <2>1 DEF TypeOK
    <3>2. batches' \in Seq(Seq(Users) \ {<<>>})
      BY <1>3, <2>1
    <3> QED BY <1>1, <2>1, <3>1, <3>2 DEF TypeOK, peers, dead, people, bounds, turn
  <2>3. Accounted'
    <3>1. InVectors(batches) \subseteq InVector(vector) \cup InVectors(batches')
      BY <1>3, <2>1
    <3>2. InVector(replies') \subseteq heard'
      BY <2>1
    <3> QED BY <1>1, <2>1, <3>1, <3>2 DEF Accounted, peers
  <2>4. Ranked' /\ Rotated'
    BY <1>1, <2>1, RankedStays DEF Rotated, people
  <2> QED BY <2>2, <2>3, <2>4 DEF IInv
<1>7. CASE ClearMarker
  <2>1. /\ clearing # <<>>
        /\ marker' = [marker EXCEPT ![Head(clearing)] = "none"]
        /\ cooled' = cooled \ {Head(clearing)} /\ clearing' = Tail(clearing)
        /\ UNCHANGED <<peers, people, pass, refused, bounds, pc, batches, replies,
                       heard, unusable, turn>>
    BY <1>7 DEF ClearMarker
  <2>2. TypeOK'
    <3>1. marker' \in [Users -> Refs] /\ cooled' \subseteq Users
      BY <1>1, <2>1 DEF TypeOK, Refs
    <3>2. clearing' \in Seq(Users)
      BY <1>1, <2>1, HeadTailProperties DEF TypeOK
    <3> QED BY <1>1, <2>1, <3>1, <3>2 DEF TypeOK, peers, people, bounds, turn
  <2>3. Accounted' /\ Ranked' /\ Rotated'
    BY <1>1, <2>1, AccountedStays, RankedStays, RotatedStays DEF peers, people, turn
  <2> QED BY <2>2, <2>3 DEF IInv
<1>8. CASE ProjectTriaged /\ replies = <<>>
  <2>1. /\ pc = "project" /\ pc' = "triage" /\ UNCHANGED <<ref, unusable, replies>>
        /\ UNCHANGED <<known, dead, people, pass, refused, bounds, batches, clearing, heard, turn>>
    BY <1>8 DEF ProjectTriaged
  <2>2. TypeOK'
    BY <1>1, <2>1 DEF TypeOK, dead, people, bounds, turn
  <2>3. Accounted' /\ Ranked' /\ Rotated'
    BY <1>1, <2>1, RankedStays DEF Accounted, Rotated, people
  <2> QED BY <2>2, <2>3 DEF IInv
<1>9. CASE ProjectTriaged /\ replies # <<>>
  <2> DEFINE u == Head(replies)
  <2>1. /\ pc = "project" /\ pc' = "project" /\ replies' = Tail(replies)
        /\ ref' \in {ref, [ref EXCEPT ![u] = "hash"]}
        /\ unusable' \in {unusable, unusable \cup {u}}
        /\ UNCHANGED <<known, dead, people, pass, refused, bounds, batches, clearing, heard, turn>>
    BY <1>9 DEF ProjectTriaged
  <2>2. /\ u \in Users /\ u \in InVector(replies)
        /\ replies' \in Seq(Users) /\ InVector(replies') \subseteq InVector(replies)
    <3>1. replies \in Seq(Users)
      BY <1>1 DEF TypeOK
    <3>2. /\ u \in Users /\ u = replies[1] /\ Tail(replies) \in Seq(Users)
          /\ Len(replies) \in Nat \ {0} /\ Len(Tail(replies)) = Len(replies) - 1
          /\ \A i \in 1..Len(Tail(replies)) : Tail(replies)[i] = replies[i + 1]
      BY <1>9, <3>1, HeadTailProperties, EmptySeq
    <3>3. \A i \in 1..Len(Tail(replies)) : i + 1 \in 1..Len(replies)
      BY <3>2
    <3>4. 1 \in 1..Len(replies)
      BY <3>2
    <3> QED BY <2>1, <3>2, <3>3, <3>4 DEF InVector
  <2> HIDE DEF u
  <2>3. TypeOK'
    <3>1. ref' \in [Users -> Refs] /\ unusable' \subseteq Users
      BY <1>1, <2>1, <2>2 DEF TypeOK, Refs
    <3> QED BY <1>1, <2>1, <2>2, <3>1 DEF TypeOK, dead, people, bounds, turn
  <2>4. Accounted'
    <3>1. InVector(replies) \subseteq heard
      BY <1>1, <2>1 DEF Accounted
    <3>2. ASSUME NEW v \in known', ref'[v] # "none"
          PROVE  v \in heard' \cup unusable' \cup InVectors(batches)
      <4>1. v = u \/ ref'[v] = ref[v]
        BY <1>1, <2>1 DEF TypeOK
      <4> QED BY <1>1, <2>1, <2>2, <3>1, <3>2, <4>1 DEF Accounted
    <3>3. InVectors(batches)' = InVectors(batches)
      BY <2>1 DEF InVectors, InVector
    <3> QED BY <2>1, <2>2, <3>1, <3>2, <3>3 DEF Accounted
  <2>5. Ranked' /\ Rotated'
    BY <1>1, <2>1, RankedStays DEF Rotated, people
  <2> QED BY <2>3, <2>4, <2>5 DEF IInv
<1>10. CASE EndTriageOnly
  <2>1. EndRun /\ pass' \in Passes /\ UNCHANGED <<peers, dead, people, refused, bounds>>
    BY <1>10 DEF EndTriageOnly, Passes
  <2>2. changes' \in 0..MaxChanges /\ stops' \in 0..MaxStops
    BY <1>1, <2>1 DEF TypeOK, bounds
  <2> QED BY <1>1, <2>1, <2>2, IInvEnds
<1> QED BY <1>2, <1>4, <1>5, <1>6, <1>7, <1>8, <1>9, <1>10 DEF Triage

(* Enrichment.                                                              *)
LEMMA IInvEnrich ==
    ASSUME IInv, RankCandidates \/ Enrich
    PROVE  IInv'
<1>1. TypeOK /\ Ranked /\ Accounted /\ Rotated
  BY DEF IInv
<1>2. CASE RankCandidates
  <2>1. /\ pc' = "enrich" /\ todo' = known /\ untried' = {u \in known : stamp[u] = 0}
        /\ spent' = 0 /\ heard' = {}
        /\ UNCHANGED <<peers, dead, people, pass, refused, bounds, batches, clearing,
                       replies, unusable, asking, late>>
    BY <1>2 DEF RankCandidates
  <2>2. TypeOK'
    <3>1. todo' \subseteq Users /\ untried' \subseteq Users /\ spent' \in 0..Budget
      BY <1>1, <2>1, ProfileAssumption DEF TypeOK
    <3> QED BY <1>1, <2>1, <3>1 DEF TypeOK, peers, dead, people, bounds
  <2>3. Rotated'
    BY <2>1 DEF Rotated, peers, people
  <2>4. Ranked' /\ Accounted'
    BY <1>1, <2>1, RankedStays DEF Accounted, people
  <2> QED BY <2>2, <2>3, <2>4 DEF IInv
<1>3. CASE PassOver
  <2>1. /\ pc = "enrich" /\ Excused(candidate) /\ todo' = todo \ {candidate}
        /\ UNCHANGED <<peers, dead, people, pass, refused, bounds, pc, triage, unusable,
                       untried, asking, spent, late>>
    BY <1>3 DEF PassOver
  <2>2. TypeOK'
    BY <1>1, <2>1 DEF TypeOK, peers, dead, people, bounds, triage
  <2>3. Rotated'
    <3>1. /\ \A v \in known \ todo : Excused(v) \/ HadTurn(v) \/ v \in late
          /\ {u \in known : stamp[u] = 0} \subseteq untried
      BY <1>1, <2>1 DEF Rotated
    <3>2. \A v : Excused(v)' = Excused(v) /\ (HadTurn(v) => HadTurn(v)')
      BY <2>1 DEF Excused, HadTurn, peers, people
    <3>3. \A v \in known' \ todo' : Excused(v)' \/ HadTurn(v)' \/ v \in late'
      BY <2>1, <3>1, <3>2 DEF peers
    <3> QED BY <2>1, <3>1, <3>3 DEF Rotated, peers, people
  <2>4. Ranked' /\ Accounted'
    BY <1>1, <2>1, RankedStays DEF Accounted, people
  <2> QED BY <2>2, <2>3, <2>4 DEF IInv
<1>4. CASE Attempt
  <2>1. /\ pc = "enrich" /\ todo # {} /\ spent < Budget /\ spent' = spent + 1
        /\ stamp' = MovedBack(candidate) /\ untried' = untried \ {candidate}
        /\ todo' = todo \ {candidate} /\ asking' = candidate /\ pc' = "asking"
        /\ UNCHANGED <<peers, dead, fresh, pass, refused, bounds, triage, unusable, late>>
    BY <1>4 DEF Attempt
  <2>2. candidate \in todo /\ candidate \in Users
    BY <1>1, <2>1, CandidateIsFirst DEF TypeOK
  <2>3. PICK c : c = candidate
    OBVIOUS
  <2>4. /\ stamp' \in [Users -> 0..N] /\ Ranked' /\ stamp'[c] # 0
        /\ \A u \in Users \ {c} : stamp'[u] < stamp'[c] /\ (stamp[u] = 0 <=> stamp'[u] = 0)
        /\ \A u, v \in Users \ {c} :
              stamp[u] < stamp[v] /\ stamp[c] < stamp[v] => stamp'[u] < stamp'[v]
    BY <1>1, <2>1, <2>2, <2>3, TurnMovesBack
  <2>5. TypeOK'
    <3>1. todo' \subseteq Users /\ untried' \subseteq Users
      BY <1>1, <2>1 DEF TypeOK
    <3>2. spent' \in 0..Budget
      <4>1. spent \in 0..Budget
        BY <1>1 DEF TypeOK
      <4> QED BY <2>1, <4>1, ProfileAssumption
    <3>3. asking' \in Nat
      BY <2>1, <2>2 DEF Users
    <3> QED BY <1>1, <2>1, <2>4, <3>1, <3>2, <3>3 DEF TypeOK, peers, dead, bounds, triage
  <2>6. Rotated'
    <3>1. c \in todo /\ c \in Users /\ asking' = c /\ todo' = todo \ {c} /\ todo \subseteq Users
      BY <1>1, <2>1, <2>2, <2>3 DEF TypeOK
    <3>2. HadTurn(c)'
      <4>1. stamp'[c] # 0 /\ \A u \in todo' : stamp'[u] < stamp'[c]
        BY <2>4, <3>1
      <4> QED BY <4>1 DEF HadTurn
    <3>3. ASSUME NEW v \in known', v \notin todo', v # c
          PROVE  Excused(v)' \/ HadTurn(v)' \/ v \in late'
      <4>1. v \in known \ todo /\ v \in Users
        BY <1>1, <2>1, <3>1, <3>3 DEF TypeOK, peers
      <4>2. Excused(v) \/ HadTurn(v) \/ v \in late
        BY <1>1, <2>1, <4>1 DEF Rotated
      <4>3. Excused(v) => Excused(v)'
        BY <2>1 DEF Excused, peers
      <4>4. ASSUME HadTurn(v) PROVE HadTurn(v)'
        <5>1. stamp[v] # 0 /\ stamp[c] < stamp[v] /\ \A u \in todo : stamp[u] < stamp[v]
          BY <3>1, <4>4 DEF HadTurn
        <5>2. stamp'[v] # 0
          BY <2>4, <3>3, <4>1, <5>1
        <5>3. \A u \in todo' : stamp'[u] < stamp'[v]
          BY <2>4, <3>1, <3>3, <4>1, <5>1
        <5> QED BY <5>2, <5>3 DEF HadTurn
      <4> QED BY <2>1, <4>2, <4>3, <4>4
    <3>4. \A v \in known' \ todo' : Excused(v)' \/ HadTurn(v)' \/ v \in late'
      <4>1. ASSUME NEW v \in known' \ todo'
            PROVE  Excused(v)' \/ HadTurn(v)' \/ v \in late'
        <5>1. CASE v = c
          BY <3>2, <5>1 DEF HadTurn
        <5>2. CASE v # c
          BY <3>3, <5>2
        <5> QED BY <5>1, <5>2
      <4> QED BY <4>1
    <3>5. {u \in known' : stamp'[u] = 0} \subseteq untried'
      <4>1. {u \in known : stamp[u] = 0} \subseteq untried /\ known \subseteq Users
        BY <1>1, <2>1 DEF Rotated, TypeOK
      <4>2. ASSUME NEW u \in known', stamp'[u] = 0 PROVE u \in untried'
        <5>1. u \in Users /\ u \in known /\ u # c
          BY <2>1, <2>4, <4>1, <4>2 DEF peers
        <5>2. stamp[u] = 0
          BY <2>4, <4>2, <5>1
        <5> QED BY <2>1, <2>3, <4>1, <5>1, <5>2
      <4> QED BY <4>2
    <3>6. HadTurn(asking)'
      BY <3>1, <3>2 DEF HadTurn
    <3> QED BY <3>1, <3>4, <3>5, <3>6 DEF Rotated
  <2> QED BY <2>1, <2>4, <2>5, <2>6 DEF IInv, Accounted
<1>5. CASE Finish
  <2>1. EndRun /\ pass' \in Passes /\ UNCHANGED <<peers, dead, people, refused, bounds>>
    BY <1>5, PassIsNamed DEF Finish
  <2>2. changes' \in 0..MaxChanges /\ stops' \in 0..MaxStops
    BY <1>1, <2>1 DEF TypeOK, bounds
  <2> QED BY <1>1, <2>1, <2>2, IInvEnds
<1>6. CASE FetchFails
  <2>1. /\ pc = "asking" /\ pc' = "enrich"
        /\ UNCHANGED <<peers, dead, people, pass, refused, bounds, triage, unusable, turn>>
    BY <1>6 DEF FetchFails
  <2>2. TypeOK'
    BY <1>1, <2>1 DEF TypeOK, peers, dead, people, bounds, triage, turn
  <2>3. Ranked' /\ Accounted' /\ Rotated'
    BY <1>1, <2>1, RankedStays
       DEF Accounted, Rotated, Excused, HadTurn, peers, people, turn
  <2> QED BY <2>2, <2>3 DEF IInv
<1>7. CASE FetchSucceeds \/ FetchIsOurs
  <2>1. PICK own \in {ref[asking], "hash"} : ChatsProjected(own)
    BY <1>7 DEF FetchSucceeds, FetchIsOurs
  <2>2. PICK keyed \in SUBSET ({u \in known : ref[u] = "none"} \ {asking}) :
           /\ ref' = [u \in Users |-> IF u = asking THEN own
                                     ELSE IF u \in keyed THEN "stub" ELSE ref[u]]
           /\ late' = late \cup keyed
    BY <2>1 DEF ChatsProjected
  <2>3. /\ pc = "asking" /\ pc' = "enrich" /\ fresh' \in {fresh, fresh \cup {asking}}
        /\ UNCHANGED <<known, dead, stamp, pass, refused, bounds, triage, unusable,
                       todo, untried, asking, spent>>
    BY <1>7, <2>1 DEF FetchSucceeds, FetchIsOurs, ChatsProjected
  <2>4. asking \in Users
    BY <1>1, <2>3 DEF Rotated
  <2>5. TypeOK'
    <3>1. known \subseteq Users /\ ref \in [Users -> Refs] /\ "hash" \in Refs /\ "stub" \in Refs
      BY <1>1 DEF TypeOK, Refs
    <3>2. ref' \in [Users -> Refs]
      BY <2>2, <2>4, <3>1
    <3>3. fresh' \subseteq Users /\ late' \subseteq Users
      BY <1>1, <2>2, <2>3, <2>4, <3>1 DEF TypeOK
    <3> QED BY <1>1, <2>3, <3>2, <3>3 DEF TypeOK, dead, bounds, triage
  <2>6. Rotated'
    <3>1. /\ \A v \in known \ todo : Excused(v) \/ HadTurn(v) \/ v \in late
          /\ {u \in known : stamp[u] = 0} \subseteq untried /\ HadTurn(asking)
      BY <1>1, <2>3 DEF Rotated
    <3>2. ASSUME NEW v \in known \ todo PROVE Excused(v)' \/ HadTurn(v)' \/ v \in late'
      <4>1. HadTurn(v) => HadTurn(v)'
        BY <2>3 DEF HadTurn
      <4>2. CASE v = asking
        BY <3>1, <4>1, <4>2
      <4>3. CASE v \in keyed
        BY <2>2, <4>3
      <4>4. CASE v # asking /\ v \notin keyed
        <5>1. v \in Users
          BY <1>1 DEF TypeOK
        <5>2. ref'[v] = ref[v]
          BY <2>2, <4>4, <5>1
        <5>3. Excused(v) => Excused(v)'
          BY <2>3, <5>2 DEF Excused
        <5> QED BY <2>2, <3>1, <4>1, <5>3
      <4> QED BY <4>2, <4>3, <4>4
    <3> QED BY <2>3, <3>1, <3>2 DEF Rotated
  <2>7. Ranked' /\ Accounted'
    BY <1>1, <2>3, RankedStays DEF Accounted
  <2> QED BY <2>5, <2>6, <2>7 DEF IInv
<1> QED BY <1>2, <1>3, <1>4, <1>5, <1>6, <1>7 DEF Enrich

(* Stops and kills.                                                         *)
LEMMA IInvStops ==
    ASSUME IInv, PhaseStop \/ Kill
    PROVE  IInv'
<1>1. TypeOK /\ Ranked
  BY DEF IInv
<1>2. /\ EndRun /\ stops < MaxStops /\ stops' = stops + 1
      /\ UNCHANGED <<peers, dead, people, refused, changes>>
  BY DEF PhaseStop, Kill
<1>3. pass' \in Passes
  <2>1. "triage_only" \in Passes /\ pass \in Passes
    BY <1>1 DEF TypeOK, Passes
  <2> QED BY <2>1, PassIsNamed DEF PhaseStop, Kill
<1>4. changes' \in 0..MaxChanges /\ stops' \in 0..MaxStops
  BY <1>1, <1>2, ProfileAssumption DEF TypeOK
<1> QED BY <1>1, <1>2, <1>3, <1>4, IInvEnds

LEMMA IInvNext == IInv /\ [Next]_vars => IInv'
<1> SUFFICES ASSUME IInv, [Next]_vars PROVE IInv'
  OBVIOUS
<1>1. CASE UNCHANGED vars
  <2>1. UNCHANGED <<peers, dead, people, pass, refused, bounds, pc, triage, unusable, turn>>
    BY <1>1 DEF vars
  <2>2. TypeOK /\ Ranked /\ Accounted /\ Rotated
    BY DEF IInv
  <2>3. TypeOK'
    BY <2>1, <2>2 DEF TypeOK, peers, dead, people, bounds, triage, turn
  <2>4. Ranked' /\ Accounted' /\ Rotated'
    <3>1. UNCHANGED <<pc, known, ref, batches, replies, heard, unusable>>
      BY <2>1 DEF peers, triage
    <3>2. UNCHANGED <<fresh, stamp, todo, untried, asking, late>>
      BY <2>1 DEF people, turn
    <3> QED BY <2>2, <3>1, <3>2, RankedStays, AccountedStays, RotatedStays
  <2> QED BY <2>3, <2>4 DEF IInv
<1> QED BY <1>1, IInvOutside, IInvTriage, IInvEnrich, IInvStops DEF Next

LEMMA IInvAlways == Spec => []IInv
<1> QED BY IInvInit, IInvNext, PTL DEF Spec

-----------------------------------------------------------------------------
(* Every variable keeps its type, no vector of a triage is ever empty, and   *)
(* the enrichment budget is never exceeded (profiles.py collect).            *)
THEOREM ProfileTypeCorrect == Spec => []TypeOK
<1>1. IInv => TypeOK
  BY DEF IInv
<1> QED BY <1>1, IInvAlways, PTL

(* Bisection loses nobody: when a triage ends, each person with a reference  *)
(* was answered about, proved dead, or is held back (profiles.py _triage).   *)
THEOREM TriageHearsAll == Spec => []TriageHearsEveryone
<1>1. IInv => TriageHearsEveryone
  <2> SUFFICES ASSUME IInv, pc = "triage", batches = <<>>, NEW u \in known, ref[u] # "none"
               PROVE  u \in heard \/ u \in unusable
    BY DEF TriageHearsEveryone
  <2>1. u \in heard \cup unusable \cup InVectors(batches)
    BY DEF IInv, Accounted
  <2>2. InVectors(batches) = {}
    BY DEF InVectors
  <2> QED BY <2>1, <2>2
<1> QED BY <1>1, IInvAlways, PTL

(* A marker is only ever written for a reference that Telegram refused when  *)
(* it was asked about that reference alone (profiles.py, issue #54).         *)
THEOREM MarkersAreProven == Spec => OnlyProvenDead
<1> DEFINE A == \A u \in Users : marker'[u] \notin {"none", marker[u]}
                   => u \in refused /\ marker'[u] = ref[u] /\ vector = <<u>>
<1>1. IInv /\ [Next]_vars => [A]_vars
  <2> SUFFICES ASSUME IInv, Next, NEW u \in Users, marker'[u] \notin {"none", marker[u]}
               PROVE  u \in refused /\ marker'[u] = ref[u] /\ vector = <<u>>
    OBVIOUS
  <2>1. TypeOK
    BY DEF IInv
  <2>2. marker \in [Users -> Refs] /\ batches \in Seq(Seq(Users) \ {<<>>})
    BY <2>1 DEF TypeOK
  <2>3. ~(UNCHANGED marker)
    OBVIOUS
  <2>4. TriageFails \/ ClearMarker
    BY <2>3 DEF Next, Triage, Enrich, Discover, Sight, TurnStale, Pause, StartRun,
                TriageAnswers, ProjectTriaged, EndTriageOnly, RankCandidates, PassOver,
                Attempt, Finish, FetchFails, FetchSucceeds, FetchIsOurs, ChatsProjected,
                PhaseStop, Kill, dead
  <2>5. CASE ClearMarker
    <3>1. marker' = [marker EXCEPT ![Head(clearing)] = "none"]
      BY <2>5 DEF ClearMarker
    <3> QED BY <2>2, <3>1
  <2>6. CASE TriageFails
    <3>1. /\ batches # <<>> /\ LoneFailure(vector) /\ InVector(vector) \cap refused # {}
          /\ marker' = [marker EXCEPT ![vector[1]] = ref[vector[1]]]
      BY <2>3, <2>6 DEF TriageFails, dead
    <3>2. vector \in Seq(Users) /\ Len(vector) = 1
      BY <2>2, <3>1, FirstVector DEF vector, LoneFailure
    <3>3. vector = <<vector[1]>> /\ InVector(vector) = {vector[1]}
      BY <3>2 DEF InVector
    <3>4. u = vector[1] /\ marker'[u] = ref[u]
      BY <2>2, <3>1
    <3> QED BY <3>1, <3>3, <3>4
  <2> QED BY <2>4, <2>5, <2>6
<1> QED BY <1>1, IInvAlways, PTL DEF Spec, OnlyProvenDead

(* The rotation of ADR-0006: a slot goes to a person only when everybody who *)
(* waits longer cannot use one (profiles.py _enrichment_candidates), or had  *)
(* come up in this run before there was a reference to them.                 *)
THEOREM NobodyIsOvertaken == Spec => NobodyOvertaken
<1> DEFINE A == Attempt => \A v \in known :
                   WaitsLonger(v, asking') => Excused(v) \/ v \in late \ todo
<1>1. IInv /\ [Next]_vars => [A]_vars
  <2> SUFFICES ASSUME IInv, Attempt, NEW v \in known, WaitsLonger(v, asking')
               PROVE  Excused(v) \/ v \in late \ todo
    OBVIOUS
  <2>1. TypeOK /\ Rotated
    BY DEF IInv
  <2>2. pc = "enrich" /\ todo # {} /\ asking' = candidate
    BY DEF Attempt
  <2>3. candidate \in todo /\ \A w \in todo \ {candidate} : Before(candidate, w)
    BY <2>1, <2>2, CandidateIsFirst
  <2>4. PICK c : c = candidate
    OBVIOUS
  <2>5. c \in todo /\ (v \in todo /\ v # c => Before(c, v)) /\ WaitsLonger(v, c)
    BY <2>2, <2>3, <2>4 DEF WaitsLonger
  <2>6. c \in Users /\ v \in Users
    BY <2>1, <2>5 DEF TypeOK
  <2>7. /\ stamp[c] \in Nat /\ stamp[v] \in Nat
        /\ Priority[c] \in Nat /\ Priority[v] \in Nat
    <3>1. stamp[c] \in 0..N /\ stamp[v] \in 0..N
      BY <2>1, <2>6 DEF TypeOK
    <3>2. Priority[c] \in 0..3 /\ Priority[v] \in 0..3
      BY <2>6, ProfileAssumption DEF Users
    <3> QED BY <3>1, <3>2, ProfileAssumption
  <2>8. v \notin todo
    BY <2>5, <2>7 DEF WaitsLonger, Before
  <2>9. ~HadTurn(v)
    BY <2>5, <2>7 DEF HadTurn, WaitsLonger
  <2> QED BY <2>1, <2>2, <2>8, <2>9 DEF Rotated
<1> QED BY <1>1, IInvAlways, PTL DEF Spec, NobodyOvertaken

(* A run that ends as a refresh, even early, leaves no usable person untried *)
(* (profiles.py:400-407).                                                    *)
THEOREM PassStaysHonest == Spec => PassIsHonest
<1> DEFINE A == (Finish \/ PhaseStop) /\ pass' = "refresh" =>
                   \A u \in known \ unusable : ref[u] # "none" => stamp[u] # 0
<1>1. IInv /\ [Next]_vars => [A]_vars
  <2> SUFFICES ASSUME IInv, Finish \/ PhaseStop, pass' = "refresh",
                      NEW u \in known \ unusable, ref[u] # "none", stamp[u] = 0
               PROVE  FALSE
    OBVIOUS
  <2>1. pc \in {"enrich", "asking"} /\ PassLabel = "refresh"
    BY DEF Finish, PhaseStop
  <2>2. u \in untried
    BY <2>1 DEF IInv, Rotated
  <2>3. ~ \E v \in untried : v \notin unusable /\ ref[v] # "none"
    BY <2>1 DEF PassLabel
  <2> QED BY <2>2, <2>3
<1> QED BY <1>1, IInvAlways, PTL DEF Spec, PassIsHonest
=============================================================================
