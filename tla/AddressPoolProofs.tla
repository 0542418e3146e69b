------------------------- MODULE AddressPoolProofs -------------------------
(***************************************************************************)
(* Every operation on an address pool keeps Conserved, for every range,    *)
(* every set of excluded addresses and any sessions.                       *)
(***************************************************************************)
EXTENDS AddressPool, FiniteSetTheorems, WellFoundedInduction, TLAPS

\* Addresses below a bound form a finite set with a cardinality.
LEMMA BelowFinite ==
  ASSUME NEW U \in SUBSET Addr
  PROVE  /\ IsFiniteSet(U) /\ Cardinality(U) \in Nat
         /\ \A T \in SUBSET U : IsFiniteSet(T) /\ Cardinality(T) \in Nat
                                /\ Cardinality(T) <= Cardinality(U)
<1>1. IsFiniteSet(Addr)
  BY FS_Interval, AddrAssumption DEF Addr
<1>2. IsFiniteSet(U)
  BY <1>1, FS_Subset
<1>3. ASSUME NEW T \in SUBSET U PROVE IsFiniteSet(T) /\ Cardinality(T) <= Cardinality(U)
  BY <1>2, FS_Subset
<1> QED
  BY <1>2, <1>3, FS_CardinalityType

\* The rank of an element is below the size of the set.
LEMMA RankBounded ==
  ASSUME NEW U \in SUBSET Addr, NEW a \in U
  PROVE  Rank(U, a) \in Nat /\ Rank(U, a) < Cardinality(U)
<1> DEFINE B == {b \in U : b < a}
<1>1. IsFiniteSet(B) /\ Cardinality(B) \in Nat /\ Cardinality(U) \in Nat
  BY BelowFinite
<1>2. a \notin B
  BY DEF Addr
<1>3. Cardinality(B \cup {a}) = Cardinality(B) + 1
  BY <1>1, <1>2, FS_AddElement
<1>4. Cardinality(B \cup {a}) <= Cardinality(U)
  <2>1. B \cup {a} \in SUBSET U
    OBVIOUS
  <2> QED
    BY <2>1, BelowFinite
<1> QED
  BY <1>1, <1>3, <1>4 DEF Rank

\* Ranks grow with the elements.
LEMMA RankMonotone ==
  ASSUME NEW U \in SUBSET Addr, NEW a \in U, NEW c \in U, a < c
  PROVE  Rank(U, a) < Rank(U, c)
<1> DEFINE B == {b \in U : b < a}
           C == {b \in U : b < c}
<1>1. IsFiniteSet(B) /\ Cardinality(B) \in Nat /\ Cardinality(C) \in Nat
  BY BelowFinite
<1>2. C \in SUBSET Addr
  OBVIOUS
<1>3. a \notin B /\ B \cup {a} \in SUBSET C
  <2>1. a \in Int /\ c \in Int /\ \A b \in U : b \in Int
    BY DEF Addr
  <2>2. \A b \in U : b < a => b < c
    BY <2>1
  <2>3. ~ (a < a)
    BY <2>1
  <2> QED
    BY <2>2, <2>3
<1>4. Cardinality(B \cup {a}) = Cardinality(B) + 1
  BY <1>1, <1>3, FS_AddElement
<1>5. Cardinality(B \cup {a}) <= Cardinality(C)
  BY <1>2, <1>3, BelowFinite
<1> QED
  BY <1>1, <1>4, <1>5 DEF Rank

\* Two elements of the same rank are the same.
LEMMA RankInjective ==
  ASSUME NEW U \in SUBSET Addr, NEW a \in U, NEW c \in U, Rank(U, a) = Rank(U, c)
  PROVE  a = c
<1>1. Rank(U, a) \in Nat /\ Rank(U, c) \in Nat
  BY RankBounded
<1>2. a \in Int /\ c \in Int
  BY DEF Addr
<1>3. ~ (a < c)
  BY <1>1, RankMonotone
<1>4. ~ (c < a)
  BY <1>1, RankMonotone
<1> QED
  BY <1>2, <1>3, <1>4

\* Every rank below the size of the set is some element's.
LEMMA RankExists ==
  ASSUME NEW U \in SUBSET Addr, NEW k \in Nat, k < Cardinality(U)
  PROVE  \E a \in U : Rank(U, a) = k
<1> DEFINE B(n) == {b \in U : b <= n}
<1>1. \A b \in U : b \in Nat \ {0} /\ b <= LastAddr
  BY AddrAssumption DEF Addr
<1>2. B(LastAddr) = U /\ B(0) = {}
  <2>1. \A b \in U : b <= LastAddr /\ ~ (b <= 0)
    BY <1>1
  <2> QED
    BY <2>1
<1> DEFINE Pos == Nat \ {0}
<1>a. \A n \in Pos, b \in U : (b <= n) <=> (b <= n - 1 \/ b = n)
  BY <1>1
<1>b. \A n \in Pos, b \in U : (b < n) <=> (b <= n - 1)
  BY <1>1
<1>c. \A n \in Pos : ~ (n <= n - 1)
  OBVIOUS
<1> HIDE DEF Pos
<1>3. \A n \in Pos : n \notin U => B(n) = B(n - 1)
  BY <1>a
<1>4. \A n \in Pos : n \in U => B(n) = B(n - 1) \cup {n}
  BY <1>a
<1>5. \A n \in Pos : n \notin B(n - 1)
  BY <1>c
<1>6. \A n \in Pos : {b \in U : b < n} = B(n - 1)
  BY <1>b
<1> USE DEF Pos
<1>7. \A n : IsFiniteSet(B(n)) /\ Cardinality(B(n)) \in Nat
  BY BelowFinite
<1> HIDE DEF B
<1> DEFINE K(n) == Cardinality(B(n))
<1>8. K(LastAddr) = Cardinality(U) /\ K(0) = 0
  BY <1>2, FS_EmptySet
<1>9. \A n \in Nat \ {0} : n \notin U => K(n) = K(n - 1)
  BY <1>3
<1>10. \A n \in Nat \ {0} : n \in U => K(n) = K(n - 1) + 1
  BY <1>4, <1>5, <1>7, FS_AddElement
<1>11. \A n : K(n) \in Nat
  BY <1>7
<1>12. \A n \in Nat \ {0} : Rank(U, n) = K(n - 1)
  BY <1>6 DEF Rank
<1> HIDE DEF K
<1> DEFINE T == {n \in Nat : K(n) > k}
           R == OpToRel(<, Nat)
<1>13. \A x, y \in Nat : x < y => <<x, y>> \in R
  BY Zenon DEF OpToRel
<1>14. PICK m \in T : \A y \in T : ~ (<<y, m>> \in R)
  <2>1. LastAddr \in T
    BY <1>8, AddrAssumption
  <2>2. IsWellFoundedOn(R, Nat)
    BY NatLessThanWellFounded, Zenon
  <2>3. T \subseteq Nat /\ T # {}
    BY <2>1
  <2> HIDE DEF T, R
  <2> QED
    BY <2>2, <2>3, WFMin, Zenon
<1> HIDE DEF R
<1>15. m \in Nat /\ K(m) > k /\ m # 0
  BY <1>8
<1>16. K(m - 1) <= k
  <2>1. m - 1 \in Nat /\ m - 1 < m
    BY <1>15
  <2>2. m - 1 \notin T
    BY <1>13, <1>14, <1>15, <2>1
  <2> QED
    BY <1>11, <2>1, <2>2
<1>17. m \in U
  BY <1>9, <1>11, <1>15, <1>16
<1>18. K(m - 1) = k
  BY <1>10, <1>11, <1>15, <1>16, <1>17
<1> QED
  BY <1>12, <1>15, <1>17, <1>18

-----------------------------------------------------------------------------
\* A rebuilt stack holds exactly the unleased allocatable addresses, each once.
LEMMA BuildConserved ==
  ASSUME NEW p, p.leases \in [Addr -> Session \cup {Nobody}], NEW asc \in BOOLEAN,
         p.free = buildFreeList(p.leases, asc)
  PROVE  p.free \in Seq(Addr) /\ Conserved(p)
<1> DEFINE U == {a \in Allocatable : p.leases[a] = Nobody}
           n == Cardinality(U)
           r(i) == IF asc THEN n - i ELSE i - 1
<1>1. U \in SUBSET Addr
  BY DEF Allocatable
<1>2. n \in Nat
  BY <1>1, BelowFinite
<1>3. p.free = [i \in 1..n |-> CHOOSE a \in U : Rank(U, a) = r(i)]
  BY Zenon DEF buildFreeList
<1>4. \A a \in U : Rank(U, a) \in 0..(n - 1)
  BY <1>1, <1>2, RankBounded
<1>5. \A k \in 0..(n - 1) : \E a \in U : Rank(U, a) = k
  <2> TAKE k \in 0..(n - 1)
  <2>1. k \in Nat /\ k < Cardinality(U)
    BY <1>2
  <2> HIDE DEF U
  <2> QED
    BY <1>1, <2>1, RankExists
<1>6. \A a, c \in U : Rank(U, a) = Rank(U, c) => a = c
  BY <1>1, RankInjective
<1>7. \A a \in Addr : a \in Allocatable => p.leases[a] # Nobody \/ a \in U
  OBVIOUS
<1>8. \A a \in U : p.leases[a] = Nobody
  OBVIOUS
<1> HIDE DEF U, n
<1>9. \A i \in 1..n : r(i) \in 0..(n - 1)
  <2>1. CASE asc
    BY <1>2, <2>1
  <2>2. CASE ~ asc
    BY <1>2, <2>2
  <2> QED
    BY <2>1, <2>2
<1>10. \A i, j \in 1..n : r(i) = r(j) => i = j
  <2>1. CASE asc
    BY <1>2, <2>1
  <2>2. CASE ~ asc
    BY <1>2, <2>2
  <2> QED
    BY <2>1, <2>2
<1>11. \A k \in 0..(n - 1) : \E i \in 1..n : r(i) = k
  <2>1. CASE asc
    <3>1. \A k \in 0..(n - 1) : n - k \in 1..n /\ n - (n - k) = k
      BY <1>2
    <3> QED
      BY <2>1, <3>1
  <2>2. CASE ~ asc
    <3>1. \A k \in 0..(n - 1) : k + 1 \in 1..n /\ (k + 1) - 1 = k
      BY <1>2
    <3> QED
      BY <2>2, <3>1
  <2> QED
    BY <2>1, <2>2
<1> HIDE DEF r
<1>12. \A i \in 1..n : p.free[i] \in U /\ Rank(U, p.free[i]) = r(i)
  BY <1>3, <1>5, <1>9
<1>13. p.free \in Seq(Addr) /\ Len(p.free) = n
  <2>1. p.free \in [1..n -> Addr]
    BY <1>1, <1>3, <1>12
  <2> QED
    BY <1>2, <2>1
<1>14. \A i, j \in 1..n : p.free[i] = p.free[j] => i = j
  BY <1>10, <1>12
<1>15. \A a \in U : \E i \in 1..n : p.free[i] = a
  BY <1>4, <1>6, <1>11, <1>12
<1>16. \A i \in 1..n : ~ Leased(p, p.free[i])
  BY <1>8, <1>12 DEF Leased
<1>17. \A a \in Allocatable : Leased(p, a) \/ \E i \in 1..n : p.free[i] = a
  BY <1>7, <1>15 DEF Leased, Allocatable
<1> QED
  BY <1>13, <1>14, <1>16, <1>17 DEF Conserved

\* A new pool is conserved.
LEMMA NewConserved == NewPoolAllocator \in Pool /\ Conserved(NewPoolAllocator)
<1> DEFINE none == [a \in Addr |-> Nobody]
           free == buildFreeList(none, TRUE)
           p == [leases |-> none, free |-> free, asc |-> TRUE]
<1>1. none \in [Addr -> Session \cup {Nobody}]
  OBVIOUS
<1>2. NewPoolAllocator = p
  BY Zenon DEF NewPoolAllocator
<1> HIDE DEF none
<1>3. p.leases = none /\ p.free = buildFreeList(none, TRUE)
  OBVIOUS
<1>4. p.free \in Seq(Addr) /\ Conserved(p)
  <2> HIDE DEF p
  <2> QED
    BY <1>1, <1>3, BuildConserved
<1> HIDE DEF free
<1>5. p \in Pool
  <2>1. free \in Seq(Addr)
    BY <1>4
  <2> QED
    BY <1>1, <2>1 DEF Pool
<1> QED
  BY <1>2, <1>4, <1>5

\* SetDirection keeps a pool conserved.
LEMMA SetDirectionConserved ==
  ASSUME NEW p \in Pool, Conserved(p), NEW asc \in BOOLEAN
  PROVE  SetDirection(p, asc) \in Pool /\ Conserved(SetDirection(p, asc))
<1>1. CASE p.asc = asc
  BY <1>1 DEF SetDirection
<1>2. CASE p.asc # asc
  <2> DEFINE q == SetDirection(p, asc)
  <2>1. /\ p.leases \in [Addr -> Session \cup {Nobody}]
        /\ q = [leases |-> p.leases, free |-> buildFreeList(p.leases, asc), asc |-> asc]
    BY <1>2 DEF SetDirection, Pool
  <2> HIDE DEF q
  <2>2. q.leases = p.leases /\ q.free = buildFreeList(p.leases, asc)
    BY <2>1
  <2>3. q.free \in Seq(Addr) /\ Conserved(q)
    BY <2>1, <2>2, BuildConserved
  <2>4. q \in Pool
    BY <2>1, <2>2, <2>3 DEF Pool
  <2> QED
    BY <2>3, <2>4 DEF q
<1> QED
  BY <1>1, <1>2

\* What Conserved says, with the stack of a pool named.
LEMMA ConservedParts ==
  ASSUME NEW p \in Pool, Conserved(p)
  PROVE  /\ p.free \in Seq(Addr) /\ Len(p.free) \in Nat
         /\ p.leases \in [Addr -> Session \cup {Nobody}] /\ p.asc \in BOOLEAN
         /\ \A i \in 1..Len(p.free) : p.free[i] \in Addr /\ p.leases[p.free[i]] = Nobody
         /\ \A i, j \in 1..Len(p.free) : p.free[i] = p.free[j] => i = j
         /\ \A a \in Allocatable : p.leases[a] = Nobody
              => \E i \in 1..Len(p.free) : p.free[i] = a
<1>1. p.free \in Seq(Addr) /\ p.leases \in [Addr -> Session \cup {Nobody}]
      /\ p.asc \in BOOLEAN
  BY DEF Pool
<1>2. Len(p.free) \in Nat /\ \A i \in 1..Len(p.free) : p.free[i] \in Addr
  BY <1>1
<1> QED
  BY <1>1, <1>2 DEF Conserved, Leased

\* What an update of the stack and of one lease yields.
LEMMA PoolUpdate ==
  ASSUME NEW p \in Pool, NEW g \in Seq(Addr), NEW a \in Addr, NEW v \in Session,
         NEW q, q = [p EXCEPT !.leases[a] = v, !.free = g]
  PROVE  q = [leases |-> [p.leases EXCEPT ![a] = v], free |-> g, asc |-> p.asc]
BY DEF Pool

\* Allocate takes an address off the stack and leases it.
LEMMA AllocateConserved ==
  ASSUME NEW p \in Pool, Conserved(p), CanAllocate(p), NEW s \in Session
  PROVE  /\ NextAddr(p) \in Addr
         /\ Allocate(p, s) \in Pool /\ Conserved(Allocate(p, s))
<1> DEFINE q == Allocate(p, s)
           n == Len(p.free)
           a == NextAddr(p)
           front == SubSeq(p.free, 1, n - 1)
           leases == [p.leases EXCEPT ![a] = s]
<1>1. n \in Nat /\ n # 0
  BY ConservedParts DEF CanAllocate
<1>2. a \in Addr /\ a = p.free[n]
  BY <1>1, ConservedParts DEF NextAddr
<1>3. /\ front \in Seq(Addr) /\ Len(front) = n - 1
      /\ \A i \in 1..(n - 1) : front[i] = p.free[i]
  BY <1>1, ConservedParts
<1>4. q = [leases |-> leases, free |-> front, asc |-> p.asc]
  <2>1. q = [p EXCEPT !.leases[a] = s, !.free = front]
    BY Zenon DEF Allocate
  <2>2. a \in Addr /\ front \in Seq(Addr)
    BY <1>2, <1>3
  <2> HIDE DEF q, a, front
  <2> QED
    BY <2>1, <2>2, PoolUpdate
<1>5. leases \in [Addr -> Session \cup {Nobody}]
  BY ConservedParts
<1>6. s # Nobody
  BY NobodyAssumption
<1>7. /\ leases[a] = s
      /\ \A c \in Addr : c # a => leases[c] = p.leases[c]
  BY <1>2, ConservedParts
<1> HIDE DEF front, leases, a, q
<1>8. \A i \in 1..(n - 1) : i \in 1..n /\ i # n
  BY <1>1
<1>f. /\ \A i \in 1..n : p.free[i] \in Addr /\ p.leases[p.free[i]] = Nobody
      /\ \A i, j \in 1..n : p.free[i] = p.free[j] => i = j
  BY ConservedParts
<1>l. n \in 1..n
  BY <1>1
<1> HIDE DEF n
<1>9. \A i, j \in 1..(n - 1) : front[i] = front[j] => i = j
  BY <1>3, <1>8, <1>f
<1>10. \A i \in 1..(n - 1) : front[i] # a /\ front[i] \in Addr
  BY <1>2, <1>3, <1>8, <1>f, <1>l
<1>11. \A i \in 1..(n - 1) : leases[front[i]] = Nobody
  BY <1>3, <1>7, <1>8, <1>10, <1>f
<1> USE DEF n
<1>12. \A c \in Allocatable : leases[c] # Nobody \/ \E i \in 1..(n - 1) : front[i] = c
  <2> SUFFICES ASSUME NEW c \in Allocatable, leases[c] = Nobody
               PROVE  \E i \in 1..(n - 1) : front[i] = c
    OBVIOUS
  <2>1. c \in Addr /\ c # a
    BY <1>6, <1>7 DEF Allocatable
  <2>2. p.leases[c] = Nobody
    BY <1>7, <2>1
  <2>3. PICK i \in 1..n : p.free[i] = c
    BY <2>2, ConservedParts
  <2>4. i \in 1..(n - 1)
    BY <1>1, <1>2, <2>1, <2>3
  <2> QED
    BY <1>3, <2>3, <2>4
<1>13. q \in Pool
  BY <1>4, <1>3, <1>5, ConservedParts DEF Pool
<1>14. q.free = front /\ q.leases = leases
  BY <1>4
<1>15. Conserved(q)
  BY <1>3, <1>9, <1>11, <1>12, <1>14 DEF Conserved, Leased
<1> QED
  BY <1>2, <1>13, <1>15 DEF q, a

\* Release puts a leased address back and leaves the pool alone otherwise.
LEMMA ReleaseConserved ==
  ASSUME NEW p \in Pool, Conserved(p), NEW a \in Addr
  PROVE  Release(p, a) \in Pool /\ Conserved(Release(p, a))
<1>1. CASE ~ Leased(p, a)
  BY <1>1 DEF Release
<1>2. CASE Leased(p, a)
  <2> DEFINE q == Release(p, a)
             n == Len(p.free)
             free == Append(p.free, a)
             leases == [p.leases EXCEPT ![a] = Nobody]
  <2>1. q = [leases |-> leases, free |-> free, asc |-> p.asc]
    BY <1>2 DEF Release, Pool
  <2>2. n \in Nat
    BY ConservedParts
  <2>3. /\ free \in Seq(Addr) /\ Len(free) = n + 1 /\ free[n + 1] = a
        /\ \A i \in 1..n : free[i] = p.free[i]
    BY ConservedParts
  <2>4. /\ leases \in [Addr -> Session \cup {Nobody}] /\ leases[a] = Nobody
        /\ \A c \in Addr : c # a => leases[c] = p.leases[c]
    BY ConservedParts
  <2>5. \A i \in 1..n : p.free[i] # a
    BY <1>2, ConservedParts DEF Leased
  <2> HIDE DEF free, leases, q
  <2>6. \A i \in 1..(n + 1) : i \in 1..n \/ i = n + 1
    BY <2>2
  <2>f. \A i, j \in 1..n : p.free[i] = p.free[j] => i = j
    BY ConservedParts
  <2> HIDE DEF n
  <2>7. \A i, j \in 1..(n + 1) : free[i] = free[j] => i = j
    BY <2>3, <2>5, <2>6, <2>f
  <2> USE DEF n
  <2>8. \A i \in 1..(n + 1) : leases[free[i]] = Nobody
    BY <2>3, <2>4, <2>6, ConservedParts
  <2>9. \A c \in Allocatable : leases[c] # Nobody \/ \E i \in 1..(n + 1) : free[i] = c
    <3> SUFFICES ASSUME NEW c \in Allocatable, leases[c] = Nobody
                 PROVE  \E i \in 1..(n + 1) : free[i] = c
      OBVIOUS
    <3>1. CASE c = a
      BY <2>2, <2>3, <3>1
    <3>2. CASE c # a
      <4>1. p.leases[c] = Nobody
        BY <2>4, <3>2 DEF Allocatable
      <4>2. PICK i \in 1..n : p.free[i] = c
        BY <4>1, ConservedParts
      <4>3. i \in 1..(n + 1)
        BY <2>2
      <4> QED
        BY <2>3, <4>2, <4>3
    <3> QED
      BY <3>1, <3>2
  <2>10. q \in Pool
    BY <2>1, <2>3, <2>4, ConservedParts DEF Pool
  <2>11. q.free = free /\ q.leases = leases
    BY <2>1
  <2>12. Conserved(q)
    BY <2>3, <2>7, <2>8, <2>9, <2>11 DEF Conserved, Leased
  <2> QED
    BY <2>10, <2>12 DEF q
<1> QED
  BY <1>1, <1>2

\* Without drops the one occurrence of an address and keeps the rest in order.
LEMMA WithoutProperties ==
  ASSUME NEW f \in Seq(Addr), NEW a \in Addr, NEW k \in 1..Len(f), f[k] = a,
         \A i, j \in 1..Len(f) : f[i] = f[j] => i = j
  PROVE  /\ Without(f, a) \in Seq(Addr) /\ Len(Without(f, a)) = Len(f) - 1
         /\ \A i \in 1..(Len(f) - 1) :
              Without(f, a)[i] = IF i < k THEN f[i] ELSE f[i + 1]
<1> DEFINE n == Len(f)
           g == [i \in 1..(n - 1) |-> IF i < k THEN f[i] ELSE f[i + 1]]
<1>1. n \in Nat /\ n # 0 /\ k \in Int
  OBVIOUS
<1>2. \A i \in 1..n : f[i] \in Addr
  OBVIOUS
<1>3. (CHOOSE i \in 1..n : f[i] = a) = k
  OBVIOUS
<1>4. Without(f, a) = g
  <2>1. \E i \in 1..n : f[i] = a
    OBVIOUS
  <2> QED
    BY <1>3, <2>1, Zenon DEF Without
<1>5. g \in [1..(n - 1) -> Addr]
  <2>1. \A i \in 1..(n - 1) : i \in 1..n /\ i + 1 \in 1..n
    BY <1>1
  <2> QED
    BY <1>2, <2>1
<1>6. n - 1 \in Nat
  BY <1>1
<1>7. g \in Seq(Addr) /\ Len(g) = n - 1
  BY <1>5, <1>6
<1> QED
  BY <1>4, <1>7

\* Reserve leases an address that is free or already the session's.
LEMMA ReserveConserved ==
  ASSUME NEW p \in Pool, Conserved(p), NEW a \in Addr, NEW s \in Session
  PROVE  Reserve(p, a, s) \in Pool /\ Conserved(Reserve(p, a, s))
<1> DEFINE n == Len(p.free)
           g == IF Leased(p, a) THEN p.free ELSE Without(p.free, a)
           leases == [p.leases EXCEPT ![a] = s]
           q == [leases |-> leases, free |-> g, asc |-> p.asc]
<1>1. CASE ~ CanReserve(p, a, s)
  BY <1>1 DEF Reserve
<1>2. CASE CanReserve(p, a, s)
  <2>1. Reserve(p, a, s) = q
    <3>1. Reserve(p, a, s) = [p EXCEPT !.leases[a] = s, !.free = g]
      BY <1>2, Zenon DEF Reserve
    <3> HIDE DEF g
    <3> QED
      BY <3>1 DEF Pool
  <2>2. /\ leases \in [Addr -> Session \cup {Nobody}] /\ leases[a] = s /\ s # Nobody
        /\ \A c \in Addr : c # a => leases[c] = p.leases[c]
    BY ConservedParts, NobodyAssumption
  <2>3. /\ p.free \in Seq(Addr) /\ n \in Nat
        /\ \A i \in 1..n : p.free[i] \in Addr /\ p.leases[p.free[i]] = Nobody
        /\ \A i, j \in 1..n : p.free[i] = p.free[j] => i = j
    BY ConservedParts
  <2>4. \A c \in Allocatable : p.leases[c] = Nobody => \E i \in 1..n : p.free[i] = c
    BY ConservedParts
  <2>5. \A c \in Allocatable : c \in Addr
    BY DEF Allocatable
  <2> HIDE DEF leases
  \* The stack that is left: no address twice, a not among them, the others kept.
  <2>6. /\ g \in Seq(Addr)
        /\ \A i, j \in 1..Len(g) : g[i] = g[j] => i = j
        /\ \A i \in 1..Len(g) : g[i] # a /\ \E j \in 1..n : g[i] = p.free[j]
        /\ \A j \in 1..n : p.free[j] # a => \E i \in 1..Len(g) : g[i] = p.free[j]
    <3>1. CASE \A i \in 1..n : p.free[i] # a
      <4>1. g = p.free
        BY <3>1 DEF Without
      <4> HIDE DEF g
      <4> QED
        BY <2>3, <3>1, <4>1
    <3>2. CASE \E i \in 1..n : p.free[i] = a
      <4>1. PICK k \in 1..n : p.free[k] = a
        BY <3>2
      <4>2. g = Without(p.free, a)
        BY <2>3, <4>1 DEF Leased
      <4> HIDE DEF g
      <4>3. /\ g \in Seq(Addr) /\ Len(g) = n - 1
            /\ \A i \in 1..(n - 1) : g[i] = IF i < k THEN p.free[i] ELSE p.free[i + 1]
        BY <2>3, <4>1, <4>2, WithoutProperties, SMTT(20)
      <4> DEFINE at(i) == IF i < k THEN i ELSE i + 1
      <4>4. \A i \in 1..(n - 1) : at(i) \in 1..n /\ at(i) # k /\ g[i] = p.free[at(i)]
        BY <2>3, <4>3
      <4>5. \A i, j \in 1..(n - 1) : at(i) = at(j) => i = j
        BY <2>3
      <4>6. \A j \in 1..n : j # k => \E i \in 1..(n - 1) : at(i) = j
        <5> SUFFICES ASSUME NEW j \in 1..n, j # k PROVE \E i \in 1..(n - 1) : at(i) = j
          OBVIOUS
        <5>1. CASE j < k
          <6>1. j \in 1..(n - 1) /\ at(j) = j
            BY <2>3, <5>1
          <6> QED
            BY <6>1
        <5>2. CASE ~ (j < k)
          <6>1. j - 1 \in 1..(n - 1) /\ at(j - 1) = j
            BY <2>3, <5>2
          <6> QED
            BY <6>1
        <5> QED
          BY <5>1, <5>2
      <4> HIDE DEF at, n
      <4>7. \A i, j \in 1..(n - 1) : g[i] = g[j] => i = j
        BY <2>3, <4>4, <4>5
      <4>8. \A i \in 1..(n - 1) : g[i] # a /\ \E j \in 1..n : g[i] = p.free[j]
        BY <2>3, <4>1, <4>4
      <4>9. \A j \in 1..n : p.free[j] # a => \E i \in 1..(n - 1) : g[i] = p.free[j]
        BY <4>1, <4>4, <4>6
      <4> QED
        BY <4>3, <4>7, <4>8, <4>9
    <3> QED
      BY <3>1, <3>2
  <2> HIDE DEF g, n
  <2>7. \A i \in 1..Len(g) : leases[g[i]] = Nobody
    BY <2>2, <2>3, <2>6
  <2>8. \A c \in Allocatable : leases[c] # Nobody \/ \E i \in 1..Len(g) : g[i] = c
    BY <2>2, <2>4, <2>5, <2>6
  <2>9. q \in Pool
    BY <2>2, <2>6, ConservedParts DEF Pool
  <2>10. q.free = g /\ q.leases = leases
    OBVIOUS
  <2> HIDE DEF q
  <2>11. Conserved(q)
    BY <2>6, <2>7, <2>8, <2>10 DEF Conserved, Leased
  <2> QED
    BY <2>1, <2>9, <2>11
<1> QED
  BY <1>1, <1>2

-----------------------------------------------------------------------------
(***************************************************************************)
(* What each operation does to the leases.                                 *)
(***************************************************************************)
\* Allocate leases an address nobody has.
LEMMA AllocateLease ==
  ASSUME NEW p \in Pool, Conserved(p), CanAllocate(p), NEW s \in Session
  PROVE  /\ NextAddr(p) \in Addr /\ p.leases[NextAddr(p)] = Nobody
         /\ Allocate(p, s).leases = [p.leases EXCEPT ![NextAddr(p)] = s]
<1>1. p.free \in Seq(Addr) /\ Len(p.free) \in Nat /\ Len(p.free) # 0
  BY ConservedParts DEF CanAllocate
<1>2. Len(p.free) \in 1..Len(p.free)
  BY <1>1
<1>3. NextAddr(p) \in Addr /\ p.leases[NextAddr(p)] = Nobody
  BY <1>2, ConservedParts DEF NextAddr
<1>4. Allocate(p, s).leases = [p.leases EXCEPT ![NextAddr(p)] = s]
  BY DEF Allocate, Pool
<1> QED
  BY <1>3, <1>4

\* Reserve gives the session the address it may have.
LEMMA ReserveLease ==
  ASSUME NEW p \in Pool, NEW a \in Addr, NEW s \in Session
  PROVE  Reserve(p, a, s).leases =
           IF CanReserve(p, a, s) THEN [p.leases EXCEPT ![a] = s] ELSE p.leases
BY DEF Reserve, Pool

\* Release leaves the address with nobody.
LEMMA ReleaseLease ==
  ASSUME NEW p \in Pool, NEW a \in Addr
  PROVE  Release(p, a).leases = [p.leases EXCEPT ![a] = Nobody]
BY DEF Release, Leased, Pool

\* A new direction rebuilds the stack only.
LEMMA SetDirectionLease ==
  ASSUME NEW p \in Pool, NEW asc \in BOOLEAN
  PROVE  SetDirection(p, asc).leases = p.leases
BY DEF SetDirection, Pool
=============================================================================
