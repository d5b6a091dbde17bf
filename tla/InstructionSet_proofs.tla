----------------------- MODULE InstructionSet_proofs ------------------------
(***************************************************************************)
(* Proofs about the instructions: that the ALU's C++ expressions compute   *)
(* what RV32I defines bit by bit, for every pair of operands and every     *)
(* word size the model allows; and about the decoder and its listing, for  *)
(* every register, every immediate and every 32-bit word.                  *)
(***************************************************************************)
EXTENDS Disassembly, ALUReference, FiniteSetTheorems, WellFoundedInduction, TLAPS

Less == OpToRel(<, Nat)

LEMMA LessThan == \A m, n \in Nat : <<m, n>> \in Less <=> m < n
BY DEF Less, OpToRel

\* What induction comes down to here: a set of counterexamples has a least one.
LEMMA Smallest ==
  ASSUME NEW Q \in SUBSET Nat, Q # {}
  PROVE  \E n \in Q : \A m \in Q : n <= m
<1>1. IsWellFoundedOn(Less, Nat)
  BY NatLessThanWellFounded, Zenon DEF Less
<1>2. PICK n \in Q : \A m \in Q : ~ (<<m, n>> \in Less)
  BY <1>1, WFMin, Zenon
<1>3. ASSUME NEW m \in Q PROVE n <= m
  <2>1. m \in Nat /\ n \in Nat
    OBVIOUS
  <2>2. ~ (m < n)
    BY <1>2, <2>1, LessThan, Zenon
  <2> QED
    BY <2>1, <2>2, SMT
<1> QED
  BY <1>3

\* Induction, for a set in place of a predicate.
LEMMA Inductive ==
  ASSUME NEW Q \in SUBSET Nat, 0 \in Q, \A n \in Q : n + 1 \in Q
  PROVE  \A n \in Nat : n \in Q
<1> SUFFICES ASSUME Nat \ Q # {} PROVE FALSE
  OBVIOUS
<1>1. PICK m \in Nat \ Q : \A k \in Nat \ Q : m <= k
  BY Smallest
<1>2. m # 0 /\ m - 1 \in Nat
  BY SMT
<1>3. m - 1 \in Q
  BY <1>1, <1>2, SMT
<1> QED
  BY <1>2, <1>3, SMT

-----------------------------------------------------------------------------
(***************************************************************************)
(* PowersAdd of two.                                                          *)
(***************************************************************************)
LEMMA Subsets ==
  ASSUME NEW n \in Nat
  PROVE  /\ IsFiniteSet(SUBSET (1 .. n)) /\ Cardinality(SUBSET (1 .. n)) = 2 ^ n
         /\ 2 ^ n \in Nat
<1>1. IsFiniteSet(1 .. n) /\ Cardinality(1 .. n) = n
  BY FS_Interval, SMT
<1>2. IsFiniteSet(SUBSET (1 .. n)) /\ Cardinality(SUBSET (1 .. n)) = 2 ^ n
  BY <1>1, FS_SUBSET, Zenon
<1> QED
  BY <1>2, FS_CardinalityType, Zenon

\* A set of numbers up to n + 1 has n + 1 or not.
LEMMA Doubling ==
  ASSUME NEW n \in Nat
  PROVE  2 ^ (n + 1) = 2 ^ n + 2 ^ n
<1> DEFINE A == SUBSET (1 .. n)
           D == {Q \cup {n + 1} : Q \in A}
<1>1. SUBSET (1 .. n + 1) = A \cup D
  <2>1. ASSUME NEW Q \in SUBSET (1 .. n + 1) PROVE Q \in A \cup D
    <3>1. CASE n + 1 \in Q
      <4>1. Q \ {n + 1} \in A /\ Q = (Q \ {n + 1}) \cup {n + 1}
        BY <3>1, SMT
      <4> QED
        BY <4>1, Zenon
    <3>2. CASE n + 1 \notin Q
      BY <3>2, SMT
    <3> QED
      BY <3>1, <3>2
  <2>2. A \cup D \subseteq SUBSET (1 .. n + 1)
    <3>1. 1 .. n \subseteq 1 .. n + 1 /\ n + 1 \in 1 .. n + 1
      BY SMT
    <3> QED
      BY <3>1, Zenon
  <2> QED
    BY <2>1, <2>2, Zenon
<1>2. A \cap D = {}
  <2>1. \A Q \in A : n + 1 \notin Q
    BY SMT
  <2> QED
    BY <2>1, Zenon
<1>3. IsFiniteSet(D) /\ Cardinality(D) = Cardinality(A)
  <2> DEFINE add == [Q \in A |-> Q \cup {n + 1}]
  <2>1. add \in Bijection(A, D)
    <3>1. \A Q, T \in A : add[Q] = add[T] => Q = T
      <4>1. \A Q \in A : n + 1 \notin Q
        BY SMT
      <4> QED
        BY <4>1, SMT
    <3>2. \A T \in D : \E Q \in A : add[Q] = T
      BY Zenon
    <3>3. add \in [A -> D]
      BY Zenon
    <3> QED
      BY <3>1, <3>2, <3>3, Zenon DEF Bijection, Injection, Surjection, IsInjective
  <2>2. IsFiniteSet(A)
    BY Subsets
  <2> HIDE DEF A, D, add
  <2> QED
    BY <2>1, <2>2, FS_Bijection, Zenon DEF ExistsBijection
<1>4. /\ IsFiniteSet(A) /\ Cardinality(A) = 2 ^ n
      /\ 2 ^ n \in Nat
      /\ Cardinality(A \cup D) = 2 ^ (n + 1)
  <2>1. n + 1 \in Nat
    BY SMT
  <2> HIDE DEF D
  <2> QED
    BY <1>1, <2>1, Subsets, Zenon
<1>5. Cardinality(A \cap D) = 0
  BY <1>2, FS_EmptySet
<1> HIDE DEF A, D
<1>6. Cardinality(A \cup D) = Cardinality(A) + Cardinality(D) - Cardinality(A \cap D)
  BY <1>3, <1>4, FS_Union, Zenon
<1> QED
  BY <1>3, <1>4, <1>5, <1>6, SMT

LEMMA Power ==
  /\ 2 ^ 0 = 1
  /\ \A n \in Nat : 2 ^ n \in Nat /\ 2 ^ n > 0 /\ 2 ^ (n + 1) = 2 * 2 ^ n /\ n < 2 ^ n
<1>1. 2 ^ 0 = 1
  BY SMT
<1>2. \A n \in Nat : 2 ^ n \in Nat /\ 2 ^ (n + 1) = 2 * 2 ^ n
  <2> TAKE n \in Nat
  <2>1. 2 ^ n \in Nat /\ 2 ^ (n + 1) = 2 ^ n + 2 ^ n
    BY Subsets, Doubling
  <2> QED
    BY <2>1, SMT
<1> DEFINE Q == {n \in Nat : 2 ^ n > 0 /\ n < 2 ^ n}
<1>3. \A n \in Q : n + 1 \in Q
  BY <1>2, SMT
<1>4. Q \in SUBSET Nat /\ 0 \in Q
  BY <1>1, SMT
<1>5. \A n \in Nat : n \in Q
  <2> HIDE DEF Q
  <2> QED
    BY <1>3, <1>4, Inductive
<1> QED
  BY <1>1, <1>2, <1>5

\* a + b times, and a times b times.
LEMMA PowersAdd ==
  ASSUME NEW m \in Nat, NEW n \in Nat
  PROVE  2 ^ (m + n) = 2 ^ m * 2 ^ n
<1> DEFINE Q == {k \in Nat : 2 ^ (m + k) = 2 ^ m * 2 ^ k}
<1>1. 0 \in Q
  BY Power, SMT
<1>2. ASSUME NEW k \in Q PROVE k + 1 \in Q
  <2>1. 2 ^ (m + k) = 2 ^ m * 2 ^ k /\ m + k \in Nat /\ k \in Nat
    OBVIOUS
  <2>2. 2 ^ ((m + k) + 1) = 2 * (2 ^ m * 2 ^ k) /\ 2 ^ (k + 1) = 2 * 2 ^ k
    BY <2>1, Power
  <2>3. (m + k) + 1 = m + (k + 1)
    BY <2>1
  <2>4. 2 * (2 ^ m * 2 ^ k) = 2 ^ m * (2 * 2 ^ k)
    BY <2>1, Power, SMT
  <2>5. k + 1 \in Nat
    BY <2>1
  <2> QED
    BY <2>2, <2>3, <2>4, <2>5, Zenon
<1>3. Q \in SUBSET Nat
  OBVIOUS
<1> HIDE DEF Q
<1>4. n \in Q
  BY <1>1, <1>2, <1>3, Inductive
<1> QED
  BY <1>4 DEF Q

-----------------------------------------------------------------------------
(***************************************************************************)
(* Quotients, remainders and bits.                                         *)
(***************************************************************************)
LEMMA Divided ==
  ASSUME NEW p \in Nat, p > 0, NEW v \in Int
  PROVE  /\ v = p * (v \div p) + (v % p)
         /\ v \div p \in Int /\ v % p \in 0 .. p - 1
BY SMT

LEMMA Quotient ==
  ASSUME NEW p \in Nat, p > 0, NEW q \in Int, NEW r \in 0 .. p - 1
  PROVE  (p * q + r) \div p = q /\ (p * q + r) % p = r
BY SMT

\* Division by a product.
LEMMA Twice ==
  ASSUME NEW p \in Nat, p > 0, NEW n \in Nat, n > 0, NEW v \in Int
  PROVE  /\ v \div (p * n) = (v \div p) \div n
         /\ v % (p * n) = (v % p) + p * ((v \div p) % n)
<1> DEFINE q == v \div p
           r == v % p
           h == q \div n
           b == q % n
<1>1. v = p * q + r /\ q \in Int /\ r \in 0 .. p - 1
  BY Divided
<1>2. q = n * h + b /\ h \in Int /\ b \in 0 .. n - 1
  BY <1>1, Divided
<1> HIDE DEF q, r, h, b
<1>3. v = (p * n) * h + (p * b + r)
  <2>1. p * (n * h + b) = (p * n) * h + p * b
    BY <1>2, SMT
  <2> QED
    BY <1>1, <1>2, <2>1, SMT
<1>4. p * n \in Nat /\ p * n > 0 /\ p * b + r \in 0 .. p * n - 1
  <2>1. p * b <= p * (n - 1) /\ p * b >= 0 /\ p * b \in Int
    BY <1>2, SMT
  <2>2. p * (n - 1) = p * n - p
    BY SMT
  <2>3. p * n \in Nat /\ p * n > 0
    BY SMT
  <2> DEFINE u == p * b
             w == p * n
  <2> HIDE DEF u, w
  <2> QED
    BY <1>1, <2>1, <2>2, <2>3, SMT DEF u, w
<1>5. v \div (p * n) = h /\ v % (p * n) = p * b + r
  <2> DEFINE w == p * n
             s == p * b + r
  <2>1. v = w * h + s /\ w \in Nat /\ w > 0 /\ s \in 0 .. w - 1
    BY <1>3, <1>4
  <2> HIDE DEF w, s
  <2>2. v \div w = h /\ v % w = s
    BY <1>2, <2>1, Quotient
  <2> QED
    BY <2>2 DEF w, s
<1> QED
  BY <1>1, <1>5, <1>2 DEF q, r, h, b

-----------------------------------------------------------------------------
(***************************************************************************)
(* Recursive functions, and numbers made of their bits.                    *)
(***************************************************************************)
Iterates(f, V, start, step, n) ==
  /\ f \in [0 .. n -> V] /\ f[0] = start
  /\ \A k \in 1 .. n : f[k] = step[<<k - 1, f[k - 1]>>]

\* A function that is defined by recursion over an interval exists.
LEMMA Recursion ==
  ASSUME NEW V, NEW start \in V, NEW n \in Nat,
         NEW step, \A k \in Nat : \A v \in V : step[<<k, v>>] \in V
  PROVE  \E f : Iterates(f, V, start, step, n)
<1> DEFINE Is(f, m) ==
             f = [k \in 0 .. m |-> IF k = 0 THEN start ELSE step[<<k - 1, f[k - 1]>>]]
           Q == {m \in Nat : \E f \in [0 .. m -> V] : Is(f, m)}
<1>1. 0 \in Q
  <2> DEFINE f == [k \in 0 .. 0 |-> start]
  <2>1. f \in [0 .. 0 -> V] /\ Is(f, 0)
    BY SMT
  <2> HIDE DEF f, Is
  <2> QED
    BY <2>1
<1>2. ASSUME NEW m \in Q PROVE m + 1 \in Q
  <2>1. PICK f \in [0 .. m -> V] : Is(f, m)
    OBVIOUS
  <2> DEFINE g == [k \in 0 .. m + 1 |-> IF k = m + 1 THEN step[<<m, f[m]>>] ELSE f[k]]
  <2>2. m \in Nat /\ f[m] \in V
    OBVIOUS
  <2>3. g \in [0 .. m + 1 -> V]
    <3>1. \A k \in 0 .. m + 1 : k # m + 1 => k \in 0 .. m
      BY <2>2, SMT
    <3>2. step[<<m, f[m]>>] \in V
      BY <2>2, Zenon
    <3> QED
      BY <3>1, <3>2
  <2>4. ASSUME NEW k \in 0 .. m + 1
        PROVE  g[k] = IF k = 0 THEN start ELSE step[<<k - 1, g[k - 1]>>]
    <3>1. CASE k = m + 1
      <4>1. g[k] = step[<<m, f[m]>>] /\ g[k - 1] = f[m] /\ k - 1 = m /\ k # 0
        BY <2>2, <3>1, SMT
      <4> QED
        BY <4>1, Zenon
    <3>2. CASE k # m + 1
      <4>1. k \in 0 .. m /\ (k # 0 => k - 1 \in 0 .. m /\ k - 1 \in 0 .. m + 1 /\ k - 1 # m + 1)
        BY <2>2, <3>2, SMT
      <4>2. g[k] = f[k] /\ (k # 0 => g[k - 1] = f[k - 1])
        BY <3>2, <4>1, Zenon
      <4>3. f[k] = IF k = 0 THEN start ELSE step[<<k - 1, f[k - 1]>>]
        BY <2>1, <4>1, Zenon
      <4> HIDE DEF g
      <4> QED
        BY <4>2, <4>3, Zenon
    <3> QED
      BY <3>1, <3>2
  <2>5. Is(g, m + 1)
    <3> HIDE DEF g
    <3> QED
      BY <2>3, <2>4, Zenon
  <2>6. m + 1 \in Nat
    BY <2>2
  <2> HIDE DEF g, Is
  <2> QED
    BY <2>3, <2>5, <2>6, Zenon
<1>3. Q \in SUBSET Nat
  OBVIOUS
<1> HIDE DEF Q
<1>4. n \in Q
  BY <1>1, <1>2, <1>3, Inductive
<1>5. PICK f \in [0 .. n -> V] : Is(f, n)
  BY <1>4 DEF Q
<1>6. f[0] = start /\ \A k \in 1 .. n : f[k] = step[<<k - 1, f[k - 1]>>]
  <2>1. 0 \in 0 .. n /\ \A k \in 1 .. n : k \in 0 .. n /\ k # 0
    BY SMT
  <2>2. \A k \in 0 .. n : f[k] = IF k = 0 THEN start ELSE step[<<k - 1, f[k - 1]>>]
    BY <1>5, Zenon
  <2> QED
    BY <2>1, <2>2, Zenon
<1> QED
  BY <1>6 DEF Iterates

\* The sums of the powers in Q, from below.
Lowest(Q) ==
  CHOOSE low :
    low = [k \in 0 .. XLen |->
             IF k = 0 THEN 0 ELSE low[k - 1] + (IF k - 1 \in Q THEN 2 ^ (k - 1) ELSE 0)]

LEMMA LowestIs ==
  ASSUME NEW Q
  PROVE  LET low == Lowest(Q)
         IN  /\ low \in [0 .. XLen -> Int]
             /\ low[0] = 0
             /\ \A k \in 0 .. XLen - 1 :
                  low[k + 1] = low[k] + (IF k \in Q THEN 2 ^ k ELSE 0)
             /\ FromOnes(Q) = low[XLen]
<1> DEFINE step == [p \in Nat \X Int |-> p[2] + (IF p[1] \in Q THEN 2 ^ p[1] ELSE 0)]
           Is(low) == low = [k \in 0 .. XLen |->
                        IF k = 0 THEN 0
                        ELSE low[k - 1] + (IF k - 1 \in Q THEN 2 ^ (k - 1) ELSE 0)]
<1>1. step \in [Nat \X Int -> Int]
  BY Power
<1>2. XLen \in Nat
  BY XLenAssumption
<1>3. PICK f \in [0 .. XLen -> Int] :
        f[0] = 0 /\ \A k \in 1 .. XLen : f[k] = step[<<k - 1, f[k - 1]>>]
  <2> DEFINE V == Int
  <2>1. 0 \in V /\ \A k \in Nat : \A v \in V : step[<<k, v>>] \in V
    BY <1>1
  <2> HIDE DEF step, V
  <2>2. \E f : Iterates(f, V, 0, step, XLen)
    BY <1>2, <2>1, Recursion, Zenon
  <2> QED
    BY <2>2 DEF V, Iterates
<1>4. Is(f)
  <2>1. ASSUME NEW k \in 0 .. XLen
        PROVE  f[k] = IF k = 0 THEN 0
                      ELSE f[k - 1] + (IF k - 1 \in Q THEN 2 ^ (k - 1) ELSE 0)
    <3>1. k # 0 => /\ k - 1 \in Nat /\ f[k - 1] \in Int
                   /\ f[k] = step[<<k - 1, f[k - 1]>>]
      <4> HIDE DEF step
      <4>1. k # 0 => k \in 1 .. XLen /\ k - 1 \in 0 .. XLen /\ k - 1 \in Nat
        BY <1>2, SMT
      <4> QED
        BY <1>3, <4>1, Zenon
    <3> QED
      BY <1>3, <3>1, Zenon
  <2> QED
    BY <2>1, Zenon
<1>5. Is(Lowest(Q))
  BY <1>4 DEF Lowest
<1> DEFINE low == Lowest(Q)
<1>6. FromOnes(Q) = low[XLen]
  BY DEF FromOnes, Lowest
<1> HIDE DEF low
<1>7. low[0] = 0
  BY <1>2, <1>5, SMT DEF low
<1>8. ASSUME NEW k \in 0 .. XLen - 1
      PROVE  low[k + 1] = low[k] + (IF k \in Q THEN 2 ^ k ELSE 0)
  <2>1. k + 1 \in 0 .. XLen /\ k + 1 # 0 /\ (k + 1) - 1 = k
    BY <1>2, SMT
  <2> QED
    BY <1>5, <2>1, Zenon DEF low
<1>9. low \in [0 .. XLen -> Int]
  <2> DEFINE T == {k \in Nat : k <= XLen => low[k] \in Int}
  <2>1. 0 \in T
    BY <1>7, SMT
  <2>2. ASSUME NEW k \in T PROVE k + 1 \in T
    <3>1. CASE k + 1 <= XLen
      <4>1. k \in 0 .. XLen - 1 /\ low[k] \in Int
        BY <1>2, <3>1, SMT
      <4>2. low[k + 1] \in Int
        BY <1>8, <4>1, Power, SMT
      <4> QED
        BY <4>2
    <3> QED
      BY <3>1
  <2>3. T \in SUBSET Nat
    OBVIOUS
  <2>4. \A k \in Nat : k \in T
    <3> HIDE DEF T
    <3> QED
      BY <2>1, <2>2, <2>3, Inductive
  <2>5. \A k \in 0 .. XLen : low[k] \in Int
    BY <1>2, <2>4, SMT
  <2> QED
    BY <1>5, <2>5, Zenon DEF low
<1> QED
  BY <1>6, <1>7, <1>8, <1>9 DEF low

\* A number is the sum of the powers at its bits.
LEMMA Whole ==
  ASSUME NEW v \in Int
  PROVE  FromOnes(Ones(v)) = v % Modulus
<1> DEFINE low == Lowest(Ones(v))
           Q == {k \in Nat : k <= XLen => low[k] = v % 2 ^ k}
<1>1. XLen \in Nat
  BY XLenAssumption
<1>2. 0 \in Q
  <2>1. v % 2 ^ 0 = 0
    BY Power, SMT
  <2> QED
    BY <2>1, LowestIs
<1>3. ASSUME NEW k \in Q PROVE k + 1 \in Q
  <2> SUFFICES ASSUME k + 1 <= XLen PROVE low[k + 1] = v % 2 ^ (k + 1)
    OBVIOUS
  <2>1. k \in 0 .. XLen - 1 /\ low[k] = v % 2 ^ k
    BY <1>1, SMT
  <2>2. low[k + 1] = low[k] + (IF k \in Ones(v) THEN 2 ^ k ELSE 0)
    BY <2>1, LowestIs
  <2>3. k \in Ones(v) <=> (v \div 2 ^ k) % 2 = 1
    BY <2>1 DEF Ones
  <2> DEFINE p == 2 ^ k
             b == (v \div p) % 2
  <2>4. p \in Nat /\ p > 0 /\ 2 ^ (k + 1) = p * 2
    <3>1. k \in Nat
      BY <2>1, <1>1, SMT
    <3> QED
      BY <3>1, Power, SMT
  <2> HIDE DEF low, Q
  <2>5. v % (p * 2) = (v % p) + p * b
    BY <2>4, Twice
  <2>6. b \in {0, 1}
    BY <2>4, SMT
  <2>7. p * b = IF b = 1 THEN p ELSE 0
    BY <2>4, <2>6, SMT
  <2> QED
    BY <2>1, <2>2, <2>3, <2>4, <2>5, <2>7, Zenon
<1>4. Q \in SUBSET Nat
  OBVIOUS
<1>5. XLen \in Q
  <2> HIDE DEF Q
  <2> QED
    BY <1>1, <1>2, <1>3, <1>4, Inductive
<1>6. low[XLen] = v % 2 ^ XLen
  BY <1>1, <1>5, SMT
<1> QED
  BY <1>6, LowestIs DEF Modulus

LEMMA Sizes ==
  /\ XLen \in Nat /\ XLen > 0 /\ Modulus \in Nat /\ Modulus > XLen
  /\ Sign \in Nat /\ Sign + 1 = XLen /\ Index = 0 .. Sign
  /\ Modulus = 2 * 2 ^ Sign /\ 2 ^ Sign \in Nat /\ 2 ^ Sign > 0 /\ Modulus \div 2 = 2 ^ Sign
<1>1. XLen \in Nat /\ XLen > 0
  BY XLenAssumption
<1>2. Sign \in Nat /\ Sign + 1 = XLen
  BY <1>1 DEF Sign
<1>3. /\ Modulus \in Nat /\ Modulus > XLen /\ Modulus = 2 * 2 ^ Sign
      /\ 2 ^ Sign \in Nat /\ 2 ^ Sign > 0
  BY <1>1, <1>2, Power DEF Modulus
<1>4. Modulus \div 2 = 2 ^ Sign
  BY <1>3, SMT
<1> QED
  BY <1>1, <1>2, <1>3, <1>4 DEF Index

LEMMA Positions ==
  ASSUME NEW k \in Index
  PROVE  k \in Nat /\ k <= Sign /\ k + 1 \in 0 .. XLen /\ k \in 0 .. XLen - 1 /\ k < XLen
BY Sizes, SMT

\* A number is known by its bits.
LEMMA NumberOf ==
  ASSUME NEW v \in Int, NEW D, D = {k \in Index : Bit(v, k)}
  PROVE  FromOnes(D) = v % Modulus
<1>1. Ones(v) = D
  BY Sizes DEF Ones, Bit, Index, Sign
<1> QED
  BY <1>1, Whole

\* The bits of a word do not depend on what is above them.
LEMMA BitOfTruncated ==
  ASSUME NEW v \in Int, NEW k \in Index
  PROVE  Bit(v % Modulus, k) <=> Bit(v, k)
<1> DEFINE p == 2 ^ k
           m == 2 ^ (Sign - k)
           q == v \div p
           r == v % p
<1>1. k \in Nat /\ Sign - k \in Nat
  BY Positions, Sizes, SMT
<1>2. p \in Nat /\ p > 0 /\ m \in Nat /\ m > 0
  BY <1>1, Power
<1>3. Modulus = p * (2 * m)
  <2>1. 2 ^ Sign = p * m
    <3>1. k + (Sign - k) = Sign
      BY <1>1, Sizes, SMT
    <3> QED
      BY <1>1, <3>1, PowersAdd
  <2> HIDE DEF p, m
  <2> QED
    BY <1>2, <2>1, Sizes, SMT
<1>4. q \in Int /\ r \in 0 .. p - 1
  BY <1>2, Divided
<1>5. 2 * m \in Nat /\ 2 * m > 0
  BY <1>2, SMT
<1> HIDE DEF p, m
<1>6. v % Modulus = r + p * (q % (2 * m))
  BY <1>2, <1>3, <1>5, Twice
<1>7. q % (2 * m) = (q % 2) + 2 * ((q \div 2) % m)
  <2>1. 2 \in Nat /\ 2 > 0
    OBVIOUS
  <2> HIDE DEF q
  <2> QED
    BY <1>2, <1>4, <2>1, Twice
<1> HIDE DEF q, r
<1>8. (v % Modulus) \div p = q % (2 * m)
  <2> DEFINE t == q % (2 * m)
  <2>1. t \in Int
    BY <1>4, <1>5, Divided
  <2> HIDE DEF t
  <2>2. v % Modulus = p * t + r
    BY <1>2, <1>4, <1>6, <2>1, SMT DEF t
  <2>3. (p * t + r) \div p = t
    BY <1>2, <1>4, <2>1, Quotient
  <2> QED
    BY <2>2, <2>3 DEF t
<1>9. (q % (2 * m)) % 2 = q % 2
  <2> DEFINE h == (q \div 2) % m
  <2>1. h \in Int
    BY <1>2, <1>4, SMT
  <2> HIDE DEF h
  <2>2. q % (2 * m) = (q % 2) + 2 * h
    BY <1>7 DEF h
  <2> QED
    BY <1>4, <2>1, <2>2, SMT
<1> QED
  BY <1>8, <1>9 DEF Bit, p, q

\* Two operands with the same bits are the same to all that looks at bits.
LEMMA TruncatedIs ==
  ASSUME NEW v \in Int
  PROVE  /\ Truncated(v) \in Word
         /\ \A k \in Index : Bit(Truncated(v), k) <=> Bit(v, k)
         /\ v \in Word => Truncated(v) = v
<1>1. v % Modulus \in 0 .. Modulus - 1 /\ (v \in Word => v % Modulus = v)
  <2> DEFINE m == Modulus
  <2>1. m \in Nat /\ m > 0
    BY Sizes
  <2> HIDE DEF m
  <2>2. v % m \in 0 .. m - 1 /\ (v \in 0 .. m - 1 => v % m = v)
    BY <2>1, SMT
  <2> QED
    BY <2>2 DEF m, Word
<1> QED
  BY <1>1, BitOfTruncated DEF Truncated, Word

\* What is a multiple of the modulus away has the same word.
LEMMA Wrapped ==
  ASSUME NEW v \in Int, NEW d \in Int
  PROVE  (v + d * Modulus) % Modulus = v % Modulus
<1> DEFINE m == Modulus
           q == v \div m
           r == v % m
<1>1. m \in Nat /\ m > 0
  BY Sizes
<1> HIDE DEF m
<1>2. v = m * q + r /\ q \in Int /\ r \in 0 .. m - 1
  BY <1>1, Divided
<1> HIDE DEF q, r
<1>3. v + d * m = m * (q + d) + r /\ q + d \in Int
  BY <1>1, <1>2, SMT
<1>4. (m * (q + d) + r) % m = r
  BY <1>1, <1>2, <1>3, Quotient
<1> QED
  BY <1>3, <1>4 DEF m, r

-----------------------------------------------------------------------------
(***************************************************************************)
(* The adder.                                                              *)
(***************************************************************************)
LEMMA CarryIs ==
  ASSUME NEW a, NEW b, NEW c \in BOOLEAN
  PROVE  LET carry == Carry(a, b, c)
         IN  /\ carry[0] = c
             /\ \A k \in 0 .. XLen - 1 :
                  carry[k + 1] = (\/ Bit(a, k) /\ Bit(b, k)
                                  \/ (Bit(a, k) \/ Bit(b, k)) /\ carry[k])
<1> DEFINE next(k, v) == \/ Bit(a, k) /\ Bit(b, k)
                         \/ (Bit(a, k) \/ Bit(b, k)) /\ v
           step == [p \in Nat \X BOOLEAN |-> next(p[1], p[2])]
           Is(f) == f = [k \in 0 .. XLen |-> IF k = 0 THEN c ELSE next(k - 1, f[k - 1])]
<1>1. \A k \in Nat : \A v \in BOOLEAN : step[<<k, v>>] = next(k, v) /\ next(k, v) \in BOOLEAN
  <2> TAKE k \in Nat, v \in BOOLEAN
  <2>1. <<k, v>> \in Nat \X BOOLEAN /\ <<k, v>>[1] = k /\ <<k, v>>[2] = v
    OBVIOUS
  <2>2. next(k, v) \in BOOLEAN
    BY Zenon
  <2> HIDE DEF next
  <2> QED
    BY <2>1, <2>2, Zenon
<1> HIDE DEF next
<1>2. XLen \in Nat
  BY Sizes
<1>3. PICK f \in [0 .. XLen -> BOOLEAN] :
        f[0] = c /\ \A k \in 1 .. XLen : f[k] = step[<<k - 1, f[k - 1]>>]
  <2> DEFINE V == BOOLEAN
  <2>1. c \in V /\ \A k \in Nat : \A v \in V : step[<<k, v>>] \in V
    BY <1>1, Zenon
  <2> HIDE DEF step, V
  <2>2. \E f : Iterates(f, V, c, step, XLen)
    BY <1>2, <2>1, Recursion, Zenon
  <2> QED
    BY <2>2, Zenon DEF V, Iterates
<1>4. Is(f)
  <2>1. ASSUME NEW k \in 0 .. XLen
        PROVE  f[k] = IF k = 0 THEN c ELSE next(k - 1, f[k - 1])
    <3> HIDE DEF step
    <3>1. k # 0 => k \in 1 .. XLen /\ k - 1 \in 0 .. XLen /\ k - 1 \in Nat
      BY <1>2, SMT
    <3>2. k # 0 => /\ f[k] = step[<<k - 1, f[k - 1]>>]
                   /\ step[<<k - 1, f[k - 1]>>] = next(k - 1, f[k - 1])
      BY <1>1, <1>3, <3>1, Zenon
    <3> QED
      BY <1>3, <3>2, Zenon
  <2> QED
    BY <2>1, Zenon
<1> DEFINE carry == Carry(a, b, c)
<1>5. Is(carry)
  BY <1>4, Zenon DEF Carry, next
<1> HIDE DEF carry
<1>6. carry[0] = c
  BY <1>2, <1>5, SMT
<1>7. ASSUME NEW k \in 0 .. XLen - 1
      PROVE  carry[k + 1] = next(k, carry[k])
  <2>1. k + 1 \in 0 .. XLen /\ k + 1 # 0 /\ (k + 1) - 1 = k
    BY <1>2, SMT
  <2> QED
    BY <1>5, <2>1, Zenon
<1> QED
  BY <1>6, <1>7, Zenon DEF carry, next

\* One step of the adder: what is below bit k + 1 of an operand is what is
\* below bit k, and that bit.
LEMMA BelowBit ==
  ASSUME NEW v \in Int, NEW k \in Nat
  PROVE  /\ v % 2 ^ (k + 1) = (v % 2 ^ k) + (IF Bit(v, k) THEN 2 ^ k ELSE 0)
         /\ v % 2 ^ k \in 0 .. 2 ^ k - 1
         /\ v = 2 ^ k * (v \div 2 ^ k) + (v % 2 ^ k) /\ v \div 2 ^ k \in Int
<1> DEFINE p == 2 ^ k
           b == (v \div p) % 2
<1>1. p \in Nat /\ p > 0 /\ 2 ^ (k + 1) = p * 2
  BY Power, SMT
<1> HIDE DEF p
<1>2. v % (p * 2) = (v % p) + p * b
  BY <1>1, Twice
<1>3. /\ v % p \in 0 .. p - 1
      /\ v = p * (v \div p) + (v % p) /\ v \div p \in Int
  BY <1>1, Divided
<1>4. b \in {0, 1}
  BY <1>3, SMT
<1>5. p * b = IF b = 1 THEN p ELSE 0
  BY <1>1, <1>4, SMT
<1>6. Bit(v, k) <=> b = 1
  BY DEF Bit, p
<1> QED
  BY <1>1, <1>2, <1>3, <1>5, <1>6, Zenon DEF p

LEMMA CarryMeans ==
  ASSUME NEW a \in Int, NEW b \in Int, NEW c \in BOOLEAN, NEW k \in 0 .. XLen
  PROVE  Carry(a, b, c)[k] <=> (a % 2 ^ k) + (b % 2 ^ k) + Flag(c) >= 2 ^ k
<1> DEFINE carry == Carry(a, b, c)
           Is(j) == carry[j] <=> (a % 2 ^ j) + (b % 2 ^ j) + Flag(c) >= 2 ^ j
           Q == {j \in Nat : j <= XLen => Is(j)}
<1> HIDE DEF carry
<1>1. 0 \in Q
  <2>1. a % 2 ^ 0 = 0 /\ b % 2 ^ 0 = 0 /\ 2 ^ 0 = 1
    BY Power, SMT
  <2>2. Flag(c) >= 1 <=> c
    BY DEF Flag
  <2>3. carry[0] = c
    BY CarryIs DEF carry
  <2>4. Flag(c) \in {0, 1}
    BY DEF Flag
  <2>5. (a % 2 ^ 0) + (b % 2 ^ 0) + Flag(c) = Flag(c)
    BY <2>1, <2>4, SMT
  <2>6. Is(0)
    BY <2>1, <2>2, <2>3, <2>5, Zenon
  <2> QED
    BY <2>6
<1>2. ASSUME NEW j \in Q PROVE j + 1 \in Q
  <2> SUFFICES ASSUME j + 1 <= XLen PROVE Is(j + 1)
    OBVIOUS
  <2>1. j \in 0 .. XLen - 1 /\ j \in Nat /\ Is(j)
    BY Sizes, SMT
  <2>2. carry[j + 1] = (\/ Bit(a, j) /\ Bit(b, j)
                        \/ (Bit(a, j) \/ Bit(b, j)) /\ carry[j])
    BY <2>1, CarryIs DEF carry
  <2> DEFINE p  == 2 ^ j
             ra == a % p
             rb == b % p
             f  == Flag(c)
  <2>3. /\ a % 2 ^ (j + 1) = ra + (IF Bit(a, j) THEN p ELSE 0)
        /\ b % 2 ^ (j + 1) = rb + (IF Bit(b, j) THEN p ELSE 0)
        /\ ra \in 0 .. p - 1 /\ rb \in 0 .. p - 1
    BY <2>1, BelowBit
  <2>4. p \in Nat /\ p > 0 /\ 2 ^ (j + 1) = 2 * p /\ f \in {0, 1}
    BY <2>1, Power DEF Flag
  <2>5. carry[j] <=> ra + rb + f >= p
    BY <2>1
  <2> DEFINE u == IF Bit(a, j) THEN p ELSE 0
             w == IF Bit(b, j) THEN p ELSE 0
  <2>6. /\ (Bit(a, j) /\ u = p) \/ (~ Bit(a, j) /\ u = 0)
        /\ (Bit(b, j) /\ w = p) \/ (~ Bit(b, j) /\ w = 0)
    OBVIOUS
  <2>7. (ra + u) + (rb + w) + f >= 2 * p
          <=> (u = p /\ w = p) \/ ((u = p \/ w = p) /\ ra + rb + f >= p)
    <3>1. u \in {0, p} /\ w \in {0, p}
      BY <2>6
    <3> HIDE DEF u, w, p, ra, rb, f
    <3> QED
      BY <2>3, <2>4, <3>1, SMT
  <2>8. (u = p <=> Bit(a, j)) /\ (w = p <=> Bit(b, j))
    <3>1. p # 0
      BY <2>4
    <3> QED
      BY <2>6, <3>1, Zenon
  <2>9. a % 2 ^ (j + 1) = ra + u /\ b % 2 ^ (j + 1) = rb + w
    BY <2>3
  <2> HIDE DEF u, w, p, ra, rb, f, Q
  <2>10. Is(j + 1) <=> (carry[j + 1] <=> (ra + u) + (rb + w) + f >= 2 * p)
    BY <2>4, <2>9, Zenon DEF f
  <2> QED
    BY <2>2, <2>5, <2>7, <2>8, <2>10, Zenon
<1>3. Q \in SUBSET Nat
  OBVIOUS
<1>4. k \in Q
  <2>1. k \in Nat
    BY Sizes
  <2> HIDE DEF Q
  <2> QED
    BY <1>1, <1>2, <1>3, <2>1, Inductive
<1>5. k <= XLen
  BY Sizes
<1> QED
  BY <1>4, <1>5 DEF carry

\* The bits of a sum are those the adder computes.
LEMMA Adder ==
  ASSUME NEW a \in Int, NEW b \in Int, NEW c \in BOOLEAN
  PROVE  Sum(a, b, c) = (a + b + Flag(c)) % Modulus
<1> DEFINE v == a + b + Flag(c)
           carry == Carry(a, b, c)
<1>1. Flag(c) \in {0, 1}
  BY DEF Flag
<1>2. v \in Int
  BY <1>1
<1>3. ASSUME NEW k \in Index
      PROVE  Bit(v, k) <=> ~ (Differ(a, b, k) <=> carry[k])
  <2> DEFINE p == 2 ^ k
             qa == a \div p
             qb == b \div p
             ra == a % p
             rb == b % p
             f == Flag(c)
             d == IF ra + rb + f >= p THEN 1 ELSE 0
  <2>1. k \in Nat /\ k \in 0 .. XLen
    BY Positions, Sizes
  <2>2. /\ ra \in 0 .. p - 1 /\ a = p * qa + ra /\ qa \in Int
        /\ rb \in 0 .. p - 1 /\ b = p * qb + rb /\ qb \in Int
    BY <2>1, BelowBit
  <2>3. p \in Nat /\ p > 0
    BY <2>1, Power
  <2>4. d \in {0, 1} /\ (d = 1 <=> ra + rb + f >= p)
    OBVIOUS
  <2>5. carry[k] <=> d = 1
    BY <2>1, <2>4, CarryMeans
  <2>6. v \div p = qa + qb + d
    <3>1. v = p * (qa + qb + d) + (ra + rb + f - p * d)
      <4> HIDE DEF p, qa, qb, ra, rb, d
      <4> QED
        BY <1>1, <2>2, <2>3, <2>4, SMT
    <3>2. ra + rb + f - p * d \in 0 .. p - 1
      <4>1. p * d = IF d = 1 THEN p ELSE 0
        <5> HIDE DEF d, p
        <5> QED
          BY <2>3, <2>4, SMT
      <4> DEFINE e == p * d
      <4> HIDE DEF p, ra, rb, f, e
      <4>2. CASE ra + rb + f >= p
        <5>1. e = p
          BY <2>4, <4>1, <4>2 DEF e
        <5> QED
          BY <1>1, <2>2, <2>3, <4>2, <5>1, SMT DEF e, f
      <4>3. CASE ~ (ra + rb + f >= p)
        <5>1. e = 0
          BY <2>4, <4>1, <4>3 DEF e
        <5> QED
          BY <1>1, <2>2, <2>3, <4>3, <5>1, SMT DEF e, f
      <4> QED
        BY <4>2, <4>3
    <3>3. qa + qb + d \in Int
      <4> HIDE DEF d, qa, qb
      <4> QED
        BY <2>2, <2>4, SMT
    <3> HIDE DEF v, p, qa, qb, ra, rb, f, d
    <3> QED
      BY <2>3, <3>1, <3>2, <3>3, Quotient
  <2>7. (qa + qb + d) % 2 = 1 <=> ~ (~ (qa % 2 = 1 <=> qb % 2 = 1) <=> d = 1)
    <3> HIDE DEF qa, qb, d
    <3>1. /\ qa = 2 * (qa \div 2) + (qa % 2) /\ qa \div 2 \in Int /\ qa % 2 \in {0, 1}
          /\ qb = 2 * (qb \div 2) + (qb % 2) /\ qb \div 2 \in Int /\ qb % 2 \in {0, 1}
      BY <2>2, SMT
    <3> DEFINE ha == qa \div 2
               hb == qb \div 2
               oa == qa % 2
               ob == qb % 2
    <3>2. qa + qb + d = 2 * (ha + hb) + (oa + ob + d)
      BY <2>2, <2>4, <3>1, SMT
    <3> HIDE DEF ha, hb, oa, ob
    <3>3. (2 * (ha + hb) + (oa + ob + d)) % 2 = (oa + ob + d) % 2
      BY <2>4, <3>1, SMT DEF ha, hb, oa, ob
    <3>4. (oa + ob + d) % 2 = 1 <=> ~ (~ (oa = 1 <=> ob = 1) <=> d = 1)
      BY <2>4, <3>1, SMT DEF oa, ob
    <3> QED
      BY <3>2, <3>3, <3>4 DEF oa, ob
  <2>8. /\ Bit(a, k) <=> qa % 2 = 1
        /\ Bit(b, k) <=> qb % 2 = 1
        /\ Bit(v, k) <=> (qa + qb + d) % 2 = 1
    BY <2>6 DEF Bit
  <2> HIDE DEF v, qa, qb, d, carry
  <2> QED
    BY <2>5, <2>7, <2>8, Zenon DEF Differ
<1>4. Sum(a, b, c) = FromOnes({k \in Index : ~ (Differ(a, b, k) <=> carry[k])})
  BY DEF Sum, Number
<1> HIDE DEF v, carry
<1>5. {k \in Index : ~ (Differ(a, b, k) <=> carry[k])} = {k \in Index : Bit(v, k)}
  BY <1>3
<1> QED
  BY <1>2, <1>4, <1>5, NumberOf DEF v

-----------------------------------------------------------------------------
(***************************************************************************)
(* Comparisons.                                                            *)
(***************************************************************************)
LEMMA Borrowed ==
  ASSUME NEW a \in Word, NEW b \in Word
  PROVE  Borrows(a, b) <=> a < b
<1> DEFINE m == Modulus
           n == m - 1 - b
<1>1. m \in Nat /\ m > 0 /\ a \in 0 .. m - 1 /\ b \in 0 .. m - 1 /\ XLen \in 0 .. XLen
  BY Sizes, SMT DEF Word
<1> HIDE DEF m
<1>2. n \in 0 .. m - 1 /\ a \in Int /\ n \in Int
  BY <1>1, SMT
<1> HIDE DEF n
<1>3. Carry(a, n, TRUE)[XLen] <=> (a % m) + (n % m) + Flag(TRUE) >= m
  BY <1>1, <1>2, CarryMeans DEF m, Modulus
<1>4. a % m = a /\ n % m = n
  BY <1>1, <1>2, SMT
<1>5. Carry(a, n, TRUE)[XLen] <=> a + n + 1 >= m
  BY <1>3, <1>4 DEF Flag
<1>6. a + n + 1 >= m <=> ~ (a < b)
  BY <1>1, SMT DEF n
<1>7. Borrows(a, b) <=> ~ Carry(a, n, TRUE)[XLen]
  BY DEF Borrows, Not, n, m
<1> QED
  BY <1>5, <1>6, <1>7, Zenon

LEMMA SignBit ==
  ASSUME NEW a \in Word
  PROVE  /\ Bit(a, Sign) <=> a >= 2 ^ Sign
         /\ AsSigned(a) = IF Bit(a, Sign) THEN a - Modulus ELSE a
         /\ AsSigned(a) \in - (2 ^ Sign) .. 2 ^ Sign - 1
<1> DEFINE p == 2 ^ Sign
           m == Modulus
<1>1. p \in Nat /\ p > 0 /\ m = 2 * p /\ m \div 2 = p /\ a \in 0 .. m - 1
  BY Sizes DEF Word
<1>2. (a \div p) % 2 = 1 <=> a >= p
  <2> HIDE DEF p, m
  <2>1. CASE a >= p
    <3>1. a = p * 1 + (a - p) /\ a - p \in 0 .. p - 1
      BY <1>1, <2>1, SMT
    <3>2. a \div p = 1
      BY <1>1, <3>1, Quotient
    <3> QED
      BY <2>1, <3>2, SMT
  <2>2. CASE ~ (a >= p)
    <3>1. a = p * 0 + a /\ a \in 0 .. p - 1
      BY <1>1, <2>2, SMT
    <3>2. a \div p = 0
      BY <1>1, <3>1, Quotient
    <3> QED
      BY <2>2, <3>2, SMT
  <2> QED
    BY <2>1, <2>2
<1>3. Bit(a, Sign) <=> a >= p
  BY <1>2 DEF Bit
<1>4. AsSigned(a) = IF a >= p THEN a - m ELSE a
  BY <1>1 DEF AsSigned
<1> HIDE DEF p, m
<1>5. AsSigned(a) \in - p .. p - 1
  BY <1>1, <1>4, SMT
<1> QED
  BY <1>3, <1>4, <1>5 DEF p, m

LEMMA BelowMeans ==
  ASSUME NEW a \in Word, NEW b \in Word
  PROVE  Below(a, b) <=> AsSigned(a) < AsSigned(b)
<1> DEFINE m == Modulus
           p == 2 ^ Sign
<1>1. /\ m = 2 * p /\ p \in Nat /\ p > 0
      /\ a \in 0 .. m - 1 /\ b \in 0 .. m - 1
  BY Sizes DEF Word
<1>2. /\ Bit(a, Sign) <=> a >= p
      /\ AsSigned(a) = IF Bit(a, Sign) THEN a - m ELSE a
      /\ Bit(b, Sign) <=> b >= p
      /\ AsSigned(b) = IF Bit(b, Sign) THEN b - m ELSE b
  BY SignBit
<1>3. Below(a, b) <=> IF Differ(a, b, Sign) THEN Bit(a, Sign) ELSE a < b
  BY Borrowed DEF Below
<1> HIDE DEF m, p
<1>4. CASE Differ(a, b, Sign)
  <2>1. AsSigned(a) < AsSigned(b) <=> Bit(a, Sign)
    <3>1. CASE Bit(a, Sign) /\ ~ Bit(b, Sign)
      BY <1>1, <1>2, <3>1, SMT
    <3>2. CASE ~ Bit(a, Sign) /\ Bit(b, Sign)
      BY <1>1, <1>2, <3>2, SMT
    <3> QED
      BY <1>4, <3>1, <3>2, Zenon DEF Differ
  <2> QED
    BY <1>3, <1>4, <2>1, Zenon
<1>5. CASE ~ Differ(a, b, Sign)
  <2>1. AsSigned(a) < AsSigned(b) <=> a < b
    <3>1. CASE Bit(a, Sign) /\ Bit(b, Sign)
      BY <1>1, <1>2, <3>1, SMT
    <3>2. CASE ~ Bit(a, Sign) /\ ~ Bit(b, Sign)
      BY <1>1, <1>2, <3>2, SMT
    <3> QED
      BY <1>5, <3>1, <3>2, Zenon DEF Differ
  <2> QED
    BY <1>3, <1>5, <2>1, Zenon
<1> QED
  BY <1>4, <1>5

-----------------------------------------------------------------------------
(***************************************************************************)
(* Shifts.                                                                 *)
(***************************************************************************)
LEMMA ShiftedRight ==
  ASSUME NEW v \in Int, NEW s \in Nat, NEW k \in Nat
  PROVE  Bit(v \div 2 ^ s, k) <=> Bit(v, k + s)
<1> DEFINE p == 2 ^ s
           q == 2 ^ k
<1>1. p \in Nat /\ p > 0 /\ q \in Nat /\ q > 0
  BY Power
<1>2. 2 ^ (s + k) = p * q /\ k + s = s + k
  BY PowersAdd
<1> HIDE DEF p, q
<1>3. v \div (p * q) = (v \div p) \div q
  BY <1>1, Twice
<1> QED
  BY <1>2, <1>3 DEF Bit, p, q

LEMMA ShiftedLeft ==
  ASSUME NEW v \in Int, NEW s \in Nat, NEW k \in Nat
  PROVE  Bit(v * 2 ^ s, k) <=> (k >= s /\ Bit(v, k - s))
<1> DEFINE p == 2 ^ s
<1>1. p \in Nat /\ p > 0
  BY Power
<1>2. CASE k >= s
  <2> DEFINE q == 2 ^ (k - s)
  <2>1. k - s \in Nat
    BY <1>2
  <2>2. q \in Nat /\ q > 0 /\ 2 ^ k = p * q
    <3>1. s + (k - s) = k
      BY <2>1
    <3> QED
      BY <2>1, <3>1, Power, PowersAdd
  <2> HIDE DEF p, q
  <2>3. (v * p) \div p = v
    <3>1. v * p = p * v + 0 /\ 0 \in 0 .. p - 1 /\ v * p \in Int
      BY <1>1, SMT
    <3> QED
      BY <1>1, <3>1, Quotient
  <2>4. (v * p) \div (p * q) = v \div q
    <3>1. v * p \in Int
      BY <1>1, SMT
    <3> QED
      BY <1>1, <2>2, <2>3, <3>1, Twice
  <2> QED
    BY <1>2, <2>2, <2>4 DEF Bit, p, q
<1>3. CASE ~ (k >= s)
  <2> DEFINE q == 2 ^ k
             h == 2 ^ (s - k - 1)
  <2>1. s - k - 1 \in Nat /\ k + ((s - k - 1) + 1) = s
    BY <1>3
  <2>2. q \in Nat /\ q > 0 /\ h \in Nat /\ p = q * (2 * h)
    <3>1. 2 ^ ((s - k - 1) + 1) = 2 * h /\ h \in Nat
      BY <2>1, Power
    <3>2. (s - k - 1) + 1 \in Nat
      BY <2>1
    <3>3. 2 ^ (k + ((s - k - 1) + 1)) = 2 ^ k * 2 ^ ((s - k - 1) + 1)
      BY <3>2, PowersAdd
    <3>4. p = q * (2 * h)
      BY <2>1, <3>1, <3>3, Zenon
    <3>5. q \in Nat /\ q > 0
      BY Power
    <3> QED
      BY <3>1, <3>4, <3>5, Zenon
  <2> HIDE DEF p, q, h
  <2>3. v * p = q * (2 * (v * h)) + 0 /\ 2 * (v * h) \in Int /\ v * h \in Int
    <3>1. v * (q * (2 * h)) = q * (2 * (v * h))
      BY <2>2, SMT
    <3>2. v * h \in Int
      BY <2>2, SMT
    <3> DEFINE w == v * h
    <3> HIDE DEF w
    <3>3. q * (2 * w) \in Int /\ 2 * w \in Int
      BY <2>2, <3>2, SMT DEF w
    <3> QED
      BY <2>2, <3>1, <3>2, <3>3, SMT DEF w
  <2>4. (v * p) \div q = 2 * (v * h)
    <3>1. 0 \in 0 .. q - 1
      BY <2>2
    <3> QED
      BY <2>2, <2>3, <3>1, Quotient
  <2>5. (2 * (v * h)) % 2 = 0
    <3> DEFINE w == v * h
    <3> HIDE DEF w
    <3> QED
      BY <2>3, SMT DEF w
  <2>6. ~ Bit(v * 2 ^ s, k)
    <3>1. ((v * 2 ^ s) \div 2 ^ k) % 2 = 0
      BY <2>4, <2>5, Zenon DEF p, q
    <3>2. ~ (0 = 1)
      OBVIOUS
    <3> QED
      BY <3>1, <3>2, Zenon DEF Bit
  <2> QED
    BY <1>3, <2>6, Zenon
<1> QED
  BY <1>2, <1>3

\* Above a word there are zeros, above a signed number copies of its sign.
LEMMA AboveWord ==
  ASSUME NEW a \in Word, NEW k \in Nat
  PROVE  /\ k >= XLen => ~ Bit(a, k)
         /\ Bit(AsSigned(a), k) <=> Bit(a, IF k < XLen THEN k ELSE Sign)
<1> DEFINE p == 2 ^ k
           m == Modulus
           h == 2 ^ Sign
<1>1. p \in Nat /\ p > 0
  BY Power
<1>2. a \in 0 .. m - 1 /\ m \in Nat /\ AsSigned(a) \in - h .. h - 1 /\ h \in Nat /\ m = 2 * h
  BY Sizes, SignBit DEF Word
<1>3. CASE k < XLen
  <2>1. k \in Index /\ ~ (k >= XLen)
    BY <1>3, Sizes, SMT
  <2>2. AsSigned(a) % m = a
    <3>1. AsSigned(a) = a + 0 * m \/ AsSigned(a) = a + (-1) * m
      <4>1. AsSigned(a) = a \/ AsSigned(a) = a - m
        BY SignBit
      <4> HIDE DEF m
      <4> QED
        BY <1>2, <4>1, SMT
    <3>2. AsSigned(a) % m = a % m
      <4>1. a \in Int /\ 0 \in Int /\ -1 \in Int
        BY <1>2
      <4> QED
        BY <3>1, <4>1, Wrapped
    <3>3. a % m = a
      BY TruncatedIs, <1>2 DEF Truncated
    <3> QED
      BY <3>2, <3>3
  <2>3. AsSigned(a) \in Int
    BY <1>2, SMT
  <2>4. Bit(AsSigned(a) % m, k) <=> Bit(AsSigned(a), k)
    BY <2>1, <2>3, BitOfTruncated
  <2> QED
    BY <1>3, <2>1, <2>2, <2>4
<1>4. CASE ~ (k < XLen)
  <2>1. p >= m /\ p >= h
    <3>1. k - XLen \in Nat /\ XLen + (k - XLen) = k
      BY <1>4, Sizes, SMT
    <3> DEFINE e == 2 ^ (k - XLen)
    <3>2. e \in Nat /\ e > 0
      BY <3>1, Power
    <3>3. p = m * e
      <4>1. XLen \in Nat
        BY Sizes
      <4>2. 2 ^ (XLen + (k - XLen)) = 2 ^ XLen * 2 ^ (k - XLen)
        BY <3>1, <4>1, PowersAdd
      <4> QED
        BY <3>1, <4>2, Zenon DEF Modulus
    <3> HIDE DEF p, m, h, e
    <3> QED
      BY <1>2, <3>2, <3>3, SMT
  <2>2. a \div p = 0
    <3>1. a = p * 0 + a /\ a \in 0 .. p - 1
      <4> HIDE DEF p, m, h
      <4> QED
        BY <1>1, <1>2, <2>1, SMT
    <3> HIDE DEF p
    <3> QED
      BY <1>1, <3>1, Quotient
  <2>3. ~ Bit(a, k)
    BY <2>2 DEF Bit
  <2>4. Bit(AsSigned(a), k) <=> Bit(a, Sign)
    <3> DEFINE v == AsSigned(a)
    <3>1. Bit(a, Sign) <=> v < 0
      <4>1. /\ Bit(a, Sign) <=> a >= h
            /\ v = IF Bit(a, Sign) THEN a - m ELSE a
        BY SignBit
      <4> HIDE DEF v, h, m
      <4> QED
        BY <1>2, <4>1, SMT
    <3> HIDE DEF v
    <3>2. CASE v < 0
      <4> DEFINE d == 0 - 1
      <4>1. d \in Int /\ v = p * d + (v + p) /\ v + p \in 0 .. p - 1
        <5> HIDE DEF p, h
        <5> QED
          BY <1>1, <1>2, <2>1, <3>2, SMT DEF v
      <4>2. v \div p = d
        <5> HIDE DEF p, d
        <5> QED
          BY <1>1, <4>1, Quotient
      <4>3. d % 2 = 1
        <5> SUFFICES ASSUME d \in Int, d + 1 = 0 PROVE d % 2 = 1
          BY SMT
        <5> HIDE DEF d
        <5> QED
          BY SMT
      <4> HIDE DEF d
      <4> QED
        BY <3>1, <3>2, <4>2, <4>3 DEF Bit, v
    <3>3. CASE ~ (v < 0)
      <4>1. v = p * 0 + v /\ v \in 0 .. p - 1
        <5> HIDE DEF p, h
        <5> QED
          BY <1>1, <1>2, <2>1, <3>3, SMT DEF v
      <4>2. v \div p = 0
        <5> HIDE DEF p
        <5> QED
          BY <1>1, <4>1, Quotient
      <4> QED
        BY <3>1, <3>3, <4>2 DEF Bit, v
    <3> QED
      BY <3>2, <3>3
  <2> QED
    BY <1>4, <2>3, <2>4
<1> QED
  BY <1>3, <1>4

-----------------------------------------------------------------------------
(***************************************************************************)
(* The operations.                                                         *)
(***************************************************************************)
Operand(t, b) ==
  \/ t \in RegisterOps /\ b \in Word
  \/ t \in ImmediateOps /\ b \in {AsSigned(v) : v \in Word}
  \/ t \in ShiftOps /\ b \in Index

LEMMA FewBits ==
  ASSUME NEW Q
  PROVE  FromOnes(Q) \in Word /\ Truncated(FromOnes(Q)) = FromOnes(Q)
<1> DEFINE low == Lowest(Q)
           G == {n \in Nat : n <= XLen => low[n] \in 0 .. 2 ^ n - 1}
<1>1. /\ low[0] = 0
      /\ \A k \in 0 .. XLen - 1 :
           low[k + 1] = low[k] + (IF k \in Q THEN 2 ^ k ELSE 0)
      /\ FromOnes(Q) = low[XLen]
  BY LowestIs
<1> HIDE DEF low
<1>2. 0 \in G
  BY <1>1, Power
<1>3. ASSUME NEW n \in G PROVE n + 1 \in G
  <2>1. n \in Nat /\ n + 1 \in Nat
    OBVIOUS
  <2> SUFFICES ASSUME n + 1 <= XLen PROVE low[n + 1] \in 0 .. 2 ^ (n + 1) - 1
    BY <2>1
  <2> DEFINE p == 2 ^ n
             p2 == 2 ^ (n + 1)
             e == IF n \in Q THEN p ELSE 0
             a == low[n]
  <2>2. p \in Nat /\ p2 = 2 * p
    BY <2>1, Power
  <2>3. a \in 0 .. p - 1 /\ n \in 0 .. XLen - 1
    BY <2>1, Sizes
  <2>4. low[n + 1] = a + e
    BY <1>1, <2>3
  <2>5. e = 0 \/ e = p
    BY Zenon
  <2> HIDE DEF p, p2, e, a
  <2>6. a + e \in 0 .. p2 - 1
    BY <2>2, <2>3, <2>5, SMT
  <2> QED
    BY <2>4, <2>6 DEF p2
<1> HIDE DEF G
<1>4. \A n \in Nat : n \in G
  <2>1. G \in SUBSET Nat
    BY DEF G
  <2> QED
    BY <1>2, <1>3, <2>1, Inductive
<1>5. FromOnes(Q) \in Word
  <2>1. XLen \in Nat /\ XLen <= XLen
    BY Sizes
  <2> QED
    BY <1>1, <1>4, <2>1 DEF G, Word, Modulus
<1>6. FromOnes(Q) \in Int
  BY <1>5, Sizes DEF Word
<1> QED
  BY <1>5, <1>6, TruncatedIs

LEMMA OnesAre == \A v : Ones(v) = {k \in Index : Bit(v, k)}
<1>1. Index = 0 .. XLen - 1
  BY DEF Index, Sign
<1> QED
  BY <1>1, Zenon DEF Ones, Bit

LEMMA Immediate ==
  ASSUME NEW b \in {AsSigned(v) : v \in Word}
  PROVE  b \in Int /\ AsSigned(Truncated(b)) = b
<1>1. PICK v \in Word : b = AsSigned(v)
  OBVIOUS
<1>2. v \in Int /\ Modulus \in Int
  BY Sizes DEF Word
<1>3. b = v \/ b = v - Modulus
  BY <1>1, SignBit
<1>4. b \in Int
  BY <1>2, <1>3
<1>5. Truncated(b) = Truncated(v)
  <2> DEFINE d == 0 - 1
             m == Modulus
  <2>1. d \in Int
    OBVIOUS
  <2>2. b = v \/ b = v + d * m
    <3> HIDE DEF m
    <3> QED
      BY <1>2, <1>3 DEF m
  <2> HIDE DEF d
  <2>3. (v + d * m) % m = v % m
    BY <1>2, <2>1, Wrapped
  <2> QED
    BY <2>2, <2>3, Zenon DEF Truncated, m
<1>6. Truncated(v) = v
  BY <1>2, TruncatedIs
<1> QED
  BY <1>1, <1>4, <1>5, <1>6

\* The second operand as the code has it and as a word.
LEMMA OperandWords ==
  ASSUME NEW t \in Operations, NEW b, Operand(t, b)
  PROVE  /\ b \in Int /\ Truncated(b) \in Word
         /\ t \notin ImmediateOps => b \in Word /\ Truncated(b) = b
         /\ t \in ImmediateOps => AsSigned(Truncated(b)) = b
<1>1. t \in ImmediateOps => b \in {AsSigned(v) : v \in Word}
  BY DEF Operand, RegisterOps, ImmediateOps, ShiftOps
<1>2. t \notin ImmediateOps => b \in Word
  BY Sizes, SMT DEF Operand, Word
<1>3. b \in Int
  BY <1>1, <1>2, Sizes, Immediate DEF Word
<1> QED
  BY <1>1, <1>2, <1>3, Immediate, TruncatedIs

LEMMA Additions ==
  ASSUME NEW a \in Word, NEW b \in Int
  PROVE  Truncated(a + b) = Sum(a, Truncated(b), FALSE)
<1> DEFINE m == Modulus
           w == b % m
           d == b \div m
<1>1. m \in Nat /\ m > 0 /\ a \in Int
  BY Sizes DEF Word
<1>2. w \in Int /\ d \in Int /\ b = w + d * m
  <2> HIDE DEF m
  <2> QED
    BY <1>1, Divided DEF w, d
<1>3. Sum(a, w, FALSE) = (a + w + 0) % m
  BY <1>1, <1>2, Adder DEF Flag
<1> HIDE DEF w, d
<1>4. ((a + w) + d * m) % m = (a + w) % m
  <2>1. a + w \in Int
    BY <1>1, <1>2
  <2> QED
    BY <1>2, <2>1, Wrapped, Zenon
<1>5. a + b = (a + w) + d * m /\ a + w + 0 = a + w
  <2> HIDE DEF m
  <2>1. d * m \in Int
    BY <1>1, <1>2
  <2> QED
    BY <1>1, <1>2, <2>1
<1> QED
  BY <1>3, <1>4, <1>5, Zenon DEF Truncated, m, w

LEMMA Subtractions ==
  ASSUME NEW a \in Word, NEW b \in Word
  PROVE  Truncated(a - b) = Sum(a, Not(b), TRUE)
<1> DEFINE m == Modulus
<1>1. m \in Nat /\ m > 0 /\ a \in Int /\ b \in Int
  BY Sizes DEF Word
<1>2. Sum(a, m - 1 - b, TRUE) = (a + (m - 1 - b) + 1) % m
  <2>1. m - 1 - b \in Int
    BY <1>1
  <2> QED
    BY <1>1, <2>1, Adder DEF Flag
<1>3. ((a - b) + 1 * m) % m = (a - b) % m
  <2>1. a - b \in Int /\ 1 \in Int
    BY <1>1
  <2> QED
    BY <2>1, Wrapped, Zenon
<1>4. a + (m - 1 - b) + 1 = (a - b) + 1 * m
  <2> HIDE DEF m
  <2> QED
    BY <1>1
<1> QED
  BY <1>2, <1>3, <1>4, Zenon DEF Truncated, Not, m

LEMMA LeftShifts ==
  ASSUME NEW a \in Word, NEW s \in Nat
  PROVE  Truncated(a * 2 ^ s) = FromOnes({k \in Index : k >= s /\ Bit(a, k - s)})
<1>1. a \in Int /\ a * 2 ^ s \in Int
  <2> DEFINE p == 2 ^ s
  <2>1. p \in Nat /\ a \in Int
    BY Power, Sizes DEF Word
  <2> HIDE DEF p
  <2> QED
    BY <2>1, SMT DEF p
<1>2. \A k \in Index : Bit(a * 2 ^ s, k) <=> k >= s /\ Bit(a, k - s)
  BY <1>1, ShiftedLeft, Positions
<1>3. {k \in Index : k >= s /\ Bit(a, k - s)} = {k \in Index : Bit(a * 2 ^ s, k)}
  BY <1>2, Zenon
<1> QED
  BY <1>1, <1>3, NumberOf DEF Truncated

LEMMA RightShifts ==
  ASSUME NEW a \in Word, NEW s \in Nat
  PROVE  /\ Truncated(a \div 2 ^ s) =
              FromOnes({k \in Index : k + s < XLen /\ Bit(a, k + s)})
         /\ Truncated(AsSigned(a) \div 2 ^ s) =
              FromOnes({k \in Index : Bit(a, IF k + s < XLen THEN k + s ELSE Sign)})
<1> DEFINE p == 2 ^ s
           g == AsSigned(a)
<1>1. p \in Nat /\ p > 0 /\ a \in Int /\ g \in Int
  BY Power, SignBit, Sizes DEF Word
<1>2. a \div p \in Int /\ g \div p \in Int
  <2> HIDE DEF p, g
  <2> QED
    BY <1>1, SMT
<1>3. \A k \in Index : /\ Bit(a \div p, k) <=> Bit(a, k + s)
                       /\ Bit(g \div p, k) <=> Bit(g, k + s)
  BY <1>1, ShiftedRight, Positions
<1>4. \A k \in Index : /\ ~ (k + s < XLen) => ~ Bit(a, k + s)
                       /\ Bit(g, k + s) <=> Bit(a, IF k + s < XLen THEN k + s ELSE Sign)
  <2> TAKE k \in Index
  <2>1. k + s \in Nat /\ (~ (k + s < XLen) => k + s >= XLen)
    BY Positions, Sizes, SMT
  <2> QED
    BY <2>1, AboveWord, Zenon
<1>5. {k \in Index : Bit(a \div p, k)} = {k \in Index : k + s < XLen /\ Bit(a, k + s)}
  BY <1>3, <1>4, Zenon
<1>6. {k \in Index : Bit(g \div p, k)}
        = {k \in Index : Bit(a, IF k + s < XLen THEN k + s ELSE Sign)}
  BY <1>3, <1>4, Zenon
<1> QED
  BY <1>2, <1>5, <1>6, NumberOf DEF Truncated

LEMMA Flags == \A b : Truncated(Flag(b)) = Flag(b)
<1>1. 0 \in Word /\ 1 \in Word /\ 0 \in Int /\ 1 \in Int
  BY Sizes DEF Word
<1> QED
  BY <1>1, TruncatedIs, Zenon DEF Flag

LEMMA OfBits ==
  ASSUME NEW a, NEW w
  PROVE  /\ Truncated(And(a, w)) = FromOnes({k \in Index : Bit(a, k) /\ Bit(w, k)})
         /\ Truncated(Or(a, w)) = FromOnes({k \in Index : Bit(a, k) \/ Bit(w, k)})
         /\ Truncated(Xor(a, w)) = FromOnes({k \in Index : Differ(a, w, k)})
<1>1. Ones(a) \cap Ones(w) = {k \in Index : Bit(a, k) /\ Bit(w, k)}
  BY OnesAre, Zenon
<1>2. Ones(a) \cup Ones(w) = {k \in Index : Bit(a, k) \/ Bit(w, k)}
  BY OnesAre, Zenon
<1>3. (Ones(a) \cup Ones(w)) \ (Ones(a) \cap Ones(w)) = {k \in Index : Differ(a, w, k)}
  BY <1>1, <1>2, Zenon DEF Differ
<1> QED
  BY <1>1, <1>2, <1>3, FewBits, Zenon DEF And, Or, Xor

-----------------------------------------------------------------------------
(***************************************************************************)
(* Every operation.                                                        *)
(***************************************************************************)
LEMMA Computed ==
  ASSUME NEW t \in Operations, NEW a \in Word, NEW b, Operand(t, b)
  PROVE  Truncated(ResultOf(t, a, b)) = Reference(t, a, Truncated(b))
<1> DEFINE w == Truncated(b)
<1>1. /\ b \in Int /\ w \in Word
      /\ t \notin ImmediateOps => b \in Word /\ w = b
      /\ t \in ImmediateOps => AsSigned(w) = b
  BY OperandWords
<1> HIDE DEF w
<1>2. CASE t \in {"ADD", "ADDI"}
  <2>1. ResultOf(t, a, b) = a + b
    BY <1>2, Zenon DEF ResultOf
  <2>2. Family(t) = "ADD"
    BY <1>2, ZenonT(30) DEF Family
  <2>3. Reference(t, a, w) = Sum(a, w, FALSE)
    BY <2>2, ZenonT(30) DEF Reference, Number, Shifted
  <2> QED
    BY <1>1, <2>1, <2>3, Additions, Zenon DEF w
<1>3. CASE t = "SUB"
  <2>1. ResultOf(t, a, b) = a - b
    BY <1>3, Zenon DEF ResultOf
  <2>2. Family(t) = "SUB"
    BY <1>3, ZenonT(30) DEF Family
  <2>3. Reference(t, a, w) = Sum(a, Not(w), TRUE)
    BY <2>2, ZenonT(30) DEF Reference, Number, Shifted
  <2>4. b \in Word /\ w = b
    BY <1>1, <1>3 DEF ImmediateOps
  <2> QED
    BY <2>1, <2>3, <2>4, Subtractions, Zenon DEF w
<1>4. CASE t \in {"SLL", "SLLI"}
  <2>1. ResultOf(t, a, b) = a * 2 ^ (b % XLen)
    BY <1>4, Zenon DEF ResultOf, Amount
  <2>2. Family(t) = "SLL"
    BY <1>4, ZenonT(30) DEF Family
  <2>3. Reference(t, a, w) = FromOnes({k \in Index : k >= w % XLen /\ Bit(a, k - (w % XLen))})
    BY <2>2, ZenonT(30) DEF Reference, Number, Shifted
  <2>4. b \in Word /\ w = b
    BY <1>1, <1>4 DEF ImmediateOps
  <2>5. w % XLen \in Nat
    BY <2>4, Sizes, SMT DEF Word
  <2>6. Truncated(a * 2 ^ (w % XLen)) = FromOnes({k \in Index : k >= w % XLen /\ Bit(a, k - (w % XLen))})
    BY <2>5, LeftShifts
  <2> QED
    BY <2>1, <2>3, <2>4, <2>6, Zenon DEF w
<1>5. CASE t \in {"SRL", "SRLI"}
  <2>1. ResultOf(t, a, b) = a \div 2 ^ (b % XLen)
    BY <1>5, Zenon DEF ResultOf, Amount
  <2>2. Family(t) = "SRL"
    BY <1>5, ZenonT(30) DEF Family
  <2>3. Reference(t, a, w) = FromOnes({k \in Index : k + (w % XLen) < XLen /\ Bit(a, k + (w % XLen))})
    BY <2>2, ZenonT(30) DEF Reference, Number, Shifted
  <2>4. b \in Word /\ w = b
    BY <1>1, <1>5 DEF ImmediateOps
  <2>5. w % XLen \in Nat
    BY <2>4, Sizes, SMT DEF Word
  <2>6. Truncated(a \div 2 ^ (w % XLen)) = FromOnes({k \in Index : k + (w % XLen) < XLen /\ Bit(a, k + (w % XLen))})
    BY <2>5, RightShifts
  <2> QED
    BY <2>1, <2>3, <2>4, <2>6, Zenon DEF w
<1>6. CASE t \in {"SRA", "SRAI"}
  <2>1. ResultOf(t, a, b) = AsSigned(a) \div 2 ^ (b % XLen)
    BY <1>6, Zenon DEF ResultOf, Amount, ShiftRightArithmetic
  <2>2. Family(t) = "SRA"
    BY <1>6, ZenonT(30) DEF Family
  <2>3. Reference(t, a, w) = FromOnes({k \in Index :
                    Bit(a, IF k + (w % XLen) < XLen THEN k + (w % XLen) ELSE Sign)})
    BY <2>2, ZenonT(30) DEF Reference, Number, Shifted
  <2>4. b \in Word /\ w = b
    BY <1>1, <1>6 DEF ImmediateOps
  <2>5. w % XLen \in Nat
    BY <2>4, Sizes, SMT DEF Word
  <2>6. Truncated(AsSigned(a) \div 2 ^ (w % XLen)) = FromOnes({k \in Index :
                    Bit(a, IF k + (w % XLen) < XLen THEN k + (w % XLen) ELSE Sign)})
    BY <2>5, RightShifts
  <2> QED
    BY <2>1, <2>3, <2>4, <2>6, Zenon DEF w
<1>7. CASE t \in {"SLT", "SLTI"}
  <2>1. ResultOf(t, a, b) = Flag(AsSigned(a) < AsSigned(w))
    <3>1. CASE t = "SLT"
      <4>1. ResultOf(t, a, b) = Flag(AsSigned(a) < AsSigned(b))
        BY <3>1, Zenon DEF ResultOf
      <4>2. w = b
        BY <1>1, <3>1 DEF ImmediateOps
      <4> QED
        BY <4>1, <4>2, Zenon
    <3>2. CASE t = "SLTI"
      <4>1. ResultOf(t, a, b) = Flag(AsSigned(a) < b)
        BY <3>2, Zenon DEF ResultOf, w
      <4>2. AsSigned(w) = b
        BY <1>1, <3>2 DEF ImmediateOps
      <4> QED
        BY <4>1, <4>2, Zenon
    <3> QED
      BY <1>7, <3>1, <3>2
  <2>2. Family(t) = "SLT"
    BY <1>7, ZenonT(30) DEF Family
  <2>3. Reference(t, a, w) = Flag(Below(a, w))
    BY <2>2, ZenonT(30) DEF Reference
  <2>4. Flag(Below(a, w)) = Flag(AsSigned(a) < AsSigned(w))
    BY <1>1, BelowMeans, Zenon DEF Flag
  <2> QED
    BY <2>1, <2>3, <2>4, Flags, Zenon DEF w
<1>8. CASE t \in {"SLTU", "SLTIU"}
  <2>1. ResultOf(t, a, b) = Flag(a < w)
    <3>1. CASE t = "SLTU"
      <4>1. ResultOf(t, a, b) = Flag(a < b)
        BY <3>1, Zenon DEF ResultOf
      <4>2. w = b
        BY <1>1, <3>1 DEF ImmediateOps
      <4> QED
        BY <4>1, <4>2, Zenon
    <3>2. CASE t = "SLTIU"
      <4>1. ResultOf(t, a, b) = Flag(a < w)
        BY <3>2, Zenon DEF ResultOf, w
      <4> QED
        BY <4>1
    <3> QED
      BY <1>8, <3>1, <3>2
  <2>2. Family(t) = "SLTU"
    BY <1>8, ZenonT(30) DEF Family
  <2>3. Reference(t, a, w) = Flag(Borrows(a, w))
    BY <2>2, ZenonT(30) DEF Reference
  <2>4. Flag(Borrows(a, w)) = Flag(a < w)
    BY <1>1, Borrowed, Zenon DEF Flag
  <2> QED
    BY <2>1, <2>3, <2>4, Flags, Zenon DEF w
<1>9. CASE t \in {"XOR", "XORI"}
  <2>1. ResultOf(t, a, b) = Xor(a, w)
    BY <1>9, Zenon DEF ResultOf, w
  <2>2. Family(t) = "XOR"
    BY <1>9, ZenonT(30) DEF Family
  <2>3. Reference(t, a, w) = FromOnes({k \in Index : Differ(a, w, k)})
    BY <2>2, ZenonT(30) DEF Reference, Number, Shifted
  <2>4. Truncated(Xor(a, w)) = FromOnes({k \in Index : Differ(a, w, k)})
    BY OfBits, Zenon
  <2> QED
    BY <2>1, <2>3, <2>4, Zenon DEF w
<1>10. CASE t \in {"OR", "ORI"}
  <2>1. ResultOf(t, a, b) = Or(a, w)
    BY <1>10, Zenon DEF ResultOf, w
  <2>2. Family(t) = "OR"
    BY <1>10, ZenonT(30) DEF Family
  <2>3. Reference(t, a, w) = FromOnes({k \in Index : Bit(a, k) \/ Bit(w, k)})
    BY <2>2, ZenonT(30) DEF Reference, Number, Shifted
  <2>4. Truncated(Or(a, w)) = FromOnes({k \in Index : Bit(a, k) \/ Bit(w, k)})
    BY OfBits, Zenon
  <2> QED
    BY <2>1, <2>3, <2>4, Zenon DEF w
<1>11. CASE t \in {"AND", "ANDI"}
  <2>1. ResultOf(t, a, b) = And(a, w)
    BY <1>11, Zenon DEF ResultOf, w
  <2>2. Family(t) = "AND"
    BY <1>11, ZenonT(30) DEF Family
  <2>3. Reference(t, a, w) = FromOnes({k \in Index : Bit(a, k) /\ Bit(w, k)})
    BY <2>2, ZenonT(30) DEF Reference, Number, Shifted
  <2>4. Truncated(And(a, w)) = FromOnes({k \in Index : Bit(a, k) /\ Bit(w, k)})
    BY OfBits, Zenon
  <2> QED
    BY <2>1, <2>3, <2>4, Zenon DEF w
<1> QED
  BY <1>2, <1>3, <1>4, <1>5, <1>6, <1>7, <1>8, <1>9, <1>10, <1>11
     DEF Operations, RegisterOps, ImmediateOps, ShiftOps

\* The operands never change.
Inputs == x \in Word /\ Operand(type, y)

\* Every expression of execute leaves in rd what RV32I defines for its
\* instruction: registers read as uint64_t, casts to int32_t here and there and
\* the truncation at the end are right for all operands, of any word size.
THEOREM ALUComputesRV32I == ALUSpec => ComputesRV32I
<1>1. ALUInit => Inputs
  BY DEF ALUInit, Inputs, Operand
<1>2. Inputs /\ [Compute]_aluVars => Inputs'
  BY DEF Inputs, Compute, aluVars, Operand, Word, RegisterOps, ImmediateOps, ShiftOps,
         Index, Sign, Modulus, AsSigned
<1>3. Inputs /\ [Compute]_aluVars =>
        [(type \in Operations) => result' = Reference(type, x, Truncated(y))]_aluVars
  <2> SUFFICES ASSUME Inputs, Compute, type \in Operations
               PROVE  result' = Reference(type, x, Truncated(y))
    OBVIOUS
  <2> QED
    BY Computed, Zenon DEF Inputs, Compute
<1> QED
  BY <1>1, <1>2, <1>3, PTL DEF ALUSpec, ComputesRV32I

-----------------------------------------------------------------------------
(***************************************************************************)
(* The decoder: fields of a word.                                          *)
(***************************************************************************)
\* The powers of two the fields begin at and are as large as.
LEMMA Powers ==
  /\ 2 ^ 0 = 1 /\ 2 ^ 1 = 2 /\ 2 ^ 2 = 4 /\ 2 ^ 3 = 8 /\ 2 ^ 4 = 16 /\ 2 ^ 5 = 32
  /\ 2 ^ 6 = 64 /\ 2 ^ 7 = 128 /\ 2 ^ 8 = 256 /\ 2 ^ 10 = 1024 /\ 2 ^ 11 = 2048
  /\ 2 ^ 12 = 4096 /\ 2 ^ 13 = 8192 /\ 2 ^ 15 = 32768 /\ 2 ^ 20 = 1048576
  /\ 2 ^ 21 = 2097152 /\ 2 ^ 25 = 33554432 /\ 2 ^ 30 = 1073741824
BY SMT

\* What is below and above a bit of a number.
LEMMA Split ==
  ASSUME NEW n \in Nat, n > 0, NEW low \in 0 .. n - 1, NEW high \in Int
  PROVE  (low + n * high) % n = low /\ (low + n * high) \div n = high
BY SMT

\* Shifts add up.
LEMMA Shifts ==
  ASSUME NEW w \in Int
  PROVE  /\ w \div 2 ^ 12 = (w \div 2 ^ 7) \div 2 ^ 5
         /\ w \div 2 ^ 15 = (w \div 2 ^ 12) \div 2 ^ 3
         /\ w \div 2 ^ 20 = (w \div 2 ^ 15) \div 2 ^ 5
         /\ w \div 2 ^ 25 = (w \div 2 ^ 20) \div 2 ^ 5
         /\ w \div 2 ^ 30 = (w \div 2 ^ 25) \div 2 ^ 5
         /\ w \div 2 ^ 8 = (w \div 2 ^ 7) \div 2 ^ 1
         /\ w \div 2 ^ 21 = (w \div 2 ^ 20) \div 2 ^ 1
BY SMT

Parts(p0, p7, p12, p15, p20, p25) ==
  /\ p0 \in 0 .. 127 /\ p7 \in 0 .. 31 /\ p12 \in 0 .. 7 /\ p15 \in 0 .. 31
  /\ p20 \in 0 .. 31 /\ p25 \in Int

\* A word has the parts it was made of.
LEMMA Unpacked ==
  ASSUME NEW p0, NEW p7, NEW p12, NEW p15, NEW p20, NEW p25,
         Parts(p0, p7, p12, p15, p20, p25)
  PROVE  LET w == WordOf(p0, p7, p12, p15, p20, p25)
         IN /\ w \in Int
            /\ Field(w, 0, 7) = p0 /\ Rd(w) = p7 /\ Funct3(w) = p12
            /\ Rs1(w) = p15 /\ Rs2(w) = p20
            /\ w \div 2 ^ 7 = p7 + 32 * (p12 + 8 * (p15 + 32 * (p20 + 32 * p25)))
            /\ w \div 2 ^ 12 = p12 + 8 * (p15 + 32 * (p20 + 32 * p25))
            /\ w \div 2 ^ 15 = p15 + 32 * (p20 + 32 * p25)
            /\ w \div 2 ^ 20 = p20 + 32 * p25 /\ w \div 2 ^ 25 = p25
<1> DEFINE w == WordOf(p0, p7, p12, p15, p20, p25)
           w20 == p20 + 32 * p25
           w15 == p15 + 32 * w20
           w12 == p12 + 8 * w15
           w7  == p7 + 32 * w12
<1>1. w = p0 + 128 * w7
  BY SMT DEF WordOf
<1>2. /\ p0 \in 0 .. 127 /\ p7 \in 0 .. 31 /\ p12 \in 0 .. 7 /\ p15 \in 0 .. 31
      /\ p20 \in 0 .. 31 /\ p25 \in Int
  BY DEF Parts
<1>3. w20 \in Int /\ w20 % 32 = p20 /\ w20 \div 32 = p25
  BY <1>2, SMT
<1> HIDE DEF w20
<1>4. w15 \in Int /\ w15 % 32 = p15 /\ w15 \div 32 = w20
  BY <1>2, <1>3, SMT
<1> HIDE DEF w15
<1>5. w12 \in Int /\ w12 % 8 = p12 /\ w12 \div 8 = w15
  BY <1>2, <1>4, SMT
<1> HIDE DEF w12
<1>6. w7 \in Int /\ w7 % 32 = p7 /\ w7 \div 32 = w12
  BY <1>2, <1>5, SMT
<1> HIDE DEF w7
<1>7. w \in Int /\ w % 128 = p0 /\ w \div 128 = w7
  BY <1>1, <1>2, <1>6, SMT
<1> HIDE DEF w
<1>8. /\ w \div 2 ^ 7 = w7 /\ w \div 2 ^ 12 = w12 /\ w \div 2 ^ 15 = w15
      /\ w \div 2 ^ 20 = w20 /\ w \div 2 ^ 25 = p25
  BY <1>3, <1>4, <1>5, <1>6, <1>7, Shifts, Powers, SMT
<1>9. w \div 1 = w
  BY <1>7, SMT
<1>10. /\ Field(w, 0, 7) = p0 /\ Rd(w) = p7 /\ Funct3(w) = p12
       /\ Rs1(w) = p15 /\ Rs2(w) = p20
  BY <1>3, <1>4, <1>5, <1>6, <1>7, <1>8, <1>9, Powers, SMT DEF Field, Rd, Funct3, Rs1, Rs2
<1> QED
  BY <1>7, <1>8, <1>10 DEF w, w7, w12, w15, w20

\* A word is made of its parts.
LEMMA Packed ==
  ASSUME NEW w \in Int
  PROVE  /\ w = WordOf(Field(w, 0, 7), Rd(w), Funct3(w), Rs1(w), Rs2(w), w \div 2 ^ 25)
         /\ Parts(Field(w, 0, 7), Rd(w), Funct3(w), Rs1(w), Rs2(w), w \div 2 ^ 25)
<1> DEFINE w7  == w \div 2 ^ 7
           w12 == w \div 2 ^ 12
           w15 == w \div 2 ^ 15
           w20 == w \div 2 ^ 20
           w25 == w \div 2 ^ 25
<1>1. w7 \in Int /\ w12 \in Int /\ w15 \in Int /\ w20 \in Int /\ w25 \in Int
  BY Powers, SMT
<1>2. /\ w12 = w7 \div 32 /\ w15 = w12 \div 8 /\ w20 = w15 \div 32 /\ w25 = w20 \div 32
      /\ w7 = w \div 128
  BY Shifts, Powers, SMT
<1>3. /\ Field(w, 0, 7) = w % 128 /\ Rd(w) = w7 % 32 /\ Funct3(w) = w12 % 8
      /\ Rs1(w) = w15 % 32 /\ Rs2(w) = w20 % 32
  <2>1. w \div 2 ^ 0 = w
    BY Powers, SMT
  <2> QED
    BY <2>1, Powers, SMT DEF Field, Rd, Funct3, Rs1, Rs2
<1> HIDE DEF w7, w12, w15, w20, w25
<1>4. /\ w20 = (w20 % 32) + 32 * w25 /\ w15 = (w15 % 32) + 32 * w20
      /\ w12 = (w12 % 8) + 8 * w15 /\ w7 = (w7 % 32) + 32 * w12 /\ w = (w % 128) + 128 * w7
  BY <1>1, <1>2, SMT
<1>5. w = WordOf(w % 128, w7 % 32, w12 % 8, w15 % 32, w20 % 32, w25)
  BY <1>1, <1>4, Powers, SMT DEF WordOf
<1>6. Parts(w % 128, w7 % 32, w12 % 8, w15 % 32, w20 % 32, w25)
  BY <1>1, SMT DEF Parts
<1> QED
  BY <1>3, <1>5, <1>6 DEF w25

\* The other fields of a word, from its parts.
LEMMA Immediates ==
  ASSUME NEW p0, NEW p7, NEW p12, NEW p15, NEW p20, NEW p25,
         Parts(p0, p7, p12, p15, p20, p25)
  PROVE  LET w    == WordOf(p0, p7, p12, p15, p20, p25)
             sign == IF p25 < 0 THEN -1 ELSE 0
         IN /\ ImmI(w) = p20 + 32 * p25
            /\ ImmS(w) = p7 + 32 * p25
            /\ ImmB(w) = 4096 * sign + 2048 * (p7 % 2) + 32 * (p25 % 64) + 2 * (p7 \div 2)
            /\ ImmU(w) = p12 + 8 * (p15 + 32 * (p20 + 32 * p25))
            /\ ImmJ(w) = 1048576 * sign + 4096 * (p12 + 8 * p15) + 2048 * (p20 % 2)
                          + 32 * (p25 % 64) + 2 * (p20 \div 2)
            /\ Funct7(w) = p25 % 128 /\ Field(w, 20, 5) = p20
            /\ Field(w, 20, 12) = (p20 + 32 * p25) % 4096
            /\ Field(w, 30, 2) = (p25 \div 32) % 4
<1> DEFINE w    == WordOf(p0, p7, p12, p15, p20, p25)
           sign == IF p25 < 0 THEN -1 ELSE 0
           w20  == p20 + 32 * p25
           w15  == p15 + 32 * w20
           w12  == p12 + 8 * w15
           w7   == p7 + 32 * w12
<1>1. /\ p0 \in 0 .. 127 /\ p7 \in 0 .. 31 /\ p12 \in 0 .. 7 /\ p15 \in 0 .. 31
      /\ p20 \in 0 .. 31 /\ p25 \in Int
  BY DEF Parts
<1>2. w20 \in Int /\ w15 \in Int /\ w12 \in Int /\ w7 \in Int
  BY <1>1
<1>3. /\ w \in Int /\ Rd(w) = p7 /\ Rs2(w) = p20
      /\ w \div 2 ^ 7 = w7 /\ w \div 2 ^ 12 = w12 /\ w \div 2 ^ 20 = w20
      /\ w \div 2 ^ 25 = p25
  BY Unpacked
<1>4. w < 0 <=> p25 < 0
  <2>1. w = p0 + 128 * w7
    BY Powers, SMT DEF WordOf
  <2>2. (w20 < 0 <=> p25 < 0) /\ (w15 < 0 <=> w20 < 0)
    BY <1>1, <1>2, SMT
  <2>3. (w12 < 0 <=> w15 < 0) /\ (w7 < 0 <=> w12 < 0)
    BY <1>1, <1>2, SMT
  <2>4. w < 0 <=> w7 < 0
    <3> HIDE DEF w, w7
    <3> QED
      BY <1>1, <1>2, <2>1, SMT
  <2> QED
    BY <2>2, <2>3, <2>4
<1>5. Field(w, 7, 1) = p7 % 2 /\ Field(w, 8, 4) = p7 \div 2
  <2>1. w7 = p7 + 32 * w12 /\ w \div 2 ^ 8 = w7 \div 2
    BY <1>3, Shifts, Powers, SMT
  <2>2. w7 % 2 = p7 % 2
    BY <1>1, <1>2, <2>1, SMT
  <2>3. (w7 \div 2) % 16 = p7 \div 2
    <3>1. w7 \div 2 = p7 \div 2 + 16 * w12
      BY <1>1, <1>2, <2>1, SMT
    <3>2. p7 \div 2 \in 0 .. 15
      BY <1>1, SMT
    <3> QED
      BY <1>2, <3>1, <3>2, SMT
  <2> QED
    BY <1>3, <2>1, <2>2, <2>3, Powers DEF Field
<1>6. Field(w, 25, 6) = p25 % 64 /\ Funct7(w) = p25 % 128 /\ Field(w, 20, 5) = p20
  BY <1>3, Powers, SMT DEF Field, Funct7, Rs2
<1>7. Field(w, 12, 8) = p12 + 8 * p15
  <2>1. w12 = (p12 + 8 * p15) + 256 * w20 /\ p12 + 8 * p15 \in 0 .. 255
    BY <1>1, SMT
  <2>2. w12 % 256 = p12 + 8 * p15
    <3> HIDE DEF w12, w20
    <3> QED
      BY <1>2, <2>1, SMT
  <2> QED
    BY <1>3, <2>2, Powers DEF Field
<1>8. Field(w, 20, 1) = p20 % 2
  <2>1. w20 % 2 = p20 % 2
    BY <1>1, SMT
  <2> QED
    BY <1>3, <2>1, Powers DEF Field
<1>9. Field(w, 21, 10) = p20 \div 2 + 16 * (p25 % 64)
  <2>1. w \div 2 ^ 21 = w20 \div 2
    BY <1>3, Shifts, Powers, SMT
  <2>2. w20 \div 2 = (p20 \div 2 + 16 * (p25 % 64)) + 1024 * (p25 \div 64)
    BY <1>1, SMT
  <2>3. p20 \div 2 + 16 * (p25 % 64) \in 0 .. 1023 /\ p25 \div 64 \in Int
    BY <1>1, SMT
  <2>4. (w20 \div 2) % 1024 = p20 \div 2 + 16 * (p25 % 64)
    BY <2>2, <2>3, Split
  <2> QED
    BY <2>1, <2>4, Powers DEF Field
<1>10. Field(w, 30, 2) = (p25 \div 32) % 4
  BY <1>3, Shifts, Powers, SMT DEF Field
<1>11. Field(w, 20, 12) = w20 % 4096
  <2>1. w \div 2 ^ 20 = w20 /\ 2 ^ 12 = 4096
    BY <1>3, Powers
  <2> QED
    BY <2>1 DEF Field
<1>12. SignOf(w) = sign
  BY <1>4 DEF SignOf
<1> HIDE DEF w, sign
<1>13. ImmI(w) = w20 /\ ImmS(w) = p7 + 32 * p25 /\ ImmU(w) = w12
  BY <1>1, <1>3, Powers, SMT DEF ImmI, ImmS, ImmU, Rd
<1>14. ImmB(w) = 4096 * sign + 2048 * (p7 % 2) + 32 * (p25 % 64) + 2 * (p7 \div 2)
  BY <1>5, <1>6, <1>12 DEF ImmB
<1>15. ImmJ(w) = 1048576 * sign + 4096 * (p12 + 8 * p15) + 2048 * (p20 % 2)
                  + 32 * (p25 % 64) + 2 * (p20 \div 2)
  <2>1. sign \in Int
    BY DEF sign
  <2> DEFINE u == p12 + 8 * p15
             v == p20 % 2
             m == p25 % 64
             n == p20 \div 2
  <2>2. u \in Int /\ v \in Int /\ m \in Int /\ n \in Int
    BY <1>1, SMT
  <2>3. ImmJ(w) = 1048576 * sign + 4096 * u + 2048 * v + 2 * (n + 16 * m)
    BY <1>7, <1>8, <1>9, <1>12 DEF ImmJ
  <2> HIDE DEF u, v, m, n
  <2>4. ImmJ(w) = 1048576 * sign + 4096 * u + 2048 * v + 32 * m + 2 * n
    BY <2>1, <2>2, <2>3, SMT
  <2> QED
    BY <2>4 DEF u, v, m, n
<1> QED
  BY <1>6, <1>10, <1>11, <1>13, <1>14, <1>15 DEF w, sign, w20, w15, w12

-----------------------------------------------------------------------------
(***************************************************************************)
(* The opcode map, row by row.                                             *)
(***************************************************************************)
LEMMA TypeNames ==
  Types = {"ADD", "SUB", "SLL", "SLT", "SLTU", "XOR", "SRL", "SRA", "OR", "AND",
           "ADDI", "LI", "SLTI", "SLTIU", "XORI", "ORI", "ANDI", "SLLI", "SRLI", "SRAI",
           "LB", "LH", "LW", "LBU", "LHU", "JALR", "SB", "SH", "SW",
           "BEQ", "BNE", "BLT", "BGE", "BLTU", "BGEU", "LUI", "AUIPC", "JAL",
           "ECALL", "EBREAK", "FENCE", "FENCE_I"}
BY DEF Types, Map

LEMMA RowFields ==
  \A format, op, f3, f7 :
    /\ Row(format, op, f3, f7).format = format /\ Row(format, op, f3, f7).op = op
    /\ Row(format, op, f3, f7).f3 = f3 /\ Row(format, op, f3, f7).f7 = f7
BY DEF Row

LEMMA RowsR ==
  /\ Map["ADD"] = Row("R", 51, 0, 0)  /\ Map["SUB"] = Row("R", 51, 0, 32)
  /\ Map["SLL"] = Row("R", 51, 1, 0)  /\ Map["SLT"] = Row("R", 51, 2, 0)
  /\ Map["SLTU"] = Row("R", 51, 3, 0) /\ Map["XOR"] = Row("R", 51, 4, 0)
  /\ Map["SRL"] = Row("R", 51, 5, 0)  /\ Map["SRA"] = Row("R", 51, 5, 32)
  /\ Map["OR"] = Row("R", 51, 6, 0)   /\ Map["AND"] = Row("R", 51, 7, 0)
BY DEF Map

LEMMA RowsI ==
  /\ Map["ADDI"] = Row("I", 19, 0, 0)  /\ Map["LI"] = Row("I", 19, 0, 0)
  /\ Map["SLTI"] = Row("I", 19, 2, 0)  /\ Map["SLTIU"] = Row("I", 19, 3, 0)
  /\ Map["XORI"] = Row("I", 19, 4, 0)  /\ Map["ORI"] = Row("I", 19, 6, 0)
  /\ Map["ANDI"] = Row("I", 19, 7, 0)
  /\ Map["LB"] = Row("I", 3, 0, 0)     /\ Map["LH"] = Row("I", 3, 1, 0)
  /\ Map["LW"] = Row("I", 3, 2, 0)     /\ Map["LBU"] = Row("I", 3, 4, 0)
  /\ Map["LHU"] = Row("I", 3, 5, 0)    /\ Map["JALR"] = Row("I", 103, 0, 0)
BY DEF Map

LEMMA RowsSh ==
  /\ Map["SLLI"] = Row("Sh", 19, 1, 0) /\ Map["SRLI"] = Row("Sh", 19, 5, 0)
  /\ Map["SRAI"] = Row("Sh", 19, 5, 32)
BY DEF Map

LEMMA RowsS ==
  /\ Map["SB"] = Row("S", 35, 0, 0)    /\ Map["SH"] = Row("S", 35, 1, 0)
  /\ Map["SW"] = Row("S", 35, 2, 0)
BY DEF Map

LEMMA RowsB ==
  /\ Map["BEQ"] = Row("B", 99, 0, 0)   /\ Map["BNE"] = Row("B", 99, 1, 0)
  /\ Map["BLT"] = Row("B", 99, 4, 0)   /\ Map["BGE"] = Row("B", 99, 5, 0)
  /\ Map["BLTU"] = Row("B", 99, 6, 0)  /\ Map["BGEU"] = Row("B", 99, 7, 0)
BY DEF Map

LEMMA RowsOther ==
  /\ Map["LUI"] = Row("U", 55, 0, 0)   /\ Map["AUIPC"] = Row("U", 23, 0, 0)
  /\ Map["JAL"] = Row("J", 111, 0, 0)
  /\ Map["ECALL"] = Row("E", 115, 0, 0) /\ Map["EBREAK"] = Row("E", 115, 0, 1)
  /\ Map["FENCE"] = Row("E", 15, 0, 0)  /\ Map["FENCE_I"] = Row("E", 15, 1, 0)
BY DEF Map

-----------------------------------------------------------------------------
(***************************************************************************)
(* What each switch of the decoder makes of the parts of a word.           *)
(***************************************************************************)
\* What decode_R makes of its two functions.
RName(f3, f7) ==
  CASE f7 = 0  -> <<"ADD", "SLL", "SLT", "SLTU", "XOR", "SRL", "OR", "AND">>[f3 + 1]
    [] f7 = 32 -> <<"SUB", "", "", "", "", "SRA", "", "">>[f3 + 1]
    [] OTHER   -> ""

IName(f3) == <<"ADDI", "", "SLTI", "SLTIU", "XORI", "", "ORI", "ANDI">>[f3 + 1]

ShName(f3, top) ==
  CASE f3 = 1 /\ top % 128 = 0         -> "SLLI"
    [] f3 = 5 /\ (top \div 32) % 4 = 0 -> "SRLI"
    [] f3 = 5 /\ (top \div 32) % 4 = 1 -> "SRAI"
    [] OTHER -> ""

LoadName(f3) == <<"LB", "LH", "LW", "", "LBU", "LHU", "", "">>[f3 + 1]

SName(f3) == <<"SB", "SH", "SW", "", "", "", "", "">>[f3 + 1]

BName(f3) == <<"BEQ", "BNE", "", "", "BLT", "BGE", "BLTU", "BGEU">>[f3 + 1]

FenceName(f3) == <<"FENCE", "FENCE_I", "", "", "", "", "", "">>[f3 + 1]

SignOf25(top) == IF top < 0 THEN -1 ELSE 0

Branching(p7, p25) ==
  4096 * SignOf25(p25) + 2048 * (p7 % 2) + 32 * (p25 % 64) + 2 * (p7 \div 2)

Jumping(p12, p15, p20, p25) ==
  1048576 * SignOf25(p25) + 4096 * (p12 + 8 * p15) + 2048 * (p20 % 2)
    + 32 * (p25 % 64) + 2 * (p20 \div 2)

\* decode32 by the parts of its word.
Decoded(p0, p7, p12, p15, p20, p25) ==
  CASE p0 = 51  -> Legal(R(RName(p12, p25 % 128), p7, p15, p20))
    [] p0 = 19  -> (CASE p12 = 0 /\ p15 = 0 -> U("LI", p7, p20 + 32 * p25)
                      [] p12 \in {1, 5} -> Legal(I(ShName(p12, p25), p7, p15, p20))
                      [] OTHER -> Legal(I(IName(p12), p7, p15, p20 + 32 * p25)))
    [] p0 = 3   -> Legal(I(LoadName(p12), p7, p15, p20 + 32 * p25))
    [] p0 = 103 -> I("JALR", p7, p15, p20 + 32 * p25)
    [] p0 = 35  -> Legal(S(SName(p12), p15, p20, p7 + 32 * p25))
    [] p0 = 99  -> Legal(S(BName(p12), p15, p20, Branching(p7, p25)))
    [] p0 = 55  -> U("LUI", p7, p12 + 8 * (p15 + 32 * (p20 + 32 * p25)))
    [] p0 = 23  -> U("AUIPC", p7, p12 + 8 * (p15 + 32 * (p20 + 32 * p25)))
    [] p0 = 111 -> U("JAL", p7, Jumping(p12, p15, p20, p25))
    [] p0 = 15  -> Legal(U(FenceName(p12), 0, 0))
    [] p0 = 115 -> (CASE p12 = 0 /\ (p20 + 32 * p25) % 4096 = 0 -> U("ECALL", 0, 0)
                      [] p12 = 0 /\ (p20 + 32 * p25) % 4096 = 1 -> U("EBREAK", 0, 0)
                      [] OTHER -> Illegal)
    [] OTHER    -> Illegal

LEMMA DecodedParts ==
  ASSUME NEW p0, NEW p7, NEW p12, NEW p15, NEW p20, NEW p25,
         Parts(p0, p7, p12, p15, p20, p25)
  PROVE  Decode32(WordOf(p0, p7, p12, p15, p20, p25)) = Decoded(p0, p7, p12, p15, p20, p25)
<1> DEFINE w == WordOf(p0, p7, p12, p15, p20, p25)
<1>1. /\ Field(w, 0, 7) = p0 /\ Rd(w) = p7 /\ Funct3(w) = p12
      /\ Rs1(w) = p15 /\ Rs2(w) = p20
  BY Unpacked
<1>2. /\ ImmI(w) = p20 + 32 * p25 /\ ImmS(w) = p7 + 32 * p25
      /\ ImmU(w) = p12 + 8 * (p15 + 32 * (p20 + 32 * p25))
      /\ Funct7(w) = p25 % 128 /\ Field(w, 20, 5) = p20
      /\ Field(w, 20, 12) = (p20 + 32 * p25) % 4096
      /\ Field(w, 30, 2) = (p25 \div 32) % 4
  BY Immediates
<1>3. ImmB(w) = Branching(p7, p25) /\ ImmJ(w) = Jumping(p12, p15, p20, p25)
  BY Immediates DEF Branching, Jumping, SignOf25
<1> HIDE DEF w
<1>4. DecodeR(w) = Legal(R(RName(p12, p25 % 128), p7, p15, p20))
  BY <1>1, <1>2 DEF DecodeR, Case, RName
<1>5. DecodeImmediate(w) =
        CASE p12 = 0 /\ p15 = 0 -> U("LI", p7, p20 + 32 * p25)
          [] p12 \in {1, 5} -> Legal(I(ShName(p12, p25), p7, p15, p20))
          [] OTHER -> Legal(I(IName(p12), p7, p15, p20 + 32 * p25))
  <2>1. ShiftName(w) = ShName(p12, p25)
    BY <1>1, <1>2 DEF ShiftName, ShName
  <2>2. ImmediateName(w) = IName(p12)
    BY <1>1 DEF ImmediateName, IName, Case
  <2> QED
    BY <1>1, <1>2, <2>1, <2>2 DEF DecodeImmediate
<1>6. DecodeLoad(w) = Legal(I(LoadName(p12), p7, p15, p20 + 32 * p25))
  BY <1>1, <1>2 DEF DecodeLoad, Case, LoadName
<1>7. DecodeS(w) = Legal(S(SName(p12), p15, p20, p7 + 32 * p25))
  BY <1>1, <1>2 DEF DecodeS, Case, SName
<1>8. DecodeB(w) = Legal(S(BName(p12), p15, p20, Branching(p7, p25)))
  BY <1>1, <1>3 DEF DecodeB, Case, BName
<1>9. DecodeMiscMem(w) = Legal(U(FenceName(p12), 0, 0))
  BY <1>1 DEF DecodeMiscMem, Case, FenceName
<1>10. DecodeSystem(w) =
         CASE p12 = 0 /\ (p20 + 32 * p25) % 4096 = 0 -> U("ECALL", 0, 0)
           [] p12 = 0 /\ (p20 + 32 * p25) % 4096 = 1 -> U("EBREAK", 0, 0)
           [] OTHER -> Illegal
  BY <1>1, <1>2 DEF DecodeSystem
<1> QED
  BY <1>1, <1>2, <1>3, <1>4, <1>5, <1>6, <1>7, <1>8, <1>9, <1>10 DEF Decode32, Decoded, w

-----------------------------------------------------------------------------
(***************************************************************************)
(* The distances of branches and jumps are put together from pieces.       *)
(***************************************************************************)
Pieces(n, a, b, c, high) ==
  /\ a \in 0 .. 15 /\ b \in 0 .. 63 /\ c \in 0 .. 1 /\ high \in Int
  /\ n = 2 * a + 32 * b + 2048 * c + 4096 * high

LEMMA PiecesOf ==
  ASSUME NEW n \in Int, n % 2 = 0
  PROVE  /\ Pieces(n, (n \div 2) % 16, (n \div 32) % 64, (n \div 2048) % 2, n \div 4096)
         /\ (n \div 2) % 16 \in 0 .. 15 /\ (n \div 32) % 64 \in 0 .. 63
         /\ (n \div 2048) % 2 \in 0 .. 1 /\ n \div 4096 \in Int
<1>1. /\ n \div 32 = (n \div 2) \div 16 /\ n \div 2048 = (n \div 32) \div 64
      /\ n \div 4096 = (n \div 2048) \div 2
  BY SMT
<1> DEFINE q1 == n \div 2
           q2 == n \div 32
           q3 == n \div 2048
           q4 == n \div 4096
<1>2. n = 2 * q1 /\ q1 \in Int /\ q2 \in Int /\ q3 \in Int /\ q4 \in Int
  BY SMT
<1> HIDE DEF q1, q2, q3, q4
<1>3. q2 = q1 \div 16 /\ q3 = q2 \div 64 /\ q4 = q3 \div 2
  BY <1>1 DEF q1, q2, q3, q4
<1>4. q1 = (q1 % 16) + 16 * q2 /\ q2 = (q2 % 64) + 64 * q3 /\ q3 = (q3 % 2) + 2 * q4
  BY <1>2, <1>3, SMT
<1>5. n = 2 * (q1 % 16) + 32 * (q2 % 64) + 2048 * (q3 % 2) + 4096 * q4
  <2> DEFINE r1 == q1 % 16
             r2 == q2 % 64
             r3 == q3 % 2
  <2>1. r1 \in Int /\ r2 \in Int /\ r3 \in Int
    BY <1>2, SMT
  <2>2. q1 = r1 + 16 * q2 /\ q2 = r2 + 64 * q3 /\ q3 = r3 + 2 * q4
    BY <1>4
  <2> HIDE DEF r1, r2, r3
  <2>3. n = 2 * r1 + 32 * r2 + 2048 * r3 + 4096 * q4
    BY <1>2, <2>1, <2>2, SMT
  <2> QED
    BY <2>3 DEF r1, r2, r3
<1>6. /\ q1 % 16 \in 0 .. 15 /\ q2 % 64 \in 0 .. 63 /\ q3 % 2 \in 0 .. 1
  BY <1>2, SMT
<1> QED
  BY <1>2, <1>5, <1>6 DEF Pieces, q1, q2, q3, q4

LEMMA PiecesUnique ==
  ASSUME NEW n, NEW a, NEW b, NEW c, NEW high, Pieces(n, a, b, c, high)
  PROVE  /\ (n \div 2) % 16 = a /\ (n \div 32) % 64 = b /\ (n \div 2048) % 2 = c
         /\ n \div 4096 = high /\ n % 2 = 0
<1>0. /\ a \in 0 .. 15 /\ b \in 0 .. 63 /\ c \in 0 .. 1 /\ high \in Int
      /\ n = 2 * a + 32 * b + 2048 * c + 4096 * high
  BY DEF Pieces
<1> DEFINE q3 == c + 2 * high
           q2 == b + 64 * q3
           q1 == a + 16 * q2
<1>1. q3 \in Int /\ q3 % 2 = c /\ q3 \div 2 = high
  BY <1>0, SMT
<1>2. n = 2 * q1
  BY <1>0, SMT
<1> HIDE DEF q3
<1>3. q2 \in Int /\ q2 % 64 = b /\ q2 \div 64 = q3
  BY <1>0, <1>1, SMT
<1> HIDE DEF q2
<1>4. q1 \in Int /\ q1 % 16 = a /\ q1 \div 16 = q2
  BY <1>0, <1>3, SMT
<1> HIDE DEF q1
<1>5. n \div 2 = q1 /\ n % 2 = 0
  BY <1>2, <1>4, SMT
<1>6. /\ n \div 32 = (n \div 2) \div 16 /\ n \div 2048 = (n \div 32) \div 64
      /\ n \div 4096 = (n \div 2048) \div 2
  BY <1>0, SMT
<1> QED
  BY <1>1, <1>3, <1>4, <1>5, <1>6

-----------------------------------------------------------------------------
(***************************************************************************)
(* An encoded instruction is decoded to itself, format by format.          *)
(***************************************************************************)
RNames  == {"ADD", "SUB", "SLL", "SLT", "SLTU", "XOR", "SRL", "SRA", "OR", "AND"}
INames  == {"ADDI", "SLTI", "SLTIU", "XORI", "ORI", "ANDI"}
ShNames == {"SLLI", "SRLI", "SRAI"}
UNames  == {"LUI", "AUIPC"}
ENames  == {"ECALL", "EBREAK", "FENCE", "FENCE_I"}
Numbers == 0 .. 31

LEMMA EncodedR ==
  ASSUME NEW t \in RNames, NEW d \in Numbers, NEW s1 \in Numbers, NEW s2 \in Numbers
  PROVE  Decode32(Encode(R(t, d, s1, s2))) = R(t, d, s1, s2)
<1> DEFINE f3 == Map[t].f3
           f7 == Map[t].f7
<1>1. /\ Map[t].format = "R" /\ Map[t].op = 51 /\ f3 \in 0 .. 7 /\ f7 \in {0, 32}
      /\ RName(f3, f7) = t
  <2>1. /\ RName(0, 0) = "ADD" /\ RName(1, 0) = "SLL" /\ RName(2, 0) = "SLT"
        /\ RName(3, 0) = "SLTU" /\ RName(4, 0) = "XOR" /\ RName(5, 0) = "SRL"
        /\ RName(6, 0) = "OR" /\ RName(7, 0) = "AND"
        /\ RName(0, 32) = "SUB" /\ RName(5, 32) = "SRA"
    BY DEF RName
  <2>2. CASE t \in {"ADD", "SUB", "SLL", "SLT"}
    BY <2>1, <2>2, RowsR, RowFields
  <2>3. CASE t \in {"SLTU", "XOR", "SRL"}
    BY <2>1, <2>3, RowsR, RowFields
  <2>4. CASE t \in {"SRA", "OR", "AND"}
    BY <2>1, <2>4, RowsR, RowFields
  <2> QED
    BY <2>2, <2>3, <2>4 DEF RNames
<1> HIDE DEF f3, f7
<1>2. Encode(R(t, d, s1, s2)) = WordOf(51, d, f3, s1, s2, f7)
  BY <1>1 DEF Encode, RFormat, R, f3, f7
<1>3. f7 % 128 = f7 /\ Parts(51, d, f3, s1, s2, f7)
  BY <1>1 DEF Parts, Numbers
<1>4. Decode32(WordOf(51, d, f3, s1, s2, f7)) = Legal(R(t, d, s1, s2))
  BY <1>1, <1>3, DecodedParts DEF Decoded
<1> QED
  BY <1>2, <1>4 DEF Legal, R, RNames

\* An immediate in one piece, but for its bits above the fifth.
LEMMA LowHigh ==
  ASSUME NEW n \in Int
  PROVE  /\ Bits(n, 0, 5) \in 0 .. 31 /\ From(n, 5) \in Int
         /\ Bits(n, 0, 5) + 32 * From(n, 5) = n
<1>1. n \div 1 = n
  BY SMT
<1>2. Bits(n, 0, 5) = n % 32 /\ From(n, 5) = n \div 32
  BY <1>1, Powers DEF Bits, From
<1> QED
  BY <1>2, SMT

LEMMA EncodedI ==
  ASSUME NEW t \in INames, NEW d \in Numbers, NEW s1 \in Numbers, NEW n \in Int,
         t = "ADDI" => s1 # 0
  PROVE  Decode32(Encode(I(t, d, s1, n))) = I(t, d, s1, n)
<1> DEFINE f3   == Map[t].f3
           low  == Bits(n, 0, 5)
           high == From(n, 5)
<1>1. /\ Map[t].format = "I" /\ Map[t].op = 19 /\ f3 \in 0 .. 7 \ {1, 5}
      /\ f3 = 0 => t = "ADDI"
      /\ IName(f3) = t
  <2>1. /\ IName(0) = "ADDI" /\ IName(2) = "SLTI" /\ IName(3) = "SLTIU"
        /\ IName(4) = "XORI" /\ IName(6) = "ORI" /\ IName(7) = "ANDI"
    BY DEF IName
  <2> QED
    BY <2>1, RowsI, RowFields DEF INames
<1>2. low \in 0 .. 31 /\ high \in Int /\ low + 32 * high = n
  BY LowHigh
<1>3. Encode(I(t, d, s1, n)) = WordOf(19, d, f3, s1, low, high)
  BY <1>1 DEF Encode, IFormat, I
<1> HIDE DEF f3, low, high
<1>4. Parts(19, d, f3, s1, low, high)
  BY <1>1, <1>2 DEF Parts, Numbers
<1>5. Decode32(WordOf(19, d, f3, s1, low, high)) = Legal(I(t, d, s1, n))
  BY <1>1, <1>2, <1>4, DecodedParts DEF Decoded
<1> QED
  BY <1>3, <1>5 DEF Legal, I, INames

LEMMA EncodedLI ==
  ASSUME NEW d \in Numbers, NEW n \in Int
  PROVE  Decode32(Encode(U("LI", d, n))) = U("LI", d, n)
<1> DEFINE low  == Bits(n, 0, 5)
           high == From(n, 5)
<1>1. Map["LI"].format = "I" /\ Map["LI"].op = 19 /\ Map["LI"].f3 = 0
  BY RowsI, RowFields
<1>2. low \in 0 .. 31 /\ high \in Int /\ low + 32 * high = n
  BY LowHigh
<1>3. Encode(U("LI", d, n)) = WordOf(19, d, 0, 0, low, high)
  BY <1>1 DEF Encode, IFormat, U
<1> HIDE DEF low, high
<1>4. Parts(19, d, 0, 0, low, high)
  BY <1>2 DEF Parts, Numbers
<1> QED
  BY <1>2, <1>3, <1>4, DecodedParts DEF Decoded

LEMMA EncodedLoad ==
  ASSUME NEW t \in Loads \cup {"JALR"}, NEW d \in Numbers, NEW s1 \in Numbers, NEW n \in Int
  PROVE  Decode32(Encode(I(t, d, s1, n))) = I(t, d, s1, n)
<1> DEFINE op   == Map[t].op
           f3   == Map[t].f3
           low  == Bits(n, 0, 5)
           high == From(n, 5)
<1>1. /\ Map[t].format = "I" /\ f3 \in 0 .. 7
      /\ (op = 103 /\ t = "JALR") \/ (op = 3 /\ LoadName(f3) = t)
  <2>1. /\ LoadName(0) = "LB" /\ LoadName(1) = "LH" /\ LoadName(2) = "LW"
        /\ LoadName(4) = "LBU" /\ LoadName(5) = "LHU"
    BY DEF LoadName
  <2> QED
    BY <2>1, RowsI, RowFields DEF Loads
<1>2. low \in 0 .. 31 /\ high \in Int /\ low + 32 * high = n
  BY LowHigh
<1>3. Encode(I(t, d, s1, n)) = WordOf(op, d, f3, s1, low, high)
  BY <1>1 DEF Encode, IFormat, I
<1> HIDE DEF op, f3, low, high
<1>4. Parts(op, d, f3, s1, low, high)
  BY <1>1, <1>2 DEF Parts, Numbers
<1>5. Decode32(WordOf(op, d, f3, s1, low, high)) \in {I(t, d, s1, n), Legal(I(t, d, s1, n))}
  BY <1>1, <1>2, <1>4, DecodedParts DEF Decoded
<1> QED
  BY <1>3, <1>5 DEF Legal, I, Loads

LEMMA EncodedSh ==
  ASSUME NEW t \in ShNames, NEW d \in Numbers, NEW s1 \in Numbers, NEW n \in Numbers
  PROVE  Decode32(Encode(I(t, d, s1, n))) = I(t, d, s1, n)
<1> DEFINE f3 == Map[t].f3
           f7 == Map[t].f7
<1>1. /\ Map[t].format = "Sh" /\ Map[t].op = 19 /\ f3 \in {1, 5} /\ f7 \in {0, 32}
      /\ ShName(f3, f7) = t
  <2>1. ShName(1, 0) = "SLLI" /\ ShName(5, 0) = "SRLI" /\ ShName(5, 32) = "SRAI"
    BY SMT DEF ShName
  <2> QED
    BY <2>1, RowsSh, RowFields DEF ShNames
<1>2. Encode(I(t, d, s1, n)) = WordOf(19, d, f3, s1, n, f7)
  BY <1>1 DEF Encode, RFormat, I
<1> HIDE DEF f3, f7
<1>3. Parts(19, d, f3, s1, n, f7)
  BY <1>1 DEF Parts, Numbers
<1>4. Decode32(WordOf(19, d, f3, s1, n, f7)) = Legal(I(t, d, s1, n))
  BY <1>1, <1>3, DecodedParts DEF Decoded
<1> QED
  BY <1>2, <1>4 DEF Legal, I, ShNames

LEMMA EncodedS ==
  ASSUME NEW t \in Stores, NEW s1 \in Numbers, NEW s2 \in Numbers, NEW n \in Int
  PROVE  Decode32(Encode(S(t, s1, s2, n))) = S(t, s1, s2, n)
<1> DEFINE f3   == Map[t].f3
           low  == Bits(n, 0, 5)
           high == From(n, 5)
<1>1. Map[t].format = "S" /\ Map[t].op = 35 /\ f3 \in 0 .. 7 /\ SName(f3) = t
  <2>1. SName(0) = "SB" /\ SName(1) = "SH" /\ SName(2) = "SW"
    BY DEF SName
  <2> QED
    BY <2>1, RowsS, RowFields DEF Stores
<1>2. low \in 0 .. 31 /\ high \in Int /\ low + 32 * high = n
  BY LowHigh
<1>3. Encode(S(t, s1, s2, n)) = WordOf(35, low, f3, s1, s2, high)
  BY <1>1 DEF Encode, SFormat, S
<1> HIDE DEF f3, low, high
<1>4. Parts(35, low, f3, s1, s2, high)
  BY <1>1, <1>2 DEF Parts, Numbers
<1>5. Decode32(WordOf(35, low, f3, s1, s2, high)) = Legal(S(t, s1, s2, n))
  BY <1>1, <1>2, <1>4, DecodedParts DEF Decoded
<1> QED
  BY <1>3, <1>5 DEF Legal, S, Stores

\* The pieces of a distance as the formats take them.
LEMMA Distance ==
  ASSUME NEW n \in Int, n % 2 = 0
  PROVE  LET a    == Bits(n, 1, 4)
             b    == Bits(n, 5, 6)
             c    == Bits(n, 11, 1)
             high == From(n, 12)
         IN /\ a \in 0 .. 15 /\ b \in 0 .. 63 /\ c \in 0 .. 1 /\ high \in Int
            /\ Pieces(n, a, b, c, high)
            /\ c + 2 * a \in 0 .. 31 /\ (c + 2 * a) % 2 = c /\ (c + 2 * a) \div 2 = a
<1> DEFINE a    == Bits(n, 1, 4)
           b    == Bits(n, 5, 6)
           c    == Bits(n, 11, 1)
           high == From(n, 12)
<1>1. /\ a = (n \div 2) % 16 /\ b = (n \div 32) % 64 /\ c = (n \div 2048) % 2
      /\ high = n \div 4096
  BY Powers, SMT DEF Bits, From
<1> HIDE DEF a, b, c, high
<1>2. /\ a \in 0 .. 15 /\ b \in 0 .. 63 /\ c \in 0 .. 1 /\ high \in Int
      /\ Pieces(n, a, b, c, high)
  BY <1>1, PiecesOf
<1>3. c + 2 * a \in 0 .. 31 /\ (c + 2 * a) % 2 = c /\ (c + 2 * a) \div 2 = a
  BY <1>2, SMT
<1> QED
  BY <1>2, <1>3 DEF a, b, c, high

\* The top of a distance's word has its sign.
LEMMA Top ==
  ASSUME NEW b \in 0 .. 63, NEW high \in -1 .. 0
  PROVE  /\ b + 64 * high \in -64 .. 63 /\ (b + 64 * high) % 64 = b
         /\ SignOf25(b + 64 * high) = high
<1>1. b + 64 * high \in -64 .. 63 /\ (b + 64 * high) % 64 = b
  BY SMT
<1>2. b + 64 * high < 0 <=> high = -1
  BY SMT
<1> QED
  BY <1>1, <1>2 DEF SignOf25

LEMMA EncodedB ==
  ASSUME NEW t \in Branches, NEW s1 \in Numbers, NEW s2 \in Numbers,
         NEW n \in Int, n % 2 = 0, From(n, 12) \in -1 .. 0
  PROVE  Decode32(Encode(S(t, s1, s2, n))) = S(t, s1, s2, n)
<1> DEFINE f3   == Map[t].f3
           a    == Bits(n, 1, 4)
           b    == Bits(n, 5, 6)
           c    == Bits(n, 11, 1)
           high == From(n, 12)
           p7   == c + 2 * a
           p25  == b + 2 ^ 6 * high
<1>1. Map[t].format = "B" /\ Map[t].op = 99 /\ f3 \in 0 .. 7 /\ BName(f3) = t
  <2>1. /\ BName(0) = "BEQ" /\ BName(1) = "BNE" /\ BName(4) = "BLT"
        /\ BName(5) = "BGE" /\ BName(6) = "BLTU" /\ BName(7) = "BGEU"
    BY DEF BName
  <2> QED
    BY <2>1, RowsB, RowFields DEF Branches
<1>2. high \in -1 .. 0
  OBVIOUS
<1>3. Encode(S(t, s1, s2, n)) = WordOf(99, p7, f3, s1, s2, p25)
  BY <1>1 DEF Encode, BFormat, S
<1>4. /\ a \in 0 .. 15 /\ b \in 0 .. 63 /\ c \in 0 .. 1
      /\ Pieces(n, a, b, c, high)
      /\ p7 \in 0 .. 31 /\ p7 % 2 = c /\ p7 \div 2 = a
  BY Distance
<1> HIDE DEF a, b, c, high, f3
<1>5. p25 = b + 64 * high
  BY Powers, SMT
<1>6. p25 \in Int /\ p25 % 64 = b /\ SignOf25(p25) = high
  BY <1>2, <1>4, <1>5, Top
<1> HIDE DEF p7, p25
<1>7. Parts(99, p7, f3, s1, s2, p25)
  BY <1>1, <1>4, <1>6 DEF Parts, Numbers
<1>8. Branching(p7, p25) = n
  <2>1. Branching(p7, p25) = 4096 * high + 2048 * c + 32 * b + 2 * a
    BY <1>4, <1>6, SMT DEF Branching
  <2> QED
    BY <1>2, <1>4, <2>1, SMT DEF Pieces
<1>9. Decode32(WordOf(99, p7, f3, s1, s2, p25)) = Legal(S(t, s1, s2, n))
  BY <1>1, <1>7, <1>8, DecodedParts, SMT DEF Decoded
<1> QED
  BY <1>3, <1>9 DEF Legal, S, Branches

\* An upper immediate in its four pieces.
LEMMA Upper ==
  ASSUME NEW n \in Int
  PROVE  LET p12 == Bits(n, 0, 3)
             p15 == Bits(n, 3, 5)
             p20 == Bits(n, 8, 5)
             p25 == From(n, 13)
         IN /\ p12 \in 0 .. 7 /\ p15 \in 0 .. 31 /\ p20 \in 0 .. 31 /\ p25 \in Int
            /\ p12 + 8 * (p15 + 32 * (p20 + 32 * p25)) = n
<1> DEFINE q3 == n \div 8
           q2 == n \div 256
           q1 == n \div 8192
<1>1. q2 = q3 \div 32 /\ q1 = q2 \div 32 /\ q1 \in Int /\ q2 \in Int /\ q3 \in Int
  BY SMT
<1>2. n = (n % 8) + 8 * q3 /\ n % 8 \in 0 .. 7
  BY SMT
<1>3. /\ Bits(n, 0, 3) = n % 8 /\ Bits(n, 3, 5) = q3 % 32 /\ Bits(n, 8, 5) = q2 % 32
      /\ From(n, 13) = q1
  <2>1. n \div 1 = n
    BY SMT
  <2> QED
    BY <2>1, Powers, SMT DEF Bits, From
<1> HIDE DEF q1, q2, q3
<1>4. /\ q3 = (q3 % 32) + 32 * q2 /\ q3 % 32 \in 0 .. 31
      /\ q2 = (q2 % 32) + 32 * q1 /\ q2 % 32 \in 0 .. 31
  BY <1>1, SMT
<1> QED
  BY <1>1, <1>2, <1>3, <1>4

LEMMA EncodedU ==
  ASSUME NEW t \in UNames, NEW d \in Numbers, NEW n \in Int
  PROVE  Decode32(Encode(U(t, d, n))) = U(t, d, n)
<1> DEFINE op  == Map[t].op
           p12 == Bits(n, 0, 3)
           p15 == Bits(n, 3, 5)
           p20 == Bits(n, 8, 5)
           p25 == From(n, 13)
<1>1. Map[t].format = "U" /\ ((op = 55 /\ t = "LUI") \/ (op = 23 /\ t = "AUIPC"))
  BY RowsOther, RowFields DEF UNames
<1>2. /\ p12 \in 0 .. 7 /\ p15 \in 0 .. 31 /\ p20 \in 0 .. 31 /\ p25 \in Int
      /\ p12 + 8 * (p15 + 32 * (p20 + 32 * p25)) = n
  BY Upper
<1>3. Encode(U(t, d, n)) = WordOf(op, d, p12, p15, p20, p25)
  BY <1>1 DEF Encode, UFormat, U
<1> HIDE DEF op, p12, p15, p20, p25
<1>4. Parts(op, d, p12, p15, p20, p25)
  BY <1>1, <1>2 DEF Parts, Numbers
<1> QED
  BY <1>1, <1>2, <1>3, <1>4, DecodedParts, SMT DEF Decoded

LEMMA EncodedJ ==
  ASSUME NEW d \in Numbers, NEW n \in Int, n % 2 = 0, From(n, 20) \in -1 .. 0
  PROVE  Decode32(Encode(U("JAL", d, n))) = U("JAL", d, n)
<1> DEFINE a    == Bits(n, 1, 4)
           b    == Bits(n, 5, 6)
           c    == Bits(n, 11, 1)
           high == From(n, 12)
           p12  == Bits(n, 12, 3)
           p15  == Bits(n, 15, 5)
           top  == From(n, 20)
           p20  == c + 2 * a
           p25  == b + 2 ^ 6 * top
<1>1. Map["JAL"].format = "J" /\ Map["JAL"].op = 111
  BY RowsOther, RowFields, SMT
<1>2. Encode(U("JAL", d, n)) = WordOf(111, d, p12, p15, p20, p25)
  BY <1>1, SMT DEF Encode, JFormat, U
<1>3. /\ a \in 0 .. 15 /\ b \in 0 .. 63 /\ c \in 0 .. 1 /\ high \in Int
      /\ Pieces(n, a, b, c, high)
      /\ p20 \in 0 .. 31 /\ p20 % 2 = c /\ p20 \div 2 = a
  BY Distance, SMT
<1>4. /\ p12 \in 0 .. 7 /\ p15 \in 0 .. 31 /\ top \in -1 .. 0
      /\ high = (p12 + 8 * p15) + 256 * top
  <2>1. high = n \div 4096 /\ p12 = high % 8 /\ p15 = (n \div 32768) % 32
        /\ top = n \div 1048576
    BY Powers, SMT DEF From, Bits
  <2>2. n \div 32768 = high \div 8 /\ top = (n \div 32768) \div 32
    BY <2>1, SMT
  <2>7. top \in -1 .. 0
    OBVIOUS
  <2> DEFINE q == n \div 32768
  <2> HIDE DEF q, high, top, p12, p15
  <2>3. q = high \div 8 /\ top = q \div 32 /\ p12 = high % 8 /\ p15 = q % 32
    BY <2>1, <2>2, SMT DEF q
  <2>4. q \in Int
    BY <1>3, <2>3, SMT
  <2>5. high = p12 + 8 * q /\ p12 \in 0 .. 7
    BY <1>3, <2>3, SMT
  <2>6. q = p15 + 32 * top /\ p15 \in 0 .. 31
    BY <2>3, <2>4, SMT
  <2> QED
    BY <2>5, <2>6, <2>7, SMT
<1> HIDE DEF a, b, c, high, top, p12, p15
<1>5. p25 = b + 64 * top
  BY Powers, SMT
<1>6. p25 \in Int /\ p25 % 64 = b /\ SignOf25(p25) = top
  BY <1>3, <1>4, <1>5, Top, SMT
<1> HIDE DEF p20, p25
<1>7. Parts(111, d, p12, p15, p20, p25)
  BY <1>3, <1>4, <1>6, SMT DEF Parts, Numbers
<1>8. Jumping(p12, p15, p20, p25) = n
  <2>1. Jumping(p12, p15, p20, p25) =
          1048576 * top + 4096 * (p12 + 8 * p15) + 2048 * c + 32 * b + 2 * a
    BY <1>3, <1>6, SMT DEF Jumping
  <2>2. n = 2 * a + 32 * b + 2048 * c + 4096 * ((p12 + 8 * p15) + 256 * top)
    BY <1>3, <1>4, SMT DEF Pieces
  <2> QED
    BY <1>3, <1>4, <2>1, <2>2, SMT
<1> QED
  BY <1>2, <1>7, <1>8, DecodedParts, SMT DEF Decoded

LEMMA EncodedE ==
  ASSUME NEW t \in ENames
  PROVE  Decode32(Encode(U(t, 0, 0))) = U(t, 0, 0)
<1> DEFINE op == Map[t].op
           f3 == Map[t].f3
           f7 == Map[t].f7
<1>1. /\ Map[t].format = "E"
      /\ \/ op = 115 /\ f3 = 0 /\ f7 = 0 /\ t = "ECALL"
         \/ op = 115 /\ f3 = 0 /\ f7 = 1 /\ t = "EBREAK"
         \/ op = 15 /\ f3 = 0 /\ f7 = 0 /\ t = "FENCE"
         \/ op = 15 /\ f3 = 1 /\ f7 = 0 /\ t = "FENCE_I"
  BY RowsOther, RowFields DEF ENames
<1>2. Bits(f7, 0, 5) = f7 /\ From(f7, 5) = 0
  <2>1. \A n \in 0 .. 1 : (n \div 1) % 32 = n /\ n \div 32 = 0
    BY SMT
  <2> QED
    BY <1>1, <2>1, Powers DEF Bits, From
<1>3. Encode(U(t, 0, 0)) = WordOf(op, 0, f3, 0, Bits(f7, 0, 5), From(f7, 5))
  BY <1>1 DEF Encode, IFormat, U
<1> HIDE DEF op, f3, f7
<1>4. Parts(op, 0, f3, 0, f7, 0)
  BY <1>1 DEF Parts
<1>5. (f7 + 32 * 0) % 4096 = f7
  BY <1>1, SMT
<1>6. Decode32(WordOf(op, 0, f3, 0, f7, 0)) = U(t, 0, 0)
  <2>1. Decode32(WordOf(op, 0, f3, 0, f7, 0)) = Decoded(op, 0, f3, 0, f7, 0)
    BY <1>4, DecodedParts
  <2>2. FenceName(0) = "FENCE" /\ FenceName(1) = "FENCE_I"
    BY DEF FenceName
  <2>3. CASE op = 115
    BY <1>1, <1>5, <2>1, <2>3 DEF Decoded
  <2>4. CASE op = 15
    <3>1. Decoded(op, 0, f3, 0, f7, 0) = Legal(U(FenceName(f3), 0, 0))
      BY <2>4 DEF Decoded
    <3>2. (f3 = 0 /\ t = "FENCE") \/ (f3 = 1 /\ t = "FENCE_I")
      BY <1>1, <2>4
    <3>3. FenceName(f3) = t
      BY <2>2, <3>2
    <3>4. t # ""
      BY <3>2
    <3> QED
      BY <2>1, <3>1, <3>3, <3>4 DEF Legal, U
  <2> QED
    BY <1>1, <2>3, <2>4
<1> QED
  BY <1>2, <1>3, <1>6

-----------------------------------------------------------------------------
(***************************************************************************)
(* A decoded word is an instruction, and is encoded to the word again.     *)
(***************************************************************************)
\* The instructions there are, with any immediate.
Instruction(i) ==
  \/ \E t \in RNames : \E d, s1, s2 \in Numbers : i = R(t, d, s1, s2)
  \/ \E t \in INames \cup ShNames \cup Loads \cup {"JALR"} : \E d, s1 \in Numbers :
       \E n \in Int : i = I(t, d, s1, n)
  \/ \E t \in Stores \cup Branches : \E s1, s2 \in Numbers : \E n \in Int : i = S(t, s1, s2, n)
  \/ \E t \in UNames \cup {"LI", "JAL"} : \E d \in Numbers : \E n \in Int : i = U(t, d, n)
  \/ \E t \in ENames : i = U(t, 0, 0)

\* What a word may decode to.
Faithful(i, w) ==
  i = Illegal \/ (Instruction(i) /\ (i.type \in Strict => Encode(i) = w))

LEMMA FaithfulLegal ==
  ASSUME NEW i, NEW w,
         i.type # "" => Instruction(i) /\ (i.type \in Strict => Encode(i) = w)
  PROVE  Faithful(Legal(i), w)
BY DEF Faithful, Legal

LEMMA AboveBelow ==
  ASSUME NEW low \in 0 .. 31, NEW high \in Int
  PROVE  /\ low + 32 * high \in Int
         /\ Bits(low + 32 * high, 0, 5) = low /\ From(low + 32 * high, 5) = high
<1> DEFINE n == low + 32 * high
<1>1. n \in Int /\ n % 32 = low /\ n \div 32 = high
  BY Split, SMT
<1> HIDE DEF n
<1>2. Bits(n, 0, 5) = n % 32 /\ From(n, 5) = n \div 32
  <2>1. n \div 1 = n
    BY <1>1, SMT
  <2> QED
    BY <2>1, Powers, SMT DEF Bits, From
<1> QED
  BY <1>1, <1>2 DEF n

\* A number of seven bits is known by them.
LEMMA SevenBits ==
  ASSUME NEW top \in -64 .. 63
  PROVE  /\ top % 128 \in {0, 32} => top = top % 128
         /\ top = (top % 64) + 64 * SignOf25(top) /\ top % 64 \in 0 .. 63
         /\ SignOf25(top) \in -1 .. 0
<1>1. top % 128 \in {0, 32} => top = top % 128
  BY SMT
<1>2. /\ top < 0 => top % 64 = top + 64
      /\ top >= 0 => top % 64 = top
      /\ top % 64 \in 0 .. 63
  BY SMT
<1> QED
  BY <1>1, <1>2 DEF SignOf25

\* The switch of decode_R has the types of the opcode map.
LEMMA TableR ==
  ASSUME NEW f3 \in 0 .. 7, NEW f7 \in {0, 32}
  PROVE  \/ RName(f3, f7) = ""
         \/ RName(f3, f7) \in RNames /\ Map[RName(f3, f7)] = Row("R", 51, f3, f7)
<1> DEFINE Good(n, m) == \/ RName(n, m) = ""
                         \/ RName(n, m) \in RNames /\ Map[RName(n, m)] = Row("R", 51, n, m)
<1>1. /\ RName(0, 0) = "ADD" /\ RName(1, 0) = "SLL" /\ RName(2, 0) = "SLT"
      /\ RName(3, 0) = "SLTU" /\ RName(4, 0) = "XOR" /\ RName(5, 0) = "SRL"
      /\ RName(6, 0) = "OR" /\ RName(7, 0) = "AND"
  BY DEF RName
<1>2. /\ RName(0, 32) = "SUB" /\ RName(1, 32) = "" /\ RName(2, 32) = ""
      /\ RName(3, 32) = "" /\ RName(4, 32) = "" /\ RName(5, 32) = "SRA"
      /\ RName(6, 32) = "" /\ RName(7, 32) = ""
  BY DEF RName
<1>3. f3 = 0 \/ f3 = 1 \/ f3 = 2 \/ f3 = 3 \/ f3 = 4 \/ f3 = 5 \/ f3 = 6 \/ f3 = 7
  BY SMT
<1>4. Good(0, 0) /\ Good(1, 0) /\ Good(2, 0) /\ Good(3, 0)
  BY <1>1, RowsR DEF RNames
<1>5. Good(4, 0) /\ Good(5, 0) /\ Good(6, 0) /\ Good(7, 0)
  BY <1>1, RowsR DEF RNames
<1>6. Good(0, 32) /\ Good(1, 32) /\ Good(2, 32) /\ Good(3, 32)
  BY <1>2, RowsR DEF RNames
<1>7. Good(4, 32) /\ Good(5, 32) /\ Good(6, 32) /\ Good(7, 32)
  BY <1>2, RowsR DEF RNames
<1> HIDE DEF Good
<1>8. Good(f3, f7)
  BY <1>3, <1>4, <1>5, <1>6, <1>7
<1> QED
  BY <1>8 DEF Good

LEMMA FaithfulR ==
  ASSUME NEW d \in Numbers, NEW f3 \in 0 .. 7, NEW s1 \in Numbers, NEW s2 \in Numbers,
         NEW top \in -64 .. 63
  PROVE  Faithful(Legal(R(RName(f3, top % 128), d, s1, s2)), WordOf(51, d, f3, s1, s2, top))
<1> DEFINE t == RName(f3, top % 128)
           i == R(t, d, s1, s2)
<1>1. \/ t = ""
      \/ t \in RNames /\ Map[t] = Row("R", 51, f3, top % 128) /\ top % 128 \in {0, 32}
  <2> DEFINE f7 == top % 128
  <2> HIDE DEF f7
  <2>1. CASE f7 \in {0, 32}
    <3>1. \/ RName(f3, f7) = ""
          \/ RName(f3, f7) \in RNames /\ Map[RName(f3, f7)] = Row("R", 51, f3, f7)
      BY <2>1, TableR
    <3> QED
      BY <2>1, <3>1 DEF f7
  <2>2. CASE f7 \notin {0, 32}
    BY <2>2 DEF RName, f7
  <2> QED
    BY <2>1, <2>2
<1> HIDE DEF t
<1>2. ASSUME t # "" PROVE Instruction(i) /\ Encode(i) = WordOf(51, d, f3, s1, s2, top)
  <2>1. t \in RNames /\ Map[t] = Row("R", 51, f3, top)
    BY <1>1, <1>2, SevenBits
  <2>2. Encode(i) = WordOf(51, d, f3, s1, s2, top)
    BY <2>1, RowFields DEF Encode, RFormat, R
  <2>3. Instruction(i)
    BY <2>1 DEF Instruction
  <2> QED
    BY <2>2, <2>3
<1>3. i.type = t
  BY DEF R
<1> QED
  BY <1>2, <1>3, FaithfulLegal DEF t

LEMMA FaithfulLI ==
  ASSUME NEW d \in Numbers, NEW low \in 0 .. 31, NEW high \in Int
  PROVE  Faithful(U("LI", d, low + 32 * high), WordOf(19, d, 0, 0, low, high))
<1> DEFINE n == low + 32 * high
<1>1. n \in Int /\ Bits(n, 0, 5) = low /\ From(n, 5) = high
  BY AboveBelow
<1> HIDE DEF n
<1>2. Encode(U("LI", d, n)) = WordOf(19, d, 0, 0, low, high)
  BY <1>1, RowsI, RowFields DEF Encode, IFormat, U
<1>3. Instruction(U("LI", d, n))
  BY <1>1 DEF Instruction
<1> QED
  BY <1>2, <1>3 DEF Faithful, n

LEMMA FaithfulSh ==
  ASSUME NEW d \in Numbers, NEW f3 \in {1, 5}, NEW s1 \in Numbers, NEW s2 \in Numbers,
         NEW top \in -64 .. 63
  PROVE  Faithful(Legal(I(ShName(f3, top), d, s1, s2)), WordOf(19, d, f3, s1, s2, top))
<1> DEFINE t == ShName(f3, top)
           i == I(t, d, s1, s2)
<1>1. t \in ShNames \cup {""} /\ (t = "SLLI" => f3 = 1 /\ top % 128 = 0)
  BY DEF ShName, ShNames
<1> HIDE DEF t
<1>2. ASSUME t # "" PROVE Instruction(i)
  <2>1. t \in ShNames
    BY <1>1, <1>2
  <2>2. s2 \in Int
    BY DEF Numbers
  <2> QED
    BY <2>1, <2>2 DEF Instruction
<1>3. ASSUME i.type \in Strict PROVE Encode(i) = WordOf(19, d, f3, s1, s2, top)
  <2>1. t = "SLLI"
    BY <1>1, <1>3, TypeNames DEF Strict, ShNames, I
  <2>2. f3 = 1 /\ top = 0
    BY <1>1, <2>1, SevenBits
  <2> QED
    BY <2>1, <2>2, RowsSh, RowFields DEF Encode, RFormat, I
<1>4. i.type = t
  BY DEF I
<1> QED
  BY <1>2, <1>3, <1>4, FaithfulLegal DEF t

\* The switches over funct3 alone have the types of the opcode map.
LEMMA TableI ==
  ASSUME NEW f3 \in 0 .. 7
  PROVE  \/ IName(f3) = ""
         \/ IName(f3) \in INames /\ Map[IName(f3)] = Row("I", 19, f3, 0)
<1> DEFINE Good(n) == \/ IName(n) = ""
                      \/ IName(n) \in INames /\ Map[IName(n)] = Row("I", 19, n, 0)
<1>1. /\ IName(0) = "ADDI" /\ IName(1) = "" /\ IName(2) = "SLTI" /\ IName(3) = "SLTIU"
      /\ IName(4) = "XORI" /\ IName(5) = "" /\ IName(6) = "ORI" /\ IName(7) = "ANDI"
  BY DEF IName
<1>2. f3 = 0 \/ f3 = 1 \/ f3 = 2 \/ f3 = 3 \/ f3 = 4 \/ f3 = 5 \/ f3 = 6 \/ f3 = 7
  BY SMT
<1>3. Good(0) /\ Good(1) /\ Good(2) /\ Good(3)
  BY <1>1, RowsI DEF INames
<1>4. Good(4) /\ Good(5) /\ Good(6) /\ Good(7)
  BY <1>1, RowsI DEF INames
<1> HIDE DEF Good
<1>5. Good(f3)
  BY <1>2, <1>3, <1>4
<1> QED
  BY <1>5 DEF Good

LEMMA TableLoad ==
  ASSUME NEW f3 \in 0 .. 7
  PROVE  \/ LoadName(f3) = ""
         \/ LoadName(f3) \in Loads /\ Map[LoadName(f3)] = Row("I", 3, f3, 0)
<1> DEFINE Good(n) == \/ LoadName(n) = ""
                      \/ LoadName(n) \in Loads /\ Map[LoadName(n)] = Row("I", 3, n, 0)
<1>1. /\ LoadName(0) = "LB" /\ LoadName(1) = "LH" /\ LoadName(2) = "LW" /\ LoadName(3) = ""
      /\ LoadName(4) = "LBU" /\ LoadName(5) = "LHU" /\ LoadName(6) = "" /\ LoadName(7) = ""
  BY DEF LoadName
<1>2. f3 = 0 \/ f3 = 1 \/ f3 = 2 \/ f3 = 3 \/ f3 = 4 \/ f3 = 5 \/ f3 = 6 \/ f3 = 7
  BY SMT
<1>3. Good(0) /\ Good(1) /\ Good(2) /\ Good(3)
  BY <1>1, RowsI DEF Loads
<1>4. Good(4) /\ Good(5) /\ Good(6) /\ Good(7)
  BY <1>1, RowsI DEF Loads
<1> HIDE DEF Good
<1>5. Good(f3)
  BY <1>2, <1>3, <1>4
<1> QED
  BY <1>5 DEF Good

LEMMA TableS ==
  ASSUME NEW f3 \in 0 .. 7
  PROVE  \/ SName(f3) = ""
         \/ SName(f3) \in Stores /\ Map[SName(f3)] = Row("S", 35, f3, 0)
<1> DEFINE Good(n) == \/ SName(n) = ""
                      \/ SName(n) \in Stores /\ Map[SName(n)] = Row("S", 35, n, 0)
<1>1. /\ SName(0) = "SB" /\ SName(1) = "SH" /\ SName(2) = "SW" /\ SName(3) = ""
      /\ SName(4) = "" /\ SName(5) = "" /\ SName(6) = "" /\ SName(7) = ""
  BY DEF SName
<1>2. f3 = 0 \/ f3 = 1 \/ f3 = 2 \/ f3 = 3 \/ f3 = 4 \/ f3 = 5 \/ f3 = 6 \/ f3 = 7
  BY SMT
<1>3. Good(0) /\ Good(1) /\ Good(2) /\ Good(3)
  BY <1>1, RowsS DEF Stores
<1>4. Good(4) /\ Good(5) /\ Good(6) /\ Good(7)
  BY <1>1, RowsS DEF Stores
<1> HIDE DEF Good
<1>5. Good(f3)
  BY <1>2, <1>3, <1>4
<1> QED
  BY <1>5 DEF Good

LEMMA TableB ==
  ASSUME NEW f3 \in 0 .. 7
  PROVE  \/ BName(f3) = ""
         \/ BName(f3) \in Branches /\ Map[BName(f3)] = Row("B", 99, f3, 0)
<1> DEFINE Good(n) == \/ BName(n) = ""
                      \/ BName(n) \in Branches /\ Map[BName(n)] = Row("B", 99, n, 0)
<1>1. /\ BName(0) = "BEQ" /\ BName(1) = "BNE" /\ BName(2) = "" /\ BName(3) = ""
      /\ BName(4) = "BLT" /\ BName(5) = "BGE" /\ BName(6) = "BLTU" /\ BName(7) = "BGEU"
  BY DEF BName
<1>2. f3 = 0 \/ f3 = 1 \/ f3 = 2 \/ f3 = 3 \/ f3 = 4 \/ f3 = 5 \/ f3 = 6 \/ f3 = 7
  BY SMT
<1>3. Good(0) /\ Good(1) /\ Good(2) /\ Good(3)
  BY <1>1, RowsB DEF Branches
<1>4. Good(4) /\ Good(5) /\ Good(6) /\ Good(7)
  BY <1>1, RowsB DEF Branches
<1> HIDE DEF Good
<1>5. Good(f3)
  BY <1>2, <1>3, <1>4
<1> QED
  BY <1>5 DEF Good

LEMMA FaithfulI ==
  ASSUME NEW d \in Numbers, NEW f3 \in 0 .. 7, NEW s1 \in Numbers, NEW low \in 0 .. 31,
         NEW high \in Int
  PROVE  Faithful(Legal(I(IName(f3), d, s1, low + 32 * high)),
                  WordOf(19, d, f3, s1, low, high))
<1> DEFINE t == IName(f3)
           n == low + 32 * high
           i == I(t, d, s1, n)
<1>1. \/ t = ""
      \/ t \in INames /\ Map[t] = Row("I", 19, f3, 0)
  BY TableI
<1>2. n \in Int /\ Bits(n, 0, 5) = low /\ From(n, 5) = high
  BY AboveBelow
<1> HIDE DEF t, n
<1>3. ASSUME t # "" PROVE Instruction(i) /\ Encode(i) = WordOf(19, d, f3, s1, low, high)
  <2>1. Instruction(i)
    BY <1>1, <1>2, <1>3 DEF Instruction
  <2>2. Map[t] = Row("I", 19, f3, 0)
    BY <1>1, <1>3
  <2>3. Map[t].format = "I" /\ Map[t].op = 19 /\ Map[t].f3 = f3
    BY <2>2, RowFields
  <2>4. Encode(i) = WordOf(19, d, f3, s1, low, high)
    BY <1>2, <2>3 DEF Encode, IFormat, I
  <2> QED
    BY <2>1, <2>4
<1>4. i.type = t
  BY DEF I
<1> QED
  BY <1>3, <1>4, FaithfulLegal DEF t, n

LEMMA FaithfulLoad ==
  ASSUME NEW d \in Numbers, NEW f3 \in 0 .. 7, NEW s1 \in Numbers, NEW low \in 0 .. 31,
         NEW high \in Int
  PROVE  Faithful(Legal(I(LoadName(f3), d, s1, low + 32 * high)),
                  WordOf(3, d, f3, s1, low, high))
<1> DEFINE t == LoadName(f3)
           n == low + 32 * high
           i == I(t, d, s1, n)
<1>1. \/ t = ""
      \/ t \in Loads /\ Map[t] = Row("I", 3, f3, 0)
  BY TableLoad
<1>2. n \in Int /\ Bits(n, 0, 5) = low /\ From(n, 5) = high
  BY AboveBelow
<1> HIDE DEF t, n
<1>3. ASSUME t # "" PROVE Instruction(i) /\ Encode(i) = WordOf(3, d, f3, s1, low, high)
  <2>1. Instruction(i)
    BY <1>1, <1>2, <1>3 DEF Instruction
  <2>2. Map[t] = Row("I", 3, f3, 0)
    BY <1>1, <1>3
  <2>3. Map[t].format = "I" /\ Map[t].op = 3 /\ Map[t].f3 = f3
    BY <2>2, RowFields
  <2>4. Encode(i) = WordOf(3, d, f3, s1, low, high)
    BY <1>2, <2>3 DEF Encode, IFormat, I
  <2> QED
    BY <2>1, <2>4
<1>4. i.type = t
  BY DEF I
<1> QED
  BY <1>3, <1>4, FaithfulLegal DEF t, n

\* decode_I does not look at the funct3 of JALR.
LEMMA FaithfulJALR ==
  ASSUME NEW d \in Numbers, NEW s1 \in Numbers, NEW low \in 0 .. 31, NEW high \in Int, NEW w
  PROVE  Faithful(I("JALR", d, s1, low + 32 * high), w)
<1> DEFINE n == low + 32 * high
<1>1. n \in Int
  OBVIOUS
<1> HIDE DEF n
<1>2. Instruction(I("JALR", d, s1, n))
  BY <1>1 DEF Instruction
<1>3. I("JALR", d, s1, n).type \notin Strict
  BY DEF I, Strict
<1> QED
  BY <1>2, <1>3 DEF Faithful, n

LEMMA FaithfulS ==
  ASSUME NEW low \in 0 .. 31, NEW f3 \in 0 .. 7, NEW s1 \in Numbers, NEW s2 \in Numbers,
         NEW high \in Int
  PROVE  Faithful(Legal(S(SName(f3), s1, s2, low + 32 * high)),
                  WordOf(35, low, f3, s1, s2, high))
<1> DEFINE t == SName(f3)
           n == low + 32 * high
           i == S(t, s1, s2, n)
<1>1. \/ t = ""
      \/ t \in Stores /\ Map[t] = Row("S", 35, f3, 0)
  BY TableS
<1>2. n \in Int /\ Bits(n, 0, 5) = low /\ From(n, 5) = high
  BY AboveBelow
<1> HIDE DEF t, n
<1>3. ASSUME t # "" PROVE Instruction(i) /\ Encode(i) = WordOf(35, low, f3, s1, s2, high)
  <2>1. Instruction(i)
    BY <1>1, <1>2, <1>3 DEF Instruction
  <2>2. Map[t] = Row("S", 35, f3, 0)
    BY <1>1, <1>3
  <2>3. Map[t].format = "S" /\ Map[t].op = 35 /\ Map[t].f3 = f3
    BY <2>2, RowFields
  <2>4. Encode(i) = WordOf(35, low, f3, s1, s2, high)
    BY <1>2, <2>3 DEF Encode, SFormat, S
  <2> QED
    BY <2>1, <2>4
<1>4. i.type = t
  BY DEF S
<1> QED
  BY <1>3, <1>4, FaithfulLegal DEF t, n

\* A distance, of the two parts of the word that have its lower pieces and of
\* its highest one.
Put(p, b, high) == 4096 * high + 2048 * (p % 2) + 32 * b + 2 * (p \div 2)

\* It is taken apart into what it was put together from.
LEMMA Apart ==
  ASSUME NEW p \in 0 .. 31, NEW b \in 0 .. 63, NEW high \in Int
  PROVE  /\ Put(p, b, high) \in Int
         /\ Bits(Put(p, b, high), 11, 1) + 2 * Bits(Put(p, b, high), 1, 4) = p
         /\ Bits(Put(p, b, high), 5, 6) = b
         /\ From(Put(p, b, high), 12) = high
<1> DEFINE a == p \div 2
           c == p % 2
           n == Put(p, b, high)
<1>1. a \in 0 .. 15 /\ c \in 0 .. 1 /\ c + 2 * a = p
  BY SMT
<1>2. n \in Int /\ Pieces(n, a, b, c, high)
  BY SMT DEF Pieces, Put
<1> HIDE DEF a, c, n
<1>3. /\ (n \div 2) % 16 = a /\ (n \div 32) % 64 = b /\ (n \div 2048) % 2 = c
      /\ n \div 4096 = high
  BY <1>2, PiecesUnique
<1>4. /\ Bits(n, 11, 1) = c /\ Bits(n, 1, 4) = a /\ Bits(n, 5, 6) = b
      /\ From(n, 12) = high
  BY <1>3, Powers, SMT DEF Bits, From
<1> QED
  BY <1>1, <1>2, <1>4 DEF n

LEMMA FaithfulB ==
  ASSUME NEW p \in 0 .. 31, NEW f3 \in 0 .. 7, NEW s1 \in Numbers, NEW s2 \in Numbers,
         NEW top \in -64 .. 63
  PROVE  Faithful(Legal(S(BName(f3), s1, s2, Branching(p, top))),
                  WordOf(99, p, f3, s1, s2, top))
<1> DEFINE t    == BName(f3)
           n    == Branching(p, top)
           b    == top % 64
           high == SignOf25(top)
           i    == S(t, s1, s2, n)
<1>1. \/ t = ""
      \/ t \in Branches /\ Map[t] = Row("B", 99, f3, 0)
  BY TableB
<1>2. b \in 0 .. 63 /\ high \in Int /\ top = b + 64 * high
  BY SevenBits
<1>3. n = Put(p, b, high)
  BY DEF Branching, Put
<1> HIDE DEF t, n, b, high
<1>4. n \in Int
  BY <1>2, <1>3, Apart
<1>5. /\ Bits(n, 11, 1) + 2 * Bits(n, 1, 4) = p /\ Bits(n, 5, 6) = b
      /\ From(n, 12) = high
  BY <1>2, <1>3, Apart
<1>6. ASSUME t # "" PROVE Instruction(i) /\ Encode(i) = WordOf(99, p, f3, s1, s2, top)
  <2>1. t \in Branches /\ Map[t] = Row("B", 99, f3, 0)
    BY <1>1, <1>6
  <2>2. Instruction(i)
    BY <1>4, <2>1 DEF Instruction
  <2>3. Map[t].format = "B" /\ Map[t].op = 99 /\ Map[t].f3 = f3
    BY <2>1, RowFields
  <2>4. Bits(n, 5, 6) + 2 ^ 6 * From(n, 12) = top
    BY <1>2, <1>5, Powers, SMT
  <2>5. Encode(i) = WordOf(99, p, f3, s1, s2, top)
    BY <1>5, <2>3, <2>4 DEF Encode, BFormat, S
  <2> QED
    BY <2>2, <2>5
<1>7. i.type = t
  BY DEF S
<1> QED
  BY <1>6, <1>7, FaithfulLegal DEF t, n

LEMMA FaithfulU ==
  ASSUME NEW t, NEW op, (op = 55 /\ t = "LUI") \/ (op = 23 /\ t = "AUIPC"),
         NEW d \in Numbers, NEW p12 \in 0 .. 7, NEW p15 \in 0 .. 31, NEW p20 \in 0 .. 31,
         NEW p25 \in Int
  PROVE  Faithful(U(t, d, p12 + 8 * (p15 + 32 * (p20 + 32 * p25))),
                  WordOf(op, d, p12, p15, p20, p25))
<1> DEFINE q1 == p20 + 32 * p25
           q2 == p15 + 32 * q1
           n  == p12 + 8 * q2
<1>1. q1 \in Int /\ q1 % 32 = p20 /\ q1 \div 32 = p25
  BY SMT
<1> HIDE DEF q1
<1>2. q2 \in Int /\ q2 % 32 = p15 /\ q2 \div 32 = q1
  BY <1>1, SMT
<1> HIDE DEF q2
<1>3. n \in Int /\ n % 8 = p12 /\ n \div 8 = q2
  BY <1>2, SMT
<1> HIDE DEF n
<1>4. n \div 256 = q1 /\ n \div 8192 = p25
  <2>1. n \div 256 = (n \div 8) \div 32 /\ n \div 8192 = (n \div 256) \div 32
    BY <1>3, SMT
  <2> QED
    BY <1>1, <1>2, <1>3, <2>1
<1>5. /\ Bits(n, 0, 3) = p12 /\ Bits(n, 3, 5) = p15 /\ Bits(n, 8, 5) = p20
      /\ From(n, 13) = p25
  <2>1. n \div 1 = n
    BY <1>3, SMT
  <2> QED
    BY <1>1, <1>2, <1>3, <1>4, <2>1, Powers, SMT DEF Bits, From
<1>6. t \in UNames /\ Map[t].format = "U" /\ Map[t].op = op
  BY RowsOther, RowFields DEF UNames
<1>7. Encode(U(t, d, n)) = WordOf(op, d, p12, p15, p20, p25)
  BY <1>5, <1>6 DEF Encode, UFormat, U
<1>8. Instruction(U(t, d, n))
  BY <1>3, <1>6 DEF Instruction
<1> QED
  BY <1>7, <1>8 DEF Faithful, n, q2, q1

LEMMA FaithfulJ ==
  ASSUME NEW d \in Numbers, NEW p12 \in 0 .. 7, NEW p15 \in 0 .. 31, NEW p20 \in 0 .. 31,
         NEW top \in -64 .. 63
  PROVE  Faithful(U("JAL", d, Jumping(p12, p15, p20, top)),
                  WordOf(111, d, p12, p15, p20, top))
<1> DEFINE n    == Jumping(p12, p15, p20, top)
           b    == top % 64
           sign == SignOf25(top)
           q    == p15 + 32 * sign
           high == p12 + 8 * q
<1>1. b \in 0 .. 63 /\ sign \in Int /\ top = b + 64 * sign
  BY SevenBits
<1>2. n = 1048576 * sign + 4096 * (p12 + 8 * p15) + 2048 * (p20 % 2) + 32 * b
            + 2 * (p20 \div 2)
  BY SMT DEF Jumping
<1> HIDE DEF n, b, sign
<1>3. q \in Int /\ q % 32 = p15 /\ q \div 32 = sign
  BY <1>1, SMT
<1>4. 1048576 * sign + 4096 * (p12 + 8 * p15) = 4096 * high
  BY <1>1, SMT
<1> HIDE DEF q
<1>5. high \in Int /\ high % 8 = p12 /\ high \div 8 = q
  BY <1>3, SMT
<1> HIDE DEF high
<1>6. n = Put(p20, b, high)
  BY <1>1, <1>2, <1>4, <1>5, SMT DEF Put
<1>7. /\ n \in Int
      /\ Bits(n, 11, 1) + 2 * Bits(n, 1, 4) = p20 /\ Bits(n, 5, 6) = b
      /\ From(n, 12) = high
  BY <1>1, <1>5, <1>6, Apart
<1>8. /\ Bits(n, 12, 3) = p12 /\ Bits(n, 15, 5) = p15 /\ From(n, 20) = sign
  <2>1. n \div 4096 = high
    BY <1>7, Powers, SMT DEF From
  <2>2. n \div 32768 = (n \div 4096) \div 8 /\ n \div 1048576 = (n \div 32768) \div 32
    BY <1>7, SMT
  <2>3. n \div 32768 = q /\ n \div 1048576 = sign
    BY <1>3, <1>5, <2>1, <2>2, SMT
  <2> QED
    BY <1>3, <1>5, <2>1, <2>3, Powers, SMT DEF Bits, From
<1>9. Map["JAL"].format = "J" /\ Map["JAL"].op = 111
  BY RowsOther, RowFields
<1>10. Bits(n, 5, 6) + 2 ^ 6 * From(n, 20) = top
  BY <1>1, <1>7, <1>8, Powers, SMT
<1>11. Encode(U("JAL", d, n)) = WordOf(111, d, p12, p15, p20, top)
  BY <1>7, <1>8, <1>9, <1>10 DEF Encode, JFormat, U
<1>12. Instruction(U("JAL", d, n))
  BY <1>7 DEF Instruction
<1> QED
  BY <1>11, <1>12 DEF Faithful, n

\* The fences and calls to the system do not look at all of their bits.
LEMMA FaithfulE ==
  ASSUME NEW t \in ENames, NEW w
  PROVE  Faithful(U(t, 0, 0), w)
<1>1. U(t, 0, 0).type = t /\ t \notin Strict
  BY DEF U, ENames, Strict
<1>2. Instruction(U(t, 0, 0))
  BY DEF Instruction
<1> QED
  BY <1>1, <1>2 DEF Faithful

\* What decode32 makes of a word.
LEMMA DecodedFaithful ==
  ASSUME NEW p0, NEW p7, NEW p12, NEW p15, NEW p20, NEW p25,
         Parts(p0, p7, p12, p15, p20, p25), p25 \in -64 .. 63
  PROVE  Faithful(Decoded(p0, p7, p12, p15, p20, p25), WordOf(p0, p7, p12, p15, p20, p25))
<1> DEFINE i == Decoded(p0, p7, p12, p15, p20, p25)
           w == WordOf(p0, p7, p12, p15, p20, p25)
<1>1. /\ p7 \in Numbers /\ p12 \in 0 .. 7 /\ p15 \in Numbers /\ p20 \in Numbers
      /\ p7 \in 0 .. 31 /\ p15 \in 0 .. 31 /\ p20 \in 0 .. 31 /\ p25 \in Int
  BY DEF Parts, Numbers
<1>2. Faithful(Illegal, w)
  BY DEF Faithful
<1>3. CASE p0 = 51
  <2>1. i = Legal(R(RName(p12, p25 % 128), p7, p15, p20))
    BY <1>3 DEF Decoded
  <2>2. Faithful(Legal(R(RName(p12, p25 % 128), p7, p15, p20)),
                 WordOf(51, p7, p12, p15, p20, p25))
    BY <1>1, FaithfulR
  <2> QED
    BY <1>3, <2>1, <2>2
<1>4. CASE p0 = 19
  <2>1. CASE p12 = 0 /\ p15 = 0
    <3>1. i = U("LI", p7, p20 + 32 * p25)
      BY <1>4, <2>1 DEF Decoded
    <3>2. Faithful(U("LI", p7, p20 + 32 * p25), WordOf(19, p7, 0, 0, p20, p25))
      BY <1>1, FaithfulLI
    <3> QED
      BY <1>4, <2>1, <3>1, <3>2
  <2>2. CASE p12 \in {1, 5}
    <3>1. i = Legal(I(ShName(p12, p25), p7, p15, p20))
      BY <1>4, <2>2 DEF Decoded
    <3>2. Faithful(Legal(I(ShName(p12, p25), p7, p15, p20)),
                   WordOf(19, p7, p12, p15, p20, p25))
      BY <1>1, <2>2, FaithfulSh
    <3> QED
      BY <1>4, <3>1, <3>2
  <2>3. CASE ~(p12 = 0 /\ p15 = 0) /\ p12 \notin {1, 5}
    <3>1. i = Legal(I(IName(p12), p7, p15, p20 + 32 * p25))
      BY <1>4, <2>3 DEF Decoded
    <3>2. Faithful(Legal(I(IName(p12), p7, p15, p20 + 32 * p25)),
                   WordOf(19, p7, p12, p15, p20, p25))
      BY <1>1, FaithfulI
    <3> QED
      BY <1>4, <3>1, <3>2
  <2> QED
    BY <2>1, <2>2, <2>3
<1>5. CASE p0 = 3
  <2>1. i = Legal(I(LoadName(p12), p7, p15, p20 + 32 * p25))
    BY <1>5 DEF Decoded
  <2>2. Faithful(Legal(I(LoadName(p12), p7, p15, p20 + 32 * p25)),
                 WordOf(3, p7, p12, p15, p20, p25))
    BY <1>1, FaithfulLoad
  <2> QED
    BY <1>5, <2>1, <2>2
<1>6. CASE p0 = 103
  BY <1>1, <1>6, FaithfulJALR DEF Decoded
<1>7. CASE p0 = 35
  <2>1. i = Legal(S(SName(p12), p15, p20, p7 + 32 * p25))
    BY <1>7 DEF Decoded
  <2>2. Faithful(Legal(S(SName(p12), p15, p20, p7 + 32 * p25)),
                 WordOf(35, p7, p12, p15, p20, p25))
    BY <1>1, FaithfulS
  <2> QED
    BY <1>7, <2>1, <2>2
<1>8. CASE p0 = 99
  <2>1. i = Legal(S(BName(p12), p15, p20, Branching(p7, p25)))
    BY <1>8 DEF Decoded
  <2>2. Faithful(Legal(S(BName(p12), p15, p20, Branching(p7, p25))),
                 WordOf(99, p7, p12, p15, p20, p25))
    BY <1>1, FaithfulB
  <2> QED
    BY <1>8, <2>1, <2>2
<1>9. CASE p0 = 55
  <2>1. i = U("LUI", p7, p12 + 8 * (p15 + 32 * (p20 + 32 * p25)))
    BY <1>9 DEF Decoded
  <2>2. Faithful(U("LUI", p7, p12 + 8 * (p15 + 32 * (p20 + 32 * p25))),
                 WordOf(55, p7, p12, p15, p20, p25))
    BY <1>1, FaithfulU
  <2> QED
    BY <1>9, <2>1, <2>2
<1>10. CASE p0 = 23
  <2>1. i = U("AUIPC", p7, p12 + 8 * (p15 + 32 * (p20 + 32 * p25)))
    BY <1>10 DEF Decoded
  <2>2. Faithful(U("AUIPC", p7, p12 + 8 * (p15 + 32 * (p20 + 32 * p25))),
                 WordOf(23, p7, p12, p15, p20, p25))
    BY <1>1, FaithfulU
  <2> QED
    BY <1>10, <2>1, <2>2
<1>11. CASE p0 = 111
  <2>1. i = U("JAL", p7, Jumping(p12, p15, p20, p25))
    BY <1>11 DEF Decoded
  <2>2. Faithful(U("JAL", p7, Jumping(p12, p15, p20, p25)),
                 WordOf(111, p7, p12, p15, p20, p25))
    BY <1>1, FaithfulJ
  <2> QED
    BY <1>11, <2>1, <2>2
<1>12. CASE p0 = 15
  <2>1. i = Legal(U(FenceName(p12), 0, 0))
    BY <1>12 DEF Decoded
  <2>2. FenceName(p12) \in ENames \/ FenceName(p12) = ""
    <3>1. /\ FenceName(0) = "FENCE" /\ FenceName(1) = "FENCE_I" /\ FenceName(2) = ""
          /\ FenceName(3) = "" /\ FenceName(4) = "" /\ FenceName(5) = ""
          /\ FenceName(6) = "" /\ FenceName(7) = ""
      BY DEF FenceName
    <3>2. \/ p12 = 0 \/ p12 = 1 \/ p12 = 2 \/ p12 = 3
          \/ p12 = 4 \/ p12 = 5 \/ p12 = 6 \/ p12 = 7
      BY <1>1, SMT
    <3> QED
      BY <3>1, <3>2 DEF ENames
  <2>3. i = Illegal \/ \E t \in ENames : i = U(t, 0, 0)
    BY <2>1, <2>2 DEF Legal, U
  <2> QED
    BY <1>2, <2>3, FaithfulE
<1>13. CASE p0 = 115
  <2>1. i = Illegal \/ i = U("ECALL", 0, 0) \/ i = U("EBREAK", 0, 0)
    BY <1>13 DEF Decoded
  <2>2. "ECALL" \in ENames /\ "EBREAK" \in ENames
    BY DEF ENames
  <2> QED
    BY <1>2, <2>1, <2>2, FaithfulE
<1>14. CASE p0 \notin {51, 19, 3, 103, 35, 99, 55, 23, 111, 15, 115}
  <2>1. i = Illegal
    BY <1>14 DEF Decoded
  <2> QED
    BY <1>2, <2>1
<1> QED
  BY <1>3, <1>4, <1>5, <1>6, <1>7, <1>8, <1>9, <1>10, <1>11, <1>12, <1>13, <1>14

LEMMA WordFaithful ==
  ASSUME NEW w \in Word32
  PROVE  Faithful(Decode32(w), w)
<1>1. w \in Int /\ w \div 2 ^ 25 \in -64 .. 63
  <2>1. w \in Int /\ -2147483648 <= w /\ w < 2147483648
    BY SMT DEF Word32
  <2> QED
    BY <2>1, Powers, SMT
<1> DEFINE p0  == Field(w, 0, 7)
           p25 == w \div 2 ^ 25
<1>2. /\ w = WordOf(p0, Rd(w), Funct3(w), Rs1(w), Rs2(w), p25)
      /\ Parts(p0, Rd(w), Funct3(w), Rs1(w), Rs2(w), p25)
  BY <1>1, Packed
<1>3. p25 \in -64 .. 63
  BY <1>1
<1> HIDE DEF p0, p25
<1>4. Decode32(w) = Decoded(p0, Rd(w), Funct3(w), Rs1(w), Rs2(w), p25)
  BY <1>2, DecodedParts
<1> QED
  BY <1>2, <1>3, <1>4, DecodedFaithful

-----------------------------------------------------------------------------
(***************************************************************************)
(* The theorems about the decoder.                                         *)
(***************************************************************************)
LEMMA Formats ==
  /\ \A t \in RNames : Map[t].format = "R"
  /\ \A t \in INames \cup {"LI", "JALR"} \cup Loads : Map[t].format = "I"
  /\ \A t \in ShNames : Map[t].format = "Sh"
  /\ \A t \in Stores : Map[t].format = "S"
  /\ \A t \in Branches : Map[t].format = "B"
  /\ \A t \in UNames : Map[t].format = "U"
  /\ Map["JAL"].format = "J"
  /\ \A t \in ENames : Map[t].format = "E"
<1>1. \A t \in RNames : Map[t].format = "R"
  BY RowsR, RowFields DEF RNames
<1>2. \A t \in INames \cup {"LI", "JALR"} \cup Loads : Map[t].format = "I"
  BY RowsI, RowFields DEF INames, Loads
<1>3. \A t \in ShNames : Map[t].format = "Sh"
  BY RowsSh, RowFields DEF ShNames
<1>4. \A t \in Stores : Map[t].format = "S"
  BY RowsS, RowFields DEF Stores
<1>5. \A t \in Branches : Map[t].format = "B"
  BY RowsB, RowFields DEF Branches
<1>6. /\ \A t \in UNames : Map[t].format = "U"
      /\ Map["JAL"].format = "J"
      /\ \A t \in ENames : Map[t].format = "E"
  BY RowsOther, RowFields DEF UNames, ENames
<1> QED
  BY <1>1, <1>2, <1>3, <1>4, <1>5, <1>6

LEMMA TypesByFormat ==
  Types = RNames \cup INames \cup {"LI", "JALR"} \cup Loads \cup ShNames \cup Stores
            \cup Branches \cup UNames \cup {"JAL"} \cup ENames
BY TypeNames DEF RNames, INames, Loads, ShNames, Stores, Branches, UNames, ENames

\* The sign of a distance, from its range.
LEMMA HighOf ==
  /\ \A n \in Signed(13) : n \in Int /\ From(n, 12) \in -1 .. 0
  /\ \A n \in Signed(21) : n \in Int /\ From(n, 20) \in -1 .. 0
<1>1. \A n \in Signed(13) : n \in Int /\ From(n, 12) \in -1 .. 0
  <2> SUFFICES ASSUME NEW n \in Signed(13) PROVE n \in Int /\ From(n, 12) \in -1 .. 0
    OBVIOUS
  <2>1. 13 - 1 = 12 /\ 2 ^ 12 = 4096
    BY SMT
  <2>2. n \in Int /\ -4096 <= n /\ n < 4096
    BY <2>1, SMT DEF Signed
  <2>3. From(n, 12) = n \div 4096
    BY <2>1, SMT DEF From
  <2> QED
    BY <2>2, <2>3, SMT
<1>2. \A n \in Signed(21) : n \in Int /\ From(n, 20) \in -1 .. 0
  <2> SUFFICES ASSUME NEW n \in Signed(21) PROVE n \in Int /\ From(n, 20) \in -1 .. 0
    OBVIOUS
  <2>1. 21 - 1 = 20 /\ 2 ^ 20 = 1048576
    BY SMT
  <2>2. n \in Int /\ -1048576 <= n /\ n < 1048576
    BY <2>1, SMT DEF Signed
  <2>3. From(n, 20) = n \div 1048576
    BY <2>1, SMT DEF From
  <2> QED
    BY <2>2, <2>3, SMT
<1> QED
  BY <1>1, <1>2

LEMMA AssembledDecodes ==
  ASSUME NEW i \in Assembled
  PROVE  Decode32(Encode(i)) = i /\ Instruction(i)
<1>1. /\ Regs \subseteq Numbers
      /\ \A n \in Imm12 \cup Imm20 : n \in Int
      /\ \A n \in Imm13 : n \in Int /\ n % 2 = 0 /\ From(n, 12) \in -1 .. 0
      /\ \A n \in Imm21 : n \in Int /\ n % 2 = 0 /\ From(n, 20) \in -1 .. 0
  <2>1. \A n : Signed(n) \subseteq Int
    BY DEF Signed
  <2>2. /\ Imm12 \subseteq Signed(12) /\ Imm20 \subseteq Signed(20) /\ Regs \subseteq 0 .. 31
        /\ \A n \in Imm13 : n \in Signed(13) /\ n % 2 = 0
        /\ \A n \in Imm21 : n \in Signed(21) /\ n % 2 = 0
    BY DecoderAssumption
  <2> QED
    BY <2>1, <2>2, HighOf DEF Numbers
<1>2. PICK t \in Types : i \in Instructions(t)
  BY DEF Assembled
<1>3. CASE t \in RNames
  <2>1. PICK d, s1, s2 \in Regs : i = R(t, d, s1, s2)
    <3>1. Map[t].format = "R" /\ t # "LI" /\ t # "ADDI"
      BY <1>3, Formats DEF RNames
    <3>2. i \in {R(t, d, s1, s2) : d, s1, s2 \in Regs}
      BY <1>2, <3>1 DEF Instructions
    <3> QED
      BY <3>2
  <2>2. d \in Numbers /\ s1 \in Numbers /\ s2 \in Numbers
    BY <1>1
  <2> QED
    BY <1>3, <2>1, <2>2, EncodedR DEF Instruction
<1>4. CASE t \in INames
  <2>1. Map[t].format = "I" /\ t # "LI"
    BY <1>4, Formats DEF INames
  <2>2. PICK d, s1 \in Regs, n \in Imm12 : i = I(t, d, s1, n) /\ (t = "ADDI" => s1 # 0)
    <3>1. CASE t = "ADDI"
      BY <1>2, <2>1, <3>1 DEF Instructions
    <3>2. CASE t # "ADDI"
      BY <1>2, <2>1, <3>2 DEF Instructions
    <3> QED
      BY <3>1, <3>2
  <2>3. d \in Numbers /\ s1 \in Numbers /\ n \in Int
    BY <1>1
  <2> QED
    BY <1>4, <2>2, <2>3, EncodedI DEF Instruction
<1>5. CASE t = "LI"
  <2>1. PICK d \in Regs, n \in Imm12 : i = U("LI", d, n)
    BY <1>2, <1>5, Formats DEF Instructions
  <2>2. d \in Numbers /\ n \in Int
    BY <1>1
  <2> QED
    BY <2>1, <2>2, EncodedLI DEF Instruction
<1>6. CASE t \in Loads \cup {"JALR"}
  <2>1. Map[t].format = "I" /\ t # "LI" /\ t # "ADDI"
    BY <1>6, Formats DEF Loads
  <2>2. PICK d, s1 \in Regs, n \in Imm12 : i = I(t, d, s1, n)
    BY <1>2, <2>1 DEF Instructions
  <2>3. d \in Numbers /\ s1 \in Numbers /\ n \in Int
    BY <1>1
  <2> QED
    BY <1>6, <2>2, <2>3, EncodedLoad DEF Instruction
<1>7. CASE t \in ShNames
  <2>1. PICK d, s1 \in Regs, n \in Regs : i = I(t, d, s1, n)
    <3>1. Map[t].format = "Sh" /\ t # "LI" /\ t # "ADDI"
      BY <1>7, Formats DEF ShNames
    <3>2. i \in {I(t, d, s1, n) : d, s1 \in Regs, n \in Regs}
      BY <1>2, <3>1 DEF Instructions
    <3> QED
      BY <3>2
  <2>2. d \in Numbers /\ s1 \in Numbers /\ n \in Numbers /\ n \in Int
    BY <1>1 DEF Numbers
  <2> QED
    BY <1>7, <2>1, <2>2, EncodedSh DEF Instruction
<1>8. CASE t \in Stores
  <2>1. Map[t].format = "S" /\ t # "LI" /\ t # "ADDI"
    BY <1>8, Formats DEF Stores
  <2>2. PICK s1, s2 \in Regs, n \in Imm12 : i = S(t, s1, s2, n)
    BY <1>2, <2>1 DEF Instructions
  <2>3. s1 \in Numbers /\ s2 \in Numbers /\ n \in Int
    BY <1>1
  <2> QED
    BY <1>8, <2>2, <2>3, EncodedS DEF Instruction
<1>9. CASE t \in Branches
  <2>1. Map[t].format = "B" /\ t # "LI" /\ t # "ADDI"
    BY <1>9, Formats DEF Branches
  <2>2. PICK s1, s2 \in Regs, n \in Imm13 : i = S(t, s1, s2, n)
    BY <1>2, <2>1 DEF Instructions
  <2>3. s1 \in Numbers /\ s2 \in Numbers /\ n \in Int /\ n % 2 = 0 /\ From(n, 12) \in -1 .. 0
    BY <1>1
  <2> QED
    BY <1>9, <2>2, <2>3, EncodedB DEF Instruction
<1>10. CASE t \in UNames
  <2>1. Map[t].format = "U" /\ t # "LI" /\ t # "ADDI"
    BY <1>10, Formats DEF UNames
  <2>2. PICK d \in Regs, n \in Imm20 : i = U(t, d, n)
    BY <1>2, <2>1 DEF Instructions
  <2>3. d \in Numbers /\ n \in Int
    BY <1>1
  <2> QED
    BY <1>10, <2>2, <2>3, EncodedU DEF Instruction
<1>11. CASE t = "JAL"
  <2>1. PICK d \in Regs, n \in Imm21 : i = U("JAL", d, n)
    BY <1>2, <1>11, Formats DEF Instructions
  <2>2. d \in Numbers /\ n \in Int /\ n % 2 = 0 /\ From(n, 20) \in -1 .. 0
    BY <1>1
  <2> QED
    BY <2>1, <2>2, EncodedJ DEF Instruction
<1>12. CASE t \in ENames
  <2>1. Map[t].format = "E" /\ t # "LI" /\ t # "ADDI"
    BY <1>12, Formats DEF ENames
  <2>2. i = U(t, 0, 0)
    BY <1>2, <2>1 DEF Instructions
  <2> QED
    BY <1>12, <2>2, EncodedE DEF Instruction
<1> QED
  BY <1>3, <1>4, <1>5, <1>6, <1>7, <1>8, <1>9, <1>10, <1>11, <1>12, TypesByFormat

\* The calling convention's numbers are those of the table of names.
LEMMA RegisterNames ==
  ASSUME NEW r \in Numbers
  PROVE  RegOf[RegName(r)] = r
<1>1. /\ RegOf[RegNames[1]] = 0 /\ RegOf[RegNames[2]] = 1 /\ RegOf[RegNames[3]] = 2
      /\ RegOf[RegNames[4]] = 3 /\ RegOf[RegNames[5]] = 4 /\ RegOf[RegNames[6]] = 5
      /\ RegOf[RegNames[7]] = 6 /\ RegOf[RegNames[8]] = 7
  BY DEF RegOf, RegNames
<1>2. /\ RegOf[RegNames[9]] = 8 /\ RegOf[RegNames[10]] = 9 /\ RegOf[RegNames[11]] = 10
      /\ RegOf[RegNames[12]] = 11 /\ RegOf[RegNames[13]] = 12 /\ RegOf[RegNames[14]] = 13
      /\ RegOf[RegNames[15]] = 14 /\ RegOf[RegNames[16]] = 15
  BY DEF RegOf, RegNames
<1>3. /\ RegOf[RegNames[17]] = 16 /\ RegOf[RegNames[18]] = 17 /\ RegOf[RegNames[19]] = 18
      /\ RegOf[RegNames[20]] = 19 /\ RegOf[RegNames[21]] = 20 /\ RegOf[RegNames[22]] = 21
      /\ RegOf[RegNames[23]] = 22 /\ RegOf[RegNames[24]] = 23
  BY DEF RegOf, RegNames
<1>4. /\ RegOf[RegNames[25]] = 24 /\ RegOf[RegNames[26]] = 25 /\ RegOf[RegNames[27]] = 26
      /\ RegOf[RegNames[28]] = 27 /\ RegOf[RegNames[29]] = 28 /\ RegOf[RegNames[30]] = 29
      /\ RegOf[RegNames[31]] = 30 /\ RegOf[RegNames[32]] = 31
  BY DEF RegOf, RegNames
<1>5. CASE r \in 0 .. 7
  BY <1>1, <1>5 DEF RegName
<1>6. CASE r \in 8 .. 15
  BY <1>2, <1>6 DEF RegName
<1>7. CASE r \in 16 .. 23
  BY <1>3, <1>7 DEF RegName
<1>8. CASE r \in 24 .. 31
  BY <1>4, <1>8 DEF RegName
<1> QED
  BY <1>5, <1>6, <1>7, <1>8 DEF Numbers

\* A name and its operands, in one sequence.
LEMMA Joined ==
  ASSUME NEW name, NEW a, NEW b, NEW c
  PROVE  /\ (<<name>> \o <<>>)[1] = name
         /\ LET l == <<name>> \o <<a, b>>
            IN l[1] = name /\ l[2] = a /\ l[3] = b
         /\ LET l == <<name>> \o <<a, b, c>>
            IN l[1] = name /\ l[2] = a /\ l[3] = b /\ l[4] = c
<1>1. (<<name>> \o <<>>)[1] = name
  BY SMT
<1>2. LET l == <<name>> \o <<a, b>>
      IN l[1] = name /\ l[2] = a /\ l[3] = b
  BY SMT
<1>3. LET l == <<name>> \o <<a, b, c>>
      IN l[1] = name /\ l[2] = a /\ l[3] = b /\ l[4] = c
  BY SMT
<1> QED
  BY <1>1, <1>2, <1>3

LEMMA RTypesAre == RTypes = RNames
BY Formats, TypesByFormat DEF RTypes, RNames, INames, Loads, ShNames, Stores, Branches,
   UNames, ENames

\* The operands of an instruction are one of a few shapes; whatever they are,
\* the name is in front of them.
LEMMA ListedFirst ==
  ASSUME NEW i, i.type \in ENames
  PROVE  Listing(i)[1] = Name(i)
<1>1. i.type # "Illegal"
  BY DEF ENames
<1>2. Operands(i) = <<>> \/ Operands(i) = <<"unknown">>
  <2>1. /\ i.type \notin RTypes /\ i.type \notin Stores /\ i.type \notin Branches
        /\ i.type \notin Loads \cup {"JALR"} /\ i.type \notin {"JAL", "LUI", "AUIPC"}
    BY RTypesAre DEF RNames, ENames, Stores, Branches, Loads
  <2> QED
    BY <2>1 DEF Operands, ENames
<1>3. /\ (<<Name(i)>> \o <<>>)[1] = Name(i)
      /\ (<<Name(i)>> \o <<"unknown">>)[1] = Name(i)
  BY SMT
<1> QED
  BY <1>1, <1>2, <1>3 DEF Listing

LEMMA ListedR ==
  ASSUME NEW t \in RNames, NEW d \in Numbers, NEW s1 \in Numbers, NEW s2 \in Numbers
  PROVE  ReadBack(Listing(R(t, d, s1, s2))) = R(t, d, s1, s2)
<1> DEFINE i == R(t, d, s1, s2)
           l == Listing(i)
<1>1. i.type = t /\ i.rd = d /\ i.rs1 = s1 /\ i.rs2 = s2
  BY DEF R
<1>2. t \notin Loads \cup {"JALR"} /\ Name(i) = t /\ t # "Illegal"
  BY <1>1 DEF RNames, Loads, Name
<1>3. Operands(i) = <<RegName(d), RegName(s1), RegName(s2)>>
  <2>1. /\ t \in RTypes /\ t \notin Stores /\ t \notin Branches
        /\ t \notin {"JAL", "LUI", "AUIPC"} /\ t \notin ENames
    BY RTypesAre DEF RNames, Stores, Branches, ENames
  <2> QED
    BY <1>1, <1>2, <2>1 DEF Operands, ENames
<1> HIDE DEF i
<1>4. l = <<t>> \o <<RegName(d), RegName(s1), RegName(s2)>>
  BY <1>1, <1>2, <1>3 DEF Listing
<1> HIDE DEF l
<1>5. l[1] = t /\ l[2] = RegName(d) /\ l[3] = RegName(s1) /\ l[4] = RegName(s2)
  BY <1>4, Joined
<1>6. Map[t].format = "R"
  BY Formats
<1>7. ReadBack(l) = R(t, RegOf[RegName(d)], RegOf[RegName(s1)], RegOf[RegName(s2)])
  BY <1>2, <1>5, <1>6 DEF ReadBack
<1> QED
  BY <1>7, RegisterNames DEF l, i

LEMMA ListedI ==
  ASSUME NEW t \in INames \cup ShNames, NEW d \in Numbers, NEW s1 \in Numbers, NEW n \in Int
  PROVE  ReadBack(Listing(I(t, d, s1, n))) = I(t, d, s1, n)
<1> DEFINE i == I(t, d, s1, n)
           l == Listing(i)
<1>1. i.type = t /\ i.rd = d /\ i.rs1 = s1 /\ i.imm = n
  BY DEF I
<1>2. /\ t \notin Loads \cup {"JALR"} /\ Name(i) = t /\ t # "Illegal"
      /\ t \notin {"LUI", "AUIPC"} /\ Map[t].format \in {"I", "Sh"}
  BY <1>1, Formats DEF INames, ShNames, Loads, Name
<1>3. Operands(i) = <<RegName(d), RegName(s1), n>>
  <2>1. /\ t \notin RTypes /\ t \notin Stores /\ t \notin Branches
        /\ t \notin {"JAL", "LUI", "AUIPC"} /\ t \notin {"ECALL", "EBREAK"}
        /\ t \notin {"FENCE", "FENCE_I"}
    BY RTypesAre DEF RNames, INames, ShNames, Stores, Branches
  <2>2. Shown(i) = n
    BY <1>1, <1>2 DEF Shown
  <2> QED
    BY <1>1, <1>2, <2>1, <2>2 DEF Operands
<1> HIDE DEF i
<1>4. l = <<t>> \o <<RegName(d), RegName(s1), n>>
  BY <1>1, <1>2, <1>3 DEF Listing
<1> HIDE DEF l
<1>5. l[1] = t /\ l[2] = RegName(d) /\ l[3] = RegName(s1) /\ l[4] = n
  BY <1>4, Joined
<1>6. ReadBack(l) = I(t, RegOf[RegName(d)], RegOf[RegName(s1)], n)
  BY <1>2, <1>5 DEF ReadBack
<1> QED
  BY <1>6, RegisterNames DEF l, i

LEMMA ListedLI ==
  ASSUME NEW d \in Numbers, NEW n \in Int
  PROVE  ReadBack(Listing(U("LI", d, n))) = U("LI", d, n)
<1> DEFINE i == U("LI", d, n)
           l == Listing(i)
<1>1. i.type = "LI" /\ i.rd = d /\ i.rs1 = 0 /\ i.imm = n
  BY DEF U
<1>2. "LI" \notin Loads \cup {"JALR"} /\ Name(i) = "LI" /\ Map["LI"].format = "I"
  BY <1>1, Formats DEF Loads, Name
<1>3. Operands(i) = <<RegName(d), RegName(0), n>>
  <2>1. "LI" \notin RTypes /\ "LI" \notin Stores /\ "LI" \notin Branches
    BY RTypesAre DEF RNames, Stores, Branches
  <2>2. Shown(i) = n
    BY <1>1 DEF Shown
  <2> QED
    BY <1>1, <1>2, <2>1, <2>2 DEF Operands
<1> HIDE DEF i
<1>4. l = <<"LI">> \o <<RegName(d), RegName(0), n>>
  BY <1>1, <1>2, <1>3 DEF Listing
<1> HIDE DEF l
<1>5. l[1] = "LI" /\ l[2] = RegName(d) /\ l[3] = RegName(0) /\ l[4] = n
  BY <1>4, Joined
<1>6. ReadBack(l) = I("LI", RegOf[RegName(d)], RegOf[RegName(0)], n)
  BY <1>2, <1>5 DEF ReadBack
<1>7. RegOf[RegName(d)] = d /\ RegOf[RegName(0)] = 0
  BY RegisterNames DEF Numbers
<1> QED
  BY <1>6, <1>7 DEF l, i, I, U

LEMMA ListedLoad ==
  ASSUME NEW t \in Loads \cup {"JALR"}, NEW d \in Numbers, NEW s1 \in Numbers, NEW n \in Int
  PROVE  ReadBack(Listing(I(t, d, s1, n))) = I(t, d, s1, n)
<1> DEFINE i == I(t, d, s1, n)
           l == Listing(i)
<1>1. i.type = t /\ i.rd = d /\ i.rs1 = s1 /\ i.imm = n
  BY DEF I
<1>2. Name(i) = t /\ t # "Illegal" /\ Map[t].format = "I"
  BY <1>1, Formats DEF Loads, Name
<1>3. Operands(i) = <<RegName(d), <<n, RegName(s1)>>>>
  <2>1. t \notin RTypes /\ t \notin Stores /\ t \notin Branches
    BY RTypesAre DEF RNames, Loads, Stores, Branches
  <2>2. /\ t \notin {"JAL", "LUI", "AUIPC"} /\ t \notin {"ECALL", "EBREAK"}
        /\ t \notin {"FENCE", "FENCE_I"}
    BY DEF Loads
  <2> QED
    BY <1>1, <2>1, <2>2 DEF Operands, Offset
<1> HIDE DEF i
<1>4. l = <<t>> \o <<RegName(d), <<n, RegName(s1)>>>>
  BY <1>1, <1>2, <1>3 DEF Listing
<1> HIDE DEF l
<1>5. l[1] = t /\ l[2] = RegName(d) /\ l[3] = <<n, RegName(s1)>>
  BY <1>4, Joined
<1>6. l[3][1] = n /\ l[3][2] = RegName(s1)
  BY <1>5
<1>7. ReadBack(l) = I(t, RegOf[RegName(d)], RegOf[RegName(s1)], n)
  BY <1>2, <1>5, <1>6 DEF ReadBack
<1> QED
  BY <1>7, RegisterNames DEF l, i

LEMMA ListedS ==
  ASSUME NEW t \in Stores, NEW s1 \in Numbers, NEW s2 \in Numbers, NEW n \in Int
  PROVE  ReadBack(Listing(S(t, s1, s2, n))) = S(t, s1, s2, n)
<1> DEFINE i == S(t, s1, s2, n)
           l == Listing(i)
<1>1. i.type = t /\ i.rs1 = s1 /\ i.rs2 = s2 /\ i.imm = n
  BY DEF S
<1>2. /\ t \notin Loads \cup {"JALR"} /\ Name(i) = t /\ t # "Illegal"
      /\ Map[t].format = "S"
  BY <1>1, Formats DEF Stores, Loads, Name
<1>3. Operands(i) = <<RegName(s2), <<n, RegName(s1)>>>>
  <2>1. t \notin RTypes /\ t \notin Branches
    BY RTypesAre DEF RNames, Stores, Branches
  <2>2. /\ t \notin {"JAL", "LUI", "AUIPC"} /\ t \notin {"ECALL", "EBREAK"}
        /\ t \notin {"FENCE", "FENCE_I"}
    BY DEF Stores
  <2> QED
    BY <1>1, <1>2, <2>1, <2>2 DEF Operands, Offset
<1> HIDE DEF i
<1>4. l = <<t>> \o <<RegName(s2), <<n, RegName(s1)>>>>
  BY <1>1, <1>2, <1>3 DEF Listing
<1> HIDE DEF l
<1>5. l[1] = t /\ l[2] = RegName(s2) /\ l[3] = <<n, RegName(s1)>>
  BY <1>4, Joined
<1>6. l[3][1] = n /\ l[3][2] = RegName(s1)
  BY <1>5
<1>7. ReadBack(l) = S(t, RegOf[RegName(s1)], RegOf[RegName(s2)], n)
  BY <1>2, <1>5, <1>6 DEF ReadBack
<1> QED
  BY <1>7, RegisterNames DEF l, i

LEMMA ListedB ==
  ASSUME NEW t \in Branches, NEW s1 \in Numbers, NEW s2 \in Numbers, NEW n \in Int
  PROVE  ReadBack(Listing(S(t, s1, s2, n))) = S(t, s1, s2, n)
<1> DEFINE i == S(t, s1, s2, n)
           l == Listing(i)
<1>1. i.type = t /\ i.rs1 = s1 /\ i.rs2 = s2 /\ i.imm = n
  BY DEF S
<1>2. /\ t \notin Loads \cup {"JALR"} /\ Name(i) = t /\ t # "Illegal"
      /\ Map[t].format = "B" /\ t \notin {"LUI", "AUIPC"}
  BY <1>1, Formats DEF Branches, Loads, Name
<1>3. Operands(i) = <<RegName(s1), RegName(s2), n>>
  <2>1. t \notin RTypes /\ t \notin Stores
    BY RTypesAre DEF RNames, Stores, Branches
  <2>2. /\ t \notin {"JAL", "LUI", "AUIPC"} /\ t \notin {"ECALL", "EBREAK"}
        /\ t \notin {"FENCE", "FENCE_I"}
    BY DEF Branches
  <2>3. Shown(i) = n
    BY <1>1, <1>2 DEF Shown
  <2> QED
    BY <1>1, <1>2, <2>1, <2>2, <2>3 DEF Operands
<1> HIDE DEF i
<1>4. l = <<t>> \o <<RegName(s1), RegName(s2), n>>
  BY <1>1, <1>2, <1>3 DEF Listing
<1> HIDE DEF l
<1>5. l[1] = t /\ l[2] = RegName(s1) /\ l[3] = RegName(s2) /\ l[4] = n
  BY <1>4, Joined
<1>6. ReadBack(l) = S(t, RegOf[RegName(s1)], RegOf[RegName(s2)], n)
  BY <1>2, <1>5 DEF ReadBack
<1> QED
  BY <1>6, RegisterNames DEF l, i

LEMMA ListedU ==
  ASSUME NEW t \in UNames \cup {"JAL"}, NEW d \in Numbers, NEW n \in Int
  PROVE  ReadBack(Listing(U(t, d, n))) = U(t, d, n)
<1> DEFINE i == U(t, d, n)
           l == Listing(i)
           m == IF t = "JAL" THEN n ELSE 4096 * n
<1>1. i.type = t /\ i.rd = d /\ i.imm = n
  BY DEF U
<1>2. /\ t \notin Loads \cup {"JALR"} /\ Name(i) = t /\ t # "Illegal"
      /\ t = "JAL" => Map[t].format = "J"
      /\ t # "JAL" => Map[t].format = "U"
  BY <1>1, Formats DEF UNames, Loads, Name
<1>3. Operands(i) = <<RegName(d), m>>
  <2>1. t \notin RTypes /\ t \notin Stores /\ t \notin Branches
    BY RTypesAre DEF RNames, Stores, Branches, UNames
  <2>2. t \notin {"ECALL", "EBREAK"} /\ t \notin {"FENCE", "FENCE_I"}
    BY DEF UNames
  <2>3. t \in {"JAL", "LUI", "AUIPC"}
    BY DEF UNames
  <2>4. Shown(i) = m
    BY <1>1, <2>3 DEF Shown
  <2> QED
    BY <1>1, <1>2, <2>1, <2>2, <2>3, <2>4 DEF Operands
<1>4. t # "JAL" => m \div 4096 = n
  BY SMT
<1>5. t = "JAL" => m = n
  OBVIOUS
<1> HIDE DEF i, m
<1>6. l = <<t>> \o <<RegName(d), m>>
  BY <1>1, <1>2, <1>3 DEF Listing
<1> HIDE DEF l
<1>7. l[1] = t /\ l[2] = RegName(d) /\ l[3] = m
  BY <1>6, Joined
<1>8. ReadBack(l) = U(t, RegOf[RegName(d)], n)
  <2>1. CASE t = "JAL"
    BY <1>2, <1>5, <1>7, <2>1 DEF ReadBack
  <2>2. CASE t # "JAL"
    BY <1>2, <1>4, <1>7, <2>2 DEF ReadBack
  <2> QED
    BY <2>1, <2>2
<1> QED
  BY <1>8, RegisterNames DEF l, i

LEMMA ListedE ==
  ASSUME NEW t \in ENames, Listing(U(t, 0, 0))[1] # "unknown"
  PROVE  ReadBack(Listing(U(t, 0, 0))) = U(t, 0, 0)
<1> DEFINE i == U(t, 0, 0)
           l == Listing(i)
<1>1. i.type = t
  BY DEF U
<1>2. l[1] = Name(i)
  BY <1>1, ListedFirst DEF ENames
<1>3. Name(i) = t
  BY <1>1, <1>2 DEF Name
<1>4. t \notin Loads \cup {"JALR"} /\ Map[t].format = "E"
  BY Formats DEF ENames, Loads
<1> HIDE DEF l, i
<1>5. ReadBack(l) = U(t, 0, 0)
  BY <1>2, <1>3, <1>4 DEF ReadBack
<1> QED
  BY <1>5 DEF l, i

LEMMA Listed ==
  ASSUME NEW i, Instruction(i), Listing(i)[1] # "unknown"
  PROVE  ReadBack(Listing(i)) = i
<1>1. CASE \E t \in RNames : \E d, s1, s2 \in Numbers : i = R(t, d, s1, s2)
  BY <1>1, ListedR
<1>2. CASE \E t \in INames \cup ShNames \cup Loads \cup {"JALR"} : \E d, s1 \in Numbers :
             \E n \in Int : i = I(t, d, s1, n)
  BY <1>2, ListedI, ListedLoad
<1>3. CASE \E t \in Stores \cup Branches : \E s1, s2 \in Numbers : \E n \in Int :
             i = S(t, s1, s2, n)
  BY <1>3, ListedS, ListedB
<1>4. CASE \E t \in UNames \cup {"LI", "JAL"} : \E d \in Numbers : \E n \in Int : i = U(t, d, n)
  BY <1>4, ListedU, ListedLI
<1>5. CASE \E t \in ENames : i = U(t, 0, 0)
  BY <1>5, ListedE
<1> QED
  BY <1>1, <1>2, <1>3, <1>4, <1>5 DEF Instruction

\* The word is what was assembled or one of the other words, and instr and
\* listing are what the decoder makes of it, or not there yet.
Consistent ==
  /\ \/ source \in Assembled /\ word = Encode(source)
     \/ source = Unknown /\ word \in Words
  /\ \/ instr = Unknown /\ listing = <<>>
     \/ instr = Decode32(word) /\ listing = Listing(instr)

LEMMA ConsistentHolds == DisassemblySpec => []Consistent
<1>1. Init /\ listing = <<>> => Consistent
  BY DEF Init, Consistent
<1>2. Consistent /\ [FetchAndDecode]_<<vars, listing>> => Consistent'
  BY DEF Consistent, FetchAndDecode, Decode, vars
<1> QED
  BY <1>1, <1>2, PTL DEF DisassemblySpec

\* Either way the word decodes faithfully.
LEMMA ConsistentFaithful ==
  ASSUME Consistent
  PROVE  Faithful(Decode32(word), word)
<1>1. CASE source \in Assembled /\ word = Encode(source)
  BY <1>1, AssembledDecodes DEF Faithful
<1>2. CASE word \in Words
  BY <1>2, DecoderAssumption, WordFaithful
<1> QED
  BY <1>1, <1>2 DEF Consistent

\* decode32, and the log of fetch_and_decode: whatever 32-bit word decodes to an
\* instruction in whose words every bit counts is the encoding of that
\* instruction, for every register and every immediate.
THEOREM NoOtherWords == DisassemblySpec => []NothingElseDecodes
<1>1. Consistent => NothingElseDecodes
  <2> SUFFICES ASSUME Consistent, instr.type \in Strict
               PROVE  Encode(instr) = word
    BY DEF NothingElseDecodes
  <2>1. instr # Unknown /\ instr # Illegal
    BY TypeNames DEF Unknown, Illegal, Strict
  <2>2. instr = Decode32(word)
    BY <2>1 DEF Consistent
  <2> QED
    BY <2>1, <2>2, ConsistentFaithful DEF Faithful
<1> QED
  BY <1>1, ConsistentHolds, PTL

\* decode32 gives back every instruction that was encoded, with its registers
\* and with the sign and every bit of its immediate.
THEOREM RoundTrip == DisassemblySpec => DecodesWhatIsEncoded
<1>1. Consistent /\ [FetchAndDecode]_<<vars, listing>>
        => [source # Unknown => instr' = source]_vars
  <2> SUFFICES ASSUME Consistent, FetchAndDecode, source # Unknown
               PROVE  instr' = source
    BY DEF vars
  <2>1. source \in Assembled /\ word = Encode(source)
    BY DEF Consistent
  <2>2. instr' = Decode32(word)
    BY DEF FetchAndDecode, Decode
  <2> QED
    BY <2>1, <2>2, AssembledDecodes
<1> QED
  BY <1>1, ConsistentHolds, PTL DEF DisassemblySpec, DecodesWhatIsEncoded

\* get_instr_name and get_instr_operands: an assembler reads in the log the
\* instruction that was decoded, for every instruction but the fences.
THEOREM LogReadsBack == DisassemblySpec => []ListingReadsBack
<1>1. Consistent => ListingReadsBack
  <2> SUFFICES ASSUME Consistent, listing # <<>>, listing[1] # "unknown"
               PROVE  /\ ReadBack(listing) = instr
                      /\ instr.type \in Strict => Encode(ReadBack(listing)) = word
    BY DEF ListingReadsBack
  <2>1. instr = Decode32(word) /\ listing = Listing(instr)
    BY DEF Consistent
  <2>2. instr # Illegal
    BY <2>1 DEF Listing, Illegal
  <2>3. Instruction(instr) /\ (instr.type \in Strict => Encode(instr) = word)
    BY <2>1, <2>2, ConsistentFaithful DEF Faithful
  <2>4. ReadBack(listing) = instr
    BY <2>1, <2>3, Listed
  <2> QED
    BY <2>3, <2>4
<1> QED
  BY <1>1, ConsistentHolds, PTL

-----------------------------------------------------------------------------
(***************************************************************************)
(* Decoder and ALU as parameters of the CPU.                               *)
(***************************************************************************)
\* The word read_instr32 makes of four bytes, as an int32_t.
WordOfBytes(b) ==
  LET n == b[0] + 2 ^ 8 * b[1] + 2 ^ 16 * b[2] + 2 ^ 24 * b[3]
  IN IF n >= 2 ^ 31 THEN n - 2 ^ 32 ELSE n

\* decode32 of four bytes; the CPU is handed upper immediates as they are added.
DecodedBytes(b) ==
  LET i == Decode32(WordOfBytes(b))
  IN IF i = Illegal THEN i ELSE [i EXCEPT !.imm = Shown(i)]

Real ==
  INSTANCE Instructions WITH
    Radix <- 256, Byte <- 0 .. 255, Zero <- 0, PageSize <- 4096, PageCount <- 1048576,
    RegIdx <- 0 .. 31, Imm <- Int, Decode <- DecodedBytes, Alu <- ResultOf,
    Addr <- {}, Word <- {}, SegmentInfos <- {}

LEMMA FourBytes ==
  ASSUME NEW p \in Int, NEW q \in Int, NEW r \in Int, NEW t \in Int,
         0 <= p, p <= 255, 0 <= q, q <= 255, 0 <= r, r <= 255, 0 <= t, t <= 255
  PROVE  LET n == p + 2 ^ 8 * q + 2 ^ 16 * r + 2 ^ 24 * t
         IN  (IF n >= 2 ^ 31 THEN n - 2 ^ 32 ELSE n) \in Word32
<1>1. 2 ^ 8 = 256 /\ 2 ^ 16 = 65536 /\ 2 ^ 24 = 16777216 /\ 2 ^ 31 = 2147483648 /\ 2 ^ 32 = 4294967296
  BY SMT
<1> QED
  BY <1>1, SMT DEF Word32

LEMMA BytesWord ==
  ASSUME NEW b \in [0 .. 3 -> 0 .. 255]
  PROVE  WordOfBytes(b) \in Word32
<1>1. \A k \in 0 .. 3 : b[k] \in Int /\ 0 <= b[k] /\ b[k] <= 255
  <2>1. \A v \in 0 .. 255 : v \in Int /\ 0 <= v /\ v <= 255
    OBVIOUS
  <2> QED
    BY <2>1, Zenon
<1>2. 0 \in 0 .. 3 /\ 1 \in 0 .. 3 /\ 2 \in 0 .. 3 /\ 3 \in 0 .. 3
  OBVIOUS
<1> QED
  BY <1>1, <1>2, FourBytes, Zenon DEF WordOfBytes

\* An instruction has the fields the CPU reads, whatever its format.
LEMMA FieldsOf ==
  ASSUME NEW i, Instruction(i)
  PROVE  /\ i = [type |-> i.type, rd |-> i.rd, rs1 |-> i.rs1, rs2 |-> i.rs2, imm |-> i.imm]
         /\ i.type \in RNames \cup INames \cup ShNames \cup Loads \cup {"JALR"} \cup Stores
                         \cup Branches \cup UNames \cup {"LI", "JAL"} \cup ENames
         /\ i.rd \in Numbers /\ i.rs1 \in Numbers /\ i.rs2 \in Numbers /\ i.imm \in Int
<1>1. 0 \in Numbers /\ 0 \in Int
  BY DEF Numbers
<1>2. CASE \E t \in RNames : \E d, s1, s2 \in Numbers : i = R(t, d, s1, s2)
  <2>1. PICK t \in RNames, d \in Numbers, s1 \in Numbers, s2 \in Numbers : i = R(t, d, s1, s2)
    BY <1>2, Zenon
  <2> QED
    BY <1>1, <2>1 DEF R
<1>3. CASE \E t \in INames \cup ShNames \cup Loads \cup {"JALR"} : \E d, s1 \in Numbers :
             \E n \in Int : i = I(t, d, s1, n)
  <2>1. PICK t \in INames \cup ShNames \cup Loads \cup {"JALR"}, d \in Numbers, s1 \in Numbers,
            n \in Int : i = I(t, d, s1, n)
    BY <1>3, Zenon
  <2> QED
    BY <1>1, <2>1 DEF I
<1>4. CASE \E t \in Stores \cup Branches : \E s1, s2 \in Numbers : \E n \in Int :
             i = S(t, s1, s2, n)
  <2>1. PICK t \in Stores \cup Branches, s1 \in Numbers, s2 \in Numbers, n \in Int :
            i = S(t, s1, s2, n)
    BY <1>4, Zenon
  <2> QED
    BY <1>1, <2>1 DEF S
<1>5. CASE \E t \in UNames \cup {"LI", "JAL"} : \E d \in Numbers : \E n \in Int : i = U(t, d, n)
  <2>1. PICK t \in UNames \cup {"LI", "JAL"}, d \in Numbers, n \in Int : i = U(t, d, n)
    BY <1>5, Zenon
  <2> QED
    BY <1>1, <2>1 DEF U
<1>6. CASE \E t \in ENames : i = U(t, 0, 0)
  <2>1. PICK t \in ENames : i = U(t, 0, 0)
    BY <1>6, Zenon
  <2> QED
    BY <1>1, <2>1 DEF U
<1> QED
  BY <1>2, <1>3, <1>4, <1>5, <1>6 DEF Instruction

LEMMA DecodedInstructions ==
  ASSUME NEW b \in [0 .. 3 -> 0 .. 255]
  PROVE  DecodedBytes(b) \in Real!Instruction \cup {Illegal}
<1> DEFINE i == Decode32(WordOfBytes(b))
           d == DecodedBytes(b)
<1>1. i = Illegal \/ Instruction(i)
  BY BytesWord, WordFaithful DEF Faithful
<1>2. d = IF i = Illegal THEN i ELSE [i EXCEPT !.imm = Shown(i)]
  BY DEF DecodedBytes
<1> HIDE DEF i, d
<1>3. CASE i = Illegal
  BY <1>2, <1>3 DEF d
<1>4. CASE i # Illegal
  <2>1. /\ i = [type |-> i.type, rd |-> i.rd, rs1 |-> i.rs1, rs2 |-> i.rs2, imm |-> i.imm]
        /\ i.type \in RNames \cup INames \cup ShNames \cup Loads \cup {"JALR"} \cup Stores
                        \cup Branches \cup UNames \cup {"LI", "JAL"} \cup ENames
        /\ i.rd \in Numbers /\ i.rs1 \in Numbers /\ i.rs2 \in Numbers /\ i.imm \in Int
    BY <1>1, <1>4, FieldsOf
  <2>2. Shown(i) \in Int
    BY <2>1 DEF Shown
  <2>3. d = [type |-> i.type, rd |-> i.rd, rs1 |-> i.rs1, rs2 |-> i.rs2, imm |-> Shown(i)]
    BY <1>2, <1>4, <2>1
  <2>4. i.type \in Real!Types
    BY <2>1 DEF RNames, INames, ShNames, Loads, Stores, Branches, UNames, ENames,
                Real!Types, Real!RTypes, Real!ITypes, Real!Loads, Real!Stores, Real!Branches,
                Real!Jumps, Real!Uppers, Real!Nops
  <2>5. d \in Real!Instruction
    BY <2>1, <2>2, <2>3, <2>4 DEF Real!Instruction, Numbers
  <2> QED
    BY <2>5 DEF d
<1> QED
  BY <1>3, <1>4

LEMMA ZerosIllegal == DecodedBytes([k \in 0 .. 3 |-> 0]) = Illegal
<1> DEFINE b == [k \in 0 .. 3 |-> 0]
<1>1. b[0] = 0 /\ b[1] = 0 /\ b[2] = 0 /\ b[3] = 0
  OBVIOUS
<1> HIDE DEF b
<1>2. WordOfBytes(b) = 0
  BY <1>1, SMT DEF WordOfBytes
<1>3. Field(0, 0, 7) = 0
  BY SMT DEF Field
<1>4. Decode32(0) = Illegal
  <2>1. /\ 0 # 51 /\ 0 # 19 /\ 0 # 3 /\ 0 # 103 /\ 0 # 35 /\ 0 # 99 /\ 0 # 55 /\ 0 # 23
        /\ 0 # 111 /\ 0 # 15 /\ 0 # 115
    OBVIOUS
  <2> QED
    BY <1>3, <2>1, ZenonT(30) DEF Decode32
<1> QED
  BY <1>2, <1>4 DEF DecodedBytes, b

\* What execute hands to write_reg is a number, though not always a word.
LEMMA ResultsAreNumbers ==
  ASSUME NEW t \in RNames \cup INames \cup ShNames, NEW m \in Nat, NEW n \in Int
  PROVE  ResultOf(t, m, n) \in Int
<1>1. Modulus \in Int /\ Modulus > 0 /\ XLen \in Int /\ XLen > 0
  BY Sizes
<1>2. AsSigned(m) \in Int /\ AsSigned(n) \in Int
  BY <1>1 DEF AsSigned
<1>3. 2 ^ Amount(n) \in Nat /\ 2 ^ Amount(n) > 0
  <2>1. Amount(n) \in Nat
    BY <1>1, SMT DEF Amount
  <2> QED
    BY <2>1, Power
<1>4. \A Q : FromOnes(Q) \in Int
  BY FewBits, Sizes DEF Word
<1>5. \A q : Flag(q) \in Int
  BY DEF Flag
<1> DEFINE p == 2 ^ Amount(n)
           sm == AsSigned(m)
<1>6. p \in Nat /\ p > 0 /\ sm \in Int
  BY <1>2, <1>3
<1> HIDE DEF p, sm
<1>7. m + n \in Int /\ m - n \in Int /\ m * p \in Int /\ m \div p \in Int /\ sm \div p \in Int
  BY <1>6, SMT
<1>8. CASE t \in {"ADD", "ADDI"}
  BY <1>7, <1>8, Zenon DEF ResultOf
<1>9. CASE t = "SUB"
  BY <1>7, <1>9, ZenonT(30) DEF ResultOf
<1>10. CASE t \in {"SLL", "SLLI"}
  BY <1>7, <1>10, ZenonT(30) DEF ResultOf, p
<1>11. CASE t \in {"SRL", "SRLI"}
  BY <1>7, <1>11, ZenonT(30) DEF ResultOf, p
<1>12. CASE t \in {"SRA", "SRAI"}
  BY <1>7, <1>12, ZenonT(30) DEF ResultOf, ShiftRightArithmetic, p, sm
<1>13. CASE t \in {"SLT", "SLTI", "SLTU", "SLTIU"}
  BY <1>5, <1>13, ZenonT(30) DEF ResultOf
<1>14. CASE t \in {"XOR", "XORI", "OR", "ORI", "AND", "ANDI"}
  BY <1>4, <1>14, ZenonT(30) DEF ResultOf, Xor, Or, And
<1> QED
  BY <1>8, <1>9, <1>10, <1>11, <1>12, <1>13, <1>14 DEF RNames, INames, ShNames

\* decode32 and the arithmetic of execute are what the theorems about the CPU
\* assume of their parameters, with the bytes, the pages and the registers of
\* the code: every word decodes to an instruction that names one of 32
\* registers or to none, zeros to none, and results are numbers.
THEOREM DecoderAndALUFit == Real!InstructionAssumption
<1>1. /\ 256 \in Nat /\ 256 >= 2
      /\ 256 - 1 = 255
      /\ 4096 * 1048576 = 256 * 256 * 256 * 256
      /\ {0, 10, 11, 12, 17} \subseteq 0 .. 31
      /\ 0 \in Int
  BY SMT
<1>2. \A b \in [0 .. 3 -> 0 .. 255] : DecodedBytes(b) \in Real!Instruction \cup {Illegal}
  BY DecodedInstructions
<1>3. DecodedBytes([k \in 0 .. 3 |-> 0]) = Illegal
  BY ZerosIllegal
<1>4. Real!RTypes = RNames /\ Real!ITypes = INames \cup ShNames
  BY DEF Real!RTypes, Real!ITypes, RNames, INames, ShNames
<1>5. Real!Space \subseteq Nat
  BY DEF Real!Space
<1>6. ASSUME NEW b \in [0 .. 3 -> 0 .. 255]
      PROVE  /\ DecodedBytes(b).type \in Real!RTypes =>
                  \A m, n \in Real!Space : ResultOf(DecodedBytes(b).type, m, n) \in Int
             /\ DecodedBytes(b).type \in Real!ITypes =>
                  \A m \in Real!Space :
                    ResultOf(DecodedBytes(b).type, m, DecodedBytes(b).imm) \in Int
  <2> DEFINE d == DecodedBytes(b)
  <2>1. d.type \in Real!ITypes => d.imm \in Int
    <3> SUFFICES ASSUME d.type \in Real!ITypes PROVE d.imm \in Int
      OBVIOUS
    <3>1. d # Illegal
      BY DEF Illegal, Real!ITypes
    <3> QED
      BY <1>2, <3>1 DEF Real!Instruction
  <2>2. \A m, n \in Real!Space : m \in Nat /\ n \in Int
    BY <1>5
  <2> HIDE DEF d
  <2>3. /\ d.type \in Real!RTypes => \A m, n \in Real!Space : ResultOf(d.type, m, n) \in Int
        /\ d.type \in Real!ITypes => \A m \in Real!Space : ResultOf(d.type, m, d.imm) \in Int
    BY <1>4, <2>1, <2>2, ResultsAreNumbers, Zenon
  <2> QED
    BY <2>3 DEF d
<1> QED
  BY <1>1, <1>2, <1>3, <1>6
     DEF Real!InstructionAssumption, Real!MachineWord, Real!AddrSpace, Real!Illegal, Illegal,
         Real!a0, Real!a1, Real!a2, Real!a7
=============================================================================
