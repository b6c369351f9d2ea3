--------------------------- MODULE NaturalRecursion ---------------------------
(***************************************************************************)
(* Induction over the naturals, and what it gives for functions that are   *)
(* defined by recursion: that there are some. The statements are about     *)
(* sets, so that every property is the set of the numbers that have it.    *)
(* Then what is needed of arithmetic: division, sums, congruence, and      *)
(* numbers that are zero modulo a prime.                                   *)
(***************************************************************************)
EXTENDS Integers, FiniteSetTheorems, TLAPS

\* A set that has 0, and with each number the next one, has every number: else
\* adding one would fit those up to a number that it has not into those among
\* them that are not 0, which are fewer.
LEMMA SetInduction ==
  ASSUME NEW S \in SUBSET Nat, 0 \in S, \A n \in S : n + 1 \in S
  PROVE  S = Nat
PROOF
<1> SUFFICES ASSUME NEW x \in Nat, x \notin S PROVE FALSE
  OBVIOUS
<1> DEFINE B == S \cap (0 .. x)
           C == B \ {0}
           next == [n \in B |-> n + 1]
<1>1. IsFiniteSet(0 .. x)
  BY FS_Interval
<1>2. IsFiniteSet(B) /\ IsFiniteSet(C)
  <2>1. B \subseteq 0 .. x /\ C \subseteq 0 .. x
    OBVIOUS
  <2> QED
    BY <1>1, <2>1, FS_Subset
<1>3. Cardinality(C) < Cardinality(B)
  <2>1. 0 \in B
    OBVIOUS
  <2>2. Cardinality(C) = Cardinality(B) - 1
    BY <1>2, <2>1, FS_RemoveElement
  <2>3. Cardinality(B) \in Nat
    BY <1>2, FS_CardinalityType
  <2> QED
    BY <2>2, <2>3
<1>4. next \in [B -> C]
  <2>1. \A n \in B : n + 1 \in C
    OBVIOUS
  <2> QED
    BY <2>1
<1>5. \A m, n \in B : m # n => next[m] # next[n]
  OBVIOUS
<1> HIDE DEF B, C, next
<1>6. \E m, n \in B : m # n /\ next[m] = next[n]
  BY <1>2, <1>3, <1>4, FS_PigeonHole, Zenon
<1> QED
  BY <1>5, <1>6, Zenon

\* The same up to a number, for a property that is only defined so far.
LEMMA BoundedInduction ==
  ASSUME NEW c \in Nat, NEW S, 0 \in S,
         \A n \in S : n \in 0 .. c - 1 => n + 1 \in S
  PROVE  0 .. c \subseteq S
PROOF
<1> DEFINE T == {n \in Nat : n <= c => n \in S}
<1>1. 0 \in T
  OBVIOUS
<1>2. \A n \in T : n + 1 \in T
  OBVIOUS
<1>3. T \in SUBSET Nat
  OBVIOUS
<1>4. T = Nat
  <2> HIDE DEF T
  <2> QED
    BY <1>1, <1>2, <1>3, SetInduction
<1> QED
  BY <1>4

\* Recursion up to c has a result among functions to V: one with f[0] = first
\* whose every other value is what next makes of the one before.
HasRecursion(c, V) ==
  \A first \in V, next \in [1 .. c -> [V -> V]] :
    \E f \in [0 .. c -> V] :
      f[0] = first /\ \A n \in 1 .. c : f[n] = next[n][f[n - 1]]

\* It always has.
LEMMA RecursionExists == \A c \in Nat : \A V : HasRecursion(c, V)
PROOF
<1> SUFFICES ASSUME NEW c \in Nat, NEW V, NEW first \in V,
                    NEW next \in [1 .. c -> [V -> V]]
             PROVE  \E f \in [0 .. c -> V] :
                      /\ f[0] = first
                      /\ \A n \in 1 .. c : f[n] = next[n][f[n - 1]]
  BY DEF HasRecursion
<1> DEFINE IsUpTo(f, k) ==
             f[0] = first /\ \A n \in 1 .. k : f[n] = next[n][f[n - 1]]
           S == {k \in 0 .. c : \E f \in [0 .. k -> V] : IsUpTo(f, k)}
<1>1. 0 \in S
  <2>1. [n \in 0 .. 0 |-> first] \in [0 .. 0 -> V]
    OBVIOUS
  <2>2. IsUpTo([n \in 0 .. 0 |-> first], 0)
    OBVIOUS
  <2>3. \E f \in [0 .. 0 -> V] : IsUpTo(f, 0)
    <3> HIDE DEF IsUpTo
    <3> QED
      BY <2>1, <2>2, Zenon
  <2> QED
    BY <2>3
<1>2. ASSUME NEW k \in S, k \in 0 .. c - 1
      PROVE  k + 1 \in S
  <2>1. PICK f \in [0 .. k -> V] : IsUpTo(f, k)
    OBVIOUS
  <2> DEFINE value == next[k + 1][f[k]]
             g == [n \in 0 .. k + 1 |-> IF n = k + 1 THEN value ELSE f[n]]
  <2>2. value \in V
    <3>1. k + 1 \in 1 .. c /\ f[k] \in V
      BY <1>2
    <3> QED
      BY <3>1
  <2>3. g \in [0 .. k + 1 -> V]
    BY <2>2
  <2>4. IsUpTo(g, k + 1)
    <3>1. g[0] = first
      BY <2>1
    <3>2. ASSUME NEW n \in 1 .. k + 1
          PROVE  g[n] = next[n][g[n - 1]]
      <4>1. g[n - 1] = f[n - 1]
        OBVIOUS
      <4>2. CASE n = k + 1
        BY <4>1, <4>2
      <4>3. CASE n # k + 1
        BY <4>1, <4>3, <2>1
      <4> QED
        BY <4>2, <4>3
    <3> QED
      BY <3>1, <3>2
  <2>5. \E h \in [0 .. k + 1 -> V] : IsUpTo(h, k + 1)
    <3> HIDE DEF IsUpTo, g
    <3> QED
      BY <2>3, <2>4, Zenon
  <2>6. k + 1 \in 0 .. c
    BY <1>2
  <2> HIDE DEF IsUpTo
  <2> QED
    BY <2>5, <2>6
<1>3. c \in S
  <2> HIDE DEF S
  <2>1. 0 .. c \subseteq S
    BY <1>1, <1>2, BoundedInduction
  <2> QED
    BY <2>1
<1> QED
  BY <1>3

-----------------------------------------------------------------------------
(* Division with a remainder.                                             *)

\* What is added to a multiple is what remains, if it is less than the divisor;
\* a difference smaller than the divisor is a multiple only as 0.
LEMMA Remainders ==
  ASSUME NEW d \in Nat \ {0}
  PROVE  /\ \A q \in Int, r \in 0 .. d - 1 : (d * q + r) % d = r
         /\ \A a \in Nat : /\ a \div d \in Nat /\ a % d \in 0 .. d - 1
                           /\ a = d * (a \div d) + (a % d)
PROOF
<1>1. \A q \in Int, r \in 0 .. d - 1 : (d * q + r) % d = r
  OBVIOUS
<1>2. ASSUME NEW a \in Nat
      PROVE  /\ a \div d \in Nat /\ a % d \in 0 .. d - 1
             /\ a = d * (a \div d) + (a % d)
  <2> DEFINE q == a \div d
             r == a % d
  <2>1. q \in Nat /\ r \in 0 .. d - 1 /\ a = (d * q) + r
    OBVIOUS
  <2> QED
    BY <2>1
<1> QED
  BY <1>1, <1>2

LEMMA SmallMultiple ==
  ASSUME NEW d \in Nat \ {0}, NEW k \in Int, d * k < d, d * k > 0 - d
  PROVE  k = 0
PROOF
<1>1. k >= 1 => d * k >= d
  OBVIOUS
<1>2. k <= -1 => d * k <= 0 - d
  OBVIOUS
<1> QED
  BY <1>1, <1>2

\* Numbers have the same remainder when their difference has none.
LEMMA Congruent ==
  ASSUME NEW d \in Nat \ {0}, NEW a \in Nat, NEW b \in Nat
  PROVE  (a - b) % d = 0 <=> a % d = b % d
PROOF
<1> DEFINE qa == a \div d
           qb == b \div d
           ra == a % d
           rb == b % d
<1>1. /\ qa \in Nat /\ ra \in 0 .. d - 1 /\ a = d * qa + ra
      /\ qb \in Nat /\ rb \in 0 .. d - 1 /\ b = d * qb + rb
  BY Remainders
<1> HIDE DEF qa, qb, ra, rb
<1>2. a - b = d * (qa - qb) + (ra - rb)
  BY <1>1
<1>3. ASSUME ra = rb
      PROVE  (a - b) % d = 0
  <2>1. a - b = d * (qa - qb) + 0 /\ qa - qb \in Int /\ 0 \in 0 .. d - 1
    BY <1>1, <1>2, <1>3
  <2>2. (d * (qa - qb) + 0) % d = 0
    BY <2>1, Remainders
  <2> QED
    BY <2>1, <2>2
<1>4. ASSUME (a - b) % d = 0
      PROVE  ra = rb
  <2> DEFINE k == (a - b) \div d
  <2>1. k \in Int /\ a - b = d * k
    BY <1>4
  <2> HIDE DEF k
  <2>2. k - (qa - qb) \in Int /\ d * (k - (qa - qb)) = ra - rb
    BY <1>1, <1>2, <2>1
  <2>3. ra - rb < d /\ ra - rb > 0 - d
    BY <1>1
  <2>4. k - (qa - qb) = 0
    BY <2>2, <2>3, SmallMultiple
  <2>5. d * 0 = ra - rb
    BY <2>2, <2>4
  <2> QED
    BY <1>1, <2>5
<1> QED
  BY <1>3, <1>4 DEF ra, rb

\* A set of numbers has a least.
LEMMA Least ==
  ASSUME NEW c \in Nat, NEW S \in SUBSET (0 .. c), S # {}
  PROVE  \E l \in S : \A k \in S : l <= k
PROOF
<1> DEFINE Has == \E l \in S : \A k \in S : l <= k
           T == {n \in 0 .. c : (\E k \in S : k <= n) => Has}
<1>1. 0 \in T
  <2>1. ASSUME NEW k \in S, k <= 0
        PROVE  Has
    BY <2>1
  <2> HIDE DEF Has
  <2> QED
    BY <2>1
<1>2. ASSUME NEW n \in T, n \in 0 .. c - 1
      PROVE  n + 1 \in T
  <2>1. ASSUME NEW k \in S, k <= n + 1
        PROVE  Has
    <3>1. CASE \E j \in S : j <= n
      BY <3>1
    <3>2. CASE ~ \E j \in S : j <= n
      <4>1. \A j \in S : k <= j
        BY <1>2, <2>1, <3>2
      <4> QED
        BY <4>1
    <3> QED
      BY <3>1, <3>2
  <2> HIDE DEF Has
  <2> QED
    BY <1>2, <2>1
<1>3. 0 .. c \subseteq T
  <2> HIDE DEF T
  <2> QED
    BY <1>1, <1>2, BoundedInduction
<1>4. PICK k \in S : k \in 0 .. c
  OBVIOUS
<1>5. c \in T
  BY <1>3
<1> QED
  BY <1>4, <1>5

-----------------------------------------------------------------------------
(* Sums over a finite set, an element after the other. They count units.   *)

\* The element taken next.
Chosen(s) == CHOOSE x \in s : TRUE

\* A function that has the sums of the values of f for the subsets of D.
IsSum(sum, D, f) ==
  sum = [s \in SUBSET D |-> IF s = {} THEN 0
                            ELSE f[Chosen(s)] + sum[s \ {Chosen(s)}]]

\* As many things as the values of f say.
Units(f, s) == UNION {{x} \X (1 .. f[x]) : x \in s}

\* They are finitely many, and those of one element are its value.
LEMMA UnitsCount ==
  ASSUME NEW D, IsFiniteSet(D), NEW f \in [D -> Nat], NEW s \in SUBSET D
  PROVE  /\ IsFiniteSet(Units(f, s)) /\ Cardinality(Units(f, s)) \in Nat
         /\ s = {} => Cardinality(Units(f, s)) = 0
         /\ \A x \in s : Cardinality(Units(f, s)) =
                           f[x] + Cardinality(Units(f, s \ {x}))
PROOF
<1> DEFINE Part(x) == {x} \X (1 .. f[x])
<1>1. \A x \in D : IsFiniteSet(Part(x)) /\ Cardinality(Part(x)) = f[x]
  <2> SUFFICES ASSUME NEW x \in D
               PROVE  IsFiniteSet(Part(x)) /\ Cardinality(Part(x)) = f[x]
    OBVIOUS
  <2>1. IsFiniteSet({x}) /\ Cardinality({x}) = 1
    BY FS_Singleton
  <2>2. f[x] \in Nat
    OBVIOUS
  <2>3. IsFiniteSet(1 .. f[x]) /\ Cardinality(1 .. f[x]) = f[x]
    BY <2>2, FS_Interval
  <2> DEFINE units == 1 .. f[x]
  <2> HIDE DEF units
  <2>4. IsFiniteSet(units) /\ Cardinality(units) = f[x]
    BY <2>3 DEF units
  <2>5. /\ IsFiniteSet({x} \X units)
        /\ Cardinality({x} \X units) = Cardinality({x}) * Cardinality(units)
    BY <2>1, <2>4, FS_Product, Zenon
  <2>6. Cardinality({x}) * Cardinality(units) = f[x]
    BY <2>1, <2>2, <2>4
  <2> QED
    BY <2>5, <2>6 DEF units
<1>2. ASSUME NEW t \in SUBSET D
      PROVE  IsFiniteSet(Units(f, t)) /\ Cardinality(Units(f, t)) \in Nat
  <2> DEFINE T == {Part(x) : x \in t}
             part == [x \in t |-> Part(x)]
  <2>1. IsFiniteSet(t)
    BY FS_Subset
  <2>2. part \in Surjection(t, T)
    BY DEF Surjection
  <2>3. IsFiniteSet(T)
    BY <2>1, <2>2, FS_Surjection
  <2>4. \A p \in T : IsFiniteSet(p)
    BY <1>1
  <2>5. IsFiniteSet(UNION T)
    BY <2>3, <2>4, FS_UNION
  <2>6. Units(f, t) = UNION T
    BY DEF Units
  <2> QED
    BY <2>5, <2>6, FS_CardinalityType
<1>3. s = {} => Cardinality(Units(f, s)) = 0
  <2>1. Units(f, {}) = {}
    BY DEF Units
  <2> QED
    BY <2>1, FS_EmptySet
<1>4. ASSUME NEW x \in s
      PROVE  Cardinality(Units(f, s)) = f[x] + Cardinality(Units(f, s \ {x}))
  <2> DEFINE rest == Units(f, s \ {x})
  <2>1. Units(f, s) = Part(x) \cup rest
    BY DEF Units
  <2>2. Part(x) \cap rest = {}
    BY DEF Units
  <2>3. IsFiniteSet(rest) /\ Cardinality(rest) \in Nat
    BY <1>2
  <2>4. IsFiniteSet(Part(x)) /\ Cardinality(Part(x)) = f[x] /\ f[x] \in Nat
    BY <1>1
  <2> HIDE DEF Part, rest
  <2>5. Cardinality(Part(x) \cap rest) = 0
    BY <2>2, FS_EmptySet
  <2>6. Cardinality(Part(x) \cup rest) =
          Cardinality(Part(x)) + Cardinality(rest) - Cardinality(Part(x) \cap rest)
    BY <2>3, <2>4, FS_Union
  <2> QED
    BY <2>1, <2>3, <2>4, <2>5, <2>6 DEF rest
<1> QED
  BY <1>2, <1>3, <1>4

\* There are sums, and they are the numbers of the units.
LEMMA SumsCount ==
  ASSUME NEW D, IsFiniteSet(D), NEW f \in [D -> Nat]
  PROVE  /\ \E sum : IsSum(sum, D, f)
         /\ \A sum : IsSum(sum, D, f) => sum[D] = Cardinality(Units(f, D))
PROOF
<1> DEFINE Count(s) == Cardinality(Units(f, s))
<1>1. \A s \in SUBSET D : s # {} => Chosen(s) \in s
  BY DEF Chosen
<1>2. ASSUME NEW s \in SUBSET D
      PROVE  Count(s) = IF s = {} THEN 0 ELSE f[Chosen(s)] + Count(s \ {Chosen(s)})
  BY <1>1, UnitsCount
<1>3. IsSum([s \in SUBSET D |-> Count(s)], D, f)
  <2> DEFINE sum == [s \in SUBSET D |-> Count(s)]
  <2>1. \A s \in SUBSET D : sum[s \ {Chosen(s)}] = Count(s \ {Chosen(s)})
    OBVIOUS
  <2> HIDE DEF Count
  <2>2. sum = [s \in SUBSET D |-> IF s = {} THEN 0
                                  ELSE f[Chosen(s)] + sum[s \ {Chosen(s)}]]
    BY <1>2, <2>1
  <2> QED
    BY <2>2 DEF IsSum
<1>4. ASSUME NEW sum, IsSum(sum, D, f)
      PROVE  sum[D] = Count(D)
  <2> DEFINE S == {n \in Nat : \A s \in SUBSET D :
                                 Cardinality(s) = n => sum[s] = Count(s)}
  <2>1. \A s \in SUBSET D :
          sum[s] = IF s = {} THEN 0 ELSE f[Chosen(s)] + sum[s \ {Chosen(s)}]
    BY <1>4 DEF IsSum
  <2> HIDE DEF Count
  <2>2. \A s \in SUBSET D : IsFiniteSet(s) /\ Cardinality(s) \in Nat
    BY FS_Subset, FS_CardinalityType
  <2>3. 0 \in S
    <3> SUFFICES ASSUME NEW s \in SUBSET D, Cardinality(s) = 0
                 PROVE  sum[s] = Count(s)
      OBVIOUS
    <3>1. s = {}
      BY <2>2, FS_EmptySet
    <3> QED
      BY <1>2, <2>1, <3>1
  <2>4. ASSUME NEW n \in S
        PROVE  n + 1 \in S
    <3> SUFFICES ASSUME NEW s \in SUBSET D, Cardinality(s) = n + 1
                 PROVE  sum[s] = Count(s)
      OBVIOUS
    <3>1. s # {}
      BY FS_EmptySet
    <3>2. Chosen(s) \in s /\ s \ {Chosen(s)} \in SUBSET D
      BY <1>1, <3>1
    <3>3. Cardinality(s \ {Chosen(s)}) = n
      <4>1. Cardinality(s \ {Chosen(s)}) = Cardinality(s) - 1
        BY <2>2, <3>2, FS_RemoveElement
      <4>2. n \in Nat
        OBVIOUS
      <4> QED
        BY <4>1, <4>2
    <3>4. sum[s \ {Chosen(s)}] = Count(s \ {Chosen(s)})
      BY <3>2, <3>3
    <3> QED
      BY <1>2, <2>1, <3>1, <3>4
  <2>5. S = Nat
    <3>1. S \in SUBSET Nat
      OBVIOUS
    <3> HIDE DEF S
    <3> QED
      BY <2>3, <2>4, <3>1, SetInduction
  <2> QED
    BY <2>2, <2>5
<1> QED
  BY <1>3, <1>4

-----------------------------------------------------------------------------
(* Congruence.                                                             *)

\* The difference of a and b is a multiple of d.
Alike(d, a, b) == \E k \in Int : a - b = d * k

LEMMA AlikeSelf ==
  ASSUME NEW d \in Int, NEW a \in Int
  PROVE  Alike(d, a, a)
PROOF
<1>1. 0 \in Int /\ a - a = d * 0
  OBVIOUS
<1> QED
  BY <1>1 DEF Alike

LEMMA AlikeBack ==
  ASSUME NEW d \in Int, NEW a \in Int, NEW b \in Int, Alike(d, a, b)
  PROVE  Alike(d, b, a)
PROOF
<1>1. PICK k \in Int : a - b = d * k
  BY DEF Alike
<1>2. 0 - k \in Int /\ b - a = d * (0 - k)
  BY <1>1
<1> QED
  BY <1>2 DEF Alike

LEMMA AlikeOn ==
  ASSUME NEW d \in Int, NEW a \in Int, NEW b \in Int, NEW c \in Int,
         Alike(d, a, b), Alike(d, b, c)
  PROVE  Alike(d, a, c)
PROOF
<1>1. PICK k \in Int : a - b = d * k
  BY DEF Alike
<1>2. PICK l \in Int : b - c = d * l
  BY DEF Alike
<1>3. k + l \in Int /\ d * (k + l) = d * k + d * l
  OBVIOUS
<1>4. a - c = d * (k + l)
  BY <1>1, <1>2, <1>3
<1> QED
  BY <1>3, <1>4 DEF Alike

LEMMA AlikeSum ==
  ASSUME NEW d \in Int, NEW a \in Int, NEW b \in Int, NEW a1 \in Int, NEW b1 \in Int,
         Alike(d, a, a1), Alike(d, b, b1)
  PROVE  Alike(d, a + b, a1 + b1) /\ Alike(d, a - b, a1 - b1)
PROOF
<1>1. PICK k \in Int : a - a1 = d * k
  BY DEF Alike
<1>2. PICK l \in Int : b - b1 = d * l
  BY DEF Alike
<1>3. /\ k + l \in Int /\ d * (k + l) = d * k + d * l
      /\ k - l \in Int /\ d * (k - l) = d * k - d * l
  OBVIOUS
<1>4. /\ (a + b) - (a1 + b1) = d * (k + l)
      /\ (a - b) - (a1 - b1) = d * (k - l)
  BY <1>1, <1>2, <1>3
<1> QED
  BY <1>3, <1>4 DEF Alike

LEMMA AlikeProduct ==
  ASSUME NEW d \in Int, NEW a \in Int, NEW b \in Int, NEW a1 \in Int, NEW b1 \in Int,
         Alike(d, a, a1), Alike(d, b, b1)
  PROVE  Alike(d, a * b, a1 * b1)
PROOF
<1>1. PICK k \in Int : a - a1 = d * k
  BY DEF Alike
<1>2. PICK l \in Int : b - b1 = d * l
  BY DEF Alike
<1> DEFINE m == k * b + a1 * l
<1>3. m \in Int
  OBVIOUS
<1>4. a * b - a1 * b1 = (a - a1) * b + a1 * (b - b1)
  OBVIOUS
<1>5. (d * k) * b + a1 * (d * l) = d * m
  OBVIOUS
<1>6. a * b - a1 * b1 = d * m
  BY <1>1, <1>2, <1>4, <1>5
<1> QED
  BY <1>3, <1>6 DEF Alike

\* A difference of less than d is no multiple of it.
LEMMA AlikeSmall ==
  ASSUME NEW d \in Nat \ {0}, NEW a \in Int, NEW b \in Int, Alike(d, a, b),
         a - b < d, b - a < d
  PROVE  a = b
PROOF
<1>1. PICK k \in Int : a - b = d * k
  BY DEF Alike
<1>2. d * k < d /\ d * k > 0 - d
  BY <1>1
<1>3. k = 0
  BY <1>2, SmallMultiple
<1> QED
  BY <1>1, <1>3

\* The remainder of any integer.
LEMMA AlikeRemainder ==
  ASSUME NEW d \in Nat \ {0}, NEW a \in Int
  PROVE  a % d \in 0 .. d - 1 /\ Alike(d, a % d, a)
PROOF
<1>1. ASSUME NEW q \in Int, NEW r \in 0 .. d - 1, a = d * q + r
      PROVE  a % d \in 0 .. d - 1 /\ Alike(d, a % d, a)
  <2>1. a % d = r
    BY <1>1, Remainders
  <2>2. 0 - q \in Int /\ r - a = d * (0 - q)
    BY <1>1
  <2> QED
    BY <2>1, <2>2 DEF Alike
<1>2. CASE a >= 0
  <2> DEFINE q == a \div d
             r == a % d
  <2>1. a \in Nat
    BY <1>2
  <2>2. q \in Nat /\ r \in 0 .. d - 1 /\ a = d * q + r
    BY <2>1, Remainders
  <2> HIDE DEF q, r
  <2>3. q \in Int
    BY <2>2
  <2> QED
    BY <1>1, <2>2, <2>3
<1>3. CASE a < 0
  <2> DEFINE b == 0 - a
             q == b \div d
             r == b % d
  <2>1. b \in Nat
    BY <1>3
  <2>2. q \in Nat /\ r \in 0 .. d - 1 /\ b = d * q + r
    BY <2>1, Remainders
  <2> HIDE DEF q, r
  <2>3. CASE r = 0
    <3>1. 0 - q \in Int /\ 0 \in 0 .. d - 1 /\ a = d * (0 - q) + 0
      BY <2>2, <2>3
    <3> QED
      BY <1>1, <3>1
  <2>4. CASE r # 0
    <3>1. 0 - q - 1 \in Int /\ d - r \in 0 .. d - 1
      BY <2>2, <2>4
    <3>2. a = d * (0 - q - 1) + (d - r)
      BY <2>2
    <3> QED
      BY <1>1, <3>1, <3>2
  <2> QED
    BY <2>3, <2>4
<1> QED
  BY <1>2, <1>3

\* Numbers that are alike have the same remainder.
LEMMA AlikeRemainders ==
  ASSUME NEW d \in Nat \ {0}, NEW a \in Int, NEW b \in Int, Alike(d, a, b)
  PROVE  a % d = b % d
PROOF
<1> DEFINE r == a % d
           s == b % d
<1>1. r \in 0 .. d - 1 /\ Alike(d, r, a) /\ s \in 0 .. d - 1 /\ Alike(d, s, b)
  BY AlikeRemainder
<1> HIDE DEF r, s
<1>2. r \in Int /\ s \in Int /\ d \in Int /\ r - s < d /\ s - r < d
  BY <1>1
<1>3. Alike(d, r, b)
  BY <1>1, <1>2, AlikeOn
<1>4. Alike(d, b, s)
  BY <1>1, <1>2, AlikeBack
<1>5. Alike(d, r, s)
  BY <1>2, <1>3, <1>4, AlikeOn
<1>6. r = s
  BY <1>2, <1>5, AlikeSmall
<1> QED
  BY <1>6 DEF r, s

IsPrime(p) == p \in Nat /\ p > 1 /\ \A d \in 2 .. p - 1 : p % d # 0

\* A prime divides a product only if it divides a factor.
LEMMA PrimeFactor ==
  ASSUME NEW p, IsPrime(p), NEW a \in Int, NEW b \in Int, Alike(p, a * b, 0)
  PROVE  Alike(p, a, 0) \/ Alike(p, b, 0)
PROOF
<1> SUFFICES ASSUME ~ Alike(p, a, 0) PROVE Alike(p, b, 0)
  OBVIOUS
<1> DEFINE S == {k \in 1 .. p - 1 : \E t \in Int : k * b = p * t}
<1>1. p \in Nat \ {0} /\ p \in Int /\ p > 1
  BY DEF IsPrime
<1>2. S # {}
  <2> DEFINE r == a % p
  <2>1. r \in 0 .. p - 1 /\ Alike(p, r, a)
    BY <1>1, AlikeRemainder
  <2> HIDE DEF r
  <2>2. r \in Int
    BY <2>1
  <2>3. r # 0
    <3> SUFFICES ASSUME r = 0 PROVE FALSE
      OBVIOUS
    <3>1. Alike(p, 0, a) /\ 0 \in Int
      BY <2>1
    <3> QED
      BY <1>1, <3>1, AlikeBack
  <2>4. Alike(p, b, b)
    BY <1>1, AlikeSelf
  <2>5. Alike(p, r * b, a * b)
    BY <1>1, <2>1, <2>2, <2>4, AlikeProduct
  <2>6. Alike(p, r * b, 0)
    <3>1. r * b \in Int /\ a * b \in Int /\ 0 \in Int
      BY <2>2
    <3> QED
      BY <1>1, <2>5, <3>1, AlikeOn
  <2>7. PICK t \in Int : r * b - 0 = p * t
    BY <2>6 DEF Alike
  <2>8. r * b = p * t
    BY <2>2, <2>7
  <2>9. r \in 1 .. p - 1
    BY <2>1, <2>3
  <2> QED
    BY <2>8, <2>9
<1>3. PICK k \in S : \A j \in S : k <= j
  <2>1. S \in SUBSET (0 .. p) /\ p \in Nat
    BY <1>1
  <2> HIDE DEF S
  <2> QED
    BY <1>2, <2>1, Least
<1>4. PICK t \in Int : k * b = p * t
  OBVIOUS
<1> DEFINE q == p \div k
           r == p % k
<1>5. k \in 1 .. p - 1 /\ q \in Nat /\ r \in 0 .. k - 1 /\ p = k * q + r
  <2>1. k \in Nat \ {0} /\ k \in 1 .. p - 1
    BY <1>1
  <2> QED
    BY <1>1, <2>1, Remainders
<1>6. r = 0
  <2> SUFFICES ASSUME r # 0 PROVE FALSE
    OBVIOUS
  <2> HIDE DEF q, r
  <2>1. r * b = p * b - (k * b) * q
    BY <1>1, <1>5
  <2>2. r * b = p * (b - t * q) /\ b - t * q \in Int
    BY <1>1, <1>4, <1>5, <2>1
  <2>3. r \in 1 .. p - 1
    BY <1>1, <1>5
  <2>4. \E s \in Int : r * b = p * s
    BY <2>2
  <2>5. r \in S
    BY <2>3, <2>4
  <2>6. ~ (k <= r)
    BY <1>1, <1>5
  <2> QED
    BY <1>3, <2>5, <2>6
<1>7. k = 1
  <2>1. k # 1 => k \in 2 .. p - 1
    BY <1>1, <1>5
  <2>2. p % k = 0
    BY <1>6
  <2> QED
    BY <2>1, <2>2 DEF IsPrime
<1>8. b - 0 = p * t
  BY <1>4, <1>7
<1> QED
  BY <1>8 DEF Alike

-----------------------------------------------------------------------------
(* Zero modulo a prime, and inverses.                                     *)

\* A product that is a multiple of a prime, with a factor that is not.
LEMMA Cancelled ==
  ASSUME NEW p, IsPrime(p), NEW d \in Int, NEW a \in Int, NEW b \in Int,
         ~Alike(p, d, 0), Alike(p, d * a, d * b)
  PROVE  Alike(p, a, b)
PROOF
<1>1. p \in Int
  BY DEF IsPrime
<1> DEFINE e == a - b
<1>2. e \in Int
  OBVIOUS
<1>3. d * e = d * a - d * b
  OBVIOUS
<1>4. Alike(p, d * e, 0)
  <2>1. PICK k \in Int : d * a - d * b = p * k
    BY DEF Alike
  <2>2. d * e - 0 = p * k
    BY <1>3, <2>1
  <2> QED
    BY <2>2 DEF Alike
<1>5. Alike(p, e, 0)
  <2> HIDE DEF e
  <2> QED
    BY <1>2, <1>4, PrimeFactor
<1>6. PICK k \in Int : e - 0 = p * k
  BY <1>5 DEF Alike
<1>7. a - b = p * k
  BY <1>6
<1> QED
  BY <1>7 DEF Alike

\* Zero modulo p, and the combinations of what is.
Vanishes(p, e) == \E k \in Int : e = p * k

\* Numbers are alike when their difference is zero.
LEMMA AlikeIsZero ==
  ASSUME NEW p \in Int, NEW a \in Int, NEW b \in Int
  PROVE  Alike(p, a, b) <=> Vanishes(p, a - b)
  BY DEF Alike, Vanishes

LEMMA ZeroCombined ==
  ASSUME NEW p \in Int, NEW e \in Int, NEW f \in Int, NEW j \in Int, NEW k \in Int,
         Vanishes(p, e), Vanishes(p, f)
  PROVE  Vanishes(p, j * e + k * f)
PROOF
<1> DEFINE g == j * e + k * f
<1>1. PICK u \in Int : e = p * u
  BY DEF Vanishes
<1>2. PICK v \in Int : f = p * v
  BY DEF Vanishes
<1>3. j * e = p * (j * u) /\ k * f = p * (k * v)
  BY <1>1, <1>2
<1>4. g = p * (j * u + k * v) /\ j * u + k * v \in Int
  BY <1>3
<1> QED
  BY <1>4 DEF Vanishes

\* The same with three terms, and with four.
LEMMA ZeroCombined3 ==
  ASSUME NEW p \in Int, NEW e \in Int, NEW f \in Int, NEW g1 \in Int,
         NEW i \in Int, NEW j \in Int, NEW k \in Int,
         Vanishes(p, e), Vanishes(p, f), Vanishes(p, g1)
  PROVE  Vanishes(p, i * e + j * f + k * g1)
PROOF
<1>1. PICK u \in Int : e = p * u
  BY DEF Vanishes
<1>2. PICK v \in Int : f = p * v
  BY DEF Vanishes
<1>3. PICK w \in Int : g1 = p * w
  BY DEF Vanishes
<1>4. i * e = p * (i * u) /\ j * f = p * (j * v) /\ k * g1 = p * (k * w)
  BY <1>1, <1>2, <1>3
<1>5. /\ i * e + j * f + k * g1 = p * (i * u + j * v + k * w)
      /\ i * u + j * v + k * w \in Int
  BY <1>4
<1> QED
  BY <1>5 DEF Vanishes

LEMMA ZeroCombined4 ==
  ASSUME NEW p \in Int, NEW e \in Int, NEW f \in Int, NEW g1 \in Int, NEW h \in Int,
         NEW i \in Int, NEW j \in Int, NEW k \in Int, NEW l \in Int,
         Vanishes(p, e), Vanishes(p, f), Vanishes(p, g1), Vanishes(p, h)
  PROVE  Vanishes(p, i * e + j * f + k * g1 + l * h)
PROOF
<1>1. PICK u \in Int : e = p * u
  BY DEF Vanishes
<1>2. PICK v \in Int : f = p * v
  BY DEF Vanishes
<1>3. PICK w \in Int : g1 = p * w
  BY DEF Vanishes
<1>6. PICK z \in Int : h = p * z
  BY DEF Vanishes
<1>4. i * e = p * (i * u) /\ j * f = p * (j * v) /\ k * g1 = p * (k * w) /\ l * h = p * (l * z)
  BY <1>1, <1>2, <1>3, <1>6
<1>5. /\ i * e + j * f + k * g1 + l * h = p * (i * u + j * v + k * w + l * z)
      /\ i * u + j * v + k * w + l * z \in Int
  BY <1>4
<1> QED
  BY <1>5 DEF Vanishes

\* A multiple of what is zero.
LEMMA ZeroMultiple ==
  ASSUME NEW p \in Int, NEW e \in Int, NEW j \in Int, Vanishes(p, e)
  PROVE  Vanishes(p, j * e)
PROOF
<1>1. PICK u \in Int : e = p * u
  BY DEF Vanishes
<1>2. j * e = p * (j * u) /\ j * u \in Int
  BY <1>1
<1> QED
  BY <1>2 DEF Vanishes

\* A product is zero modulo a prime only if a factor is.
LEMMA ZeroFactor ==
  ASSUME NEW p, IsPrime(p), NEW d \in Int, NEW e \in Int, Vanishes(p, d * e)
  PROVE  Vanishes(p, d) \/ Vanishes(p, e)
PROOF
<1>1. p \in Int /\ 0 \in Int /\ d * e \in Int
  BY DEF IsPrime
<1>2. Alike(p, d * e, 0)
  BY <1>1 DEF Vanishes, Alike
<1>3. Alike(p, d, 0) \/ Alike(p, e, 0)
  BY <1>1, <1>2, PrimeFactor
<1> QED
  BY <1>3 DEF Alike, Vanishes

\* Below p, only 0 is zero, and numbers that differ by zero are equal.
LEMMA ZeroSmall ==
  ASSUME NEW p \in Nat \ {0}, NEW e \in Int, Vanishes(p, e), e < p, 0 - e < p
  PROVE  e = 0
PROOF
<1>1. Alike(p, e, 0)
  BY DEF Alike, Vanishes
<1>2. e - 0 < p /\ 0 - e < p /\ 0 \in Int
  OBVIOUS
<1> QED
  BY <1>1, <1>2, AlikeSmall

LEMMA ZeroEqual ==
  ASSUME NEW p \in Nat \ {0}, NEW a \in 0 .. p - 1, NEW b \in 0 .. p - 1, Vanishes(p, a - b)
  PROVE  a = b
PROOF
<1>1. a - b \in Int /\ a - b < p /\ 0 - (a - b) < p
  OBVIOUS
<1>2. a - b = 0
  BY <1>1, ZeroSmall
<1> QED
  BY <1>2

\* The number below p that is like an integer.
LEMMA ZeroRemainder ==
  ASSUME NEW p \in Nat \ {0}, NEW e \in Int
  PROVE  e % p \in 0 .. p - 1 /\ Vanishes(p, (e % p) - e)
PROOF
<1>1. e % p \in 0 .. p - 1 /\ Alike(p, e % p, e)
  BY AlikeRemainder
<1>2. e % p \in Int /\ p \in Int
  BY <1>1
<1> QED
  BY <1>1, <1>2, AlikeIsZero

\* More than there are places for do not all have one of their own.
LEMMA Pigeons ==
  ASSUME NEW D, NEW T, IsFiniteSet(D), IsFiniteSet(T), Cardinality(T) < Cardinality(D),
         NEW place \in [D -> T]
  PROVE  \E i, j \in D : i # j /\ place[i] = place[j]
  BY FS_PigeonHole, Zenon

\* What is no multiple of a prime has an inverse: its products with the numbers
\* below the prime are all different, so one of them is 1.
LEMMA InverseExists ==
  ASSUME NEW p, IsPrime(p), NEW e \in Int, ~Vanishes(p, e)
  PROVE  \E i \in 1 .. p - 1 : Vanishes(p, e * i - 1)
PROOF
<1> SUFFICES ASSUME \A i \in 1 .. p - 1 : ~Vanishes(p, e * i - 1) PROVE FALSE
  OBVIOUS
<1>1. p \in Nat \ {0} /\ p \in Int /\ p > 1
  BY DEF IsPrime
<1> DEFINE D == 1 .. p - 1
           T == 2 .. p - 1
           place == [i \in D |-> (e * i) % p]
<1>2. ASSUME NEW i \in D
      PROVE  (e * i) % p \in T /\ Vanishes(p, ((e * i) % p) - e * i)
  <2> DEFINE r == (e * i) % p
  <2>1. e * i \in Int
    OBVIOUS
  <2>2. r \in 0 .. p - 1 /\ Vanishes(p, r - e * i)
    BY <1>1, <2>1, ZeroRemainder
  <2> HIDE DEF r
  <2>3. r # 0
    <3> SUFFICES ASSUME r = 0 PROVE FALSE
      OBVIOUS
    <3>1. Vanishes(p, (-1) * (r - e * i))
      <4>1. r - e * i \in Int /\ -1 \in Int
        BY <2>2
      <4> QED
        BY <1>1, <2>2, <4>1, ZeroMultiple
    <3>2. (-1) * (r - e * i) = e * i
      OBVIOUS
    <3>3. Vanishes(p, e * i)
      BY <3>1, <3>2
    <3>4. Vanishes(p, i)
      BY <3>3, ZeroFactor
    <3>5. i < p /\ 0 - i < p
      BY <1>1
    <3>6. i = 0
      BY <1>1, <3>4, <3>5, ZeroSmall
    <3> QED
      BY <3>6
  <2>4. r # 1
    <3> SUFFICES ASSUME r = 1 PROVE FALSE
      OBVIOUS
    <3>1. Vanishes(p, (-1) * (r - e * i))
      <4>1. r - e * i \in Int /\ -1 \in Int
        BY <2>2
      <4> QED
        BY <1>1, <2>2, <4>1, ZeroMultiple
    <3>2. (-1) * (r - e * i) = e * i - 1
      OBVIOUS
    <3> QED
      BY <3>1, <3>2
  <2> QED
    BY <1>1, <2>2, <2>3, <2>4 DEF r
<1>3. place \in [D -> T]
  BY <1>2
<1>4. \A i, j \in D : i # j => place[i] # place[j]
  <2> SUFFICES ASSUME NEW i \in D, NEW j \in D, place[i] = place[j] PROVE i = j
    OBVIOUS
  <2> DEFINE r == (e * i) % p
             s == (e * j) % p
  <2>1. r = s
    OBVIOUS
  <2>2. Vanishes(p, r - e * i) /\ Vanishes(p, s - e * j) /\ r \in Int /\ s \in Int
    BY <1>2
  <2> HIDE DEF r, s
  <2>3. 1 \in Int /\ -1 \in Int /\ r - e * i \in Int /\ s - e * j \in Int
    BY <2>2
  <2>4. Vanishes(p, 1 * (s - e * j) + (-1) * (r - e * i))
    BY <1>1, <2>2, <2>3, ZeroCombined
  <2>5. 1 * (s - e * j) + (-1) * (r - e * i) = e * (i - j) /\ i - j \in Int
    BY <2>1, <2>2
  <2>6. Vanishes(p, i - j)
    BY <2>4, <2>5, ZeroFactor
  <2>7. i \in 0 .. p - 1 /\ j \in 0 .. p - 1
    BY <1>1
  <2> QED
    BY <1>1, <2>6, <2>7, ZeroEqual
<1>5. IsFiniteSet(D) /\ IsFiniteSet(T) /\ Cardinality(T) < Cardinality(D)
  <2>1. IsFiniteSet(D) /\ Cardinality(D) = p - 1
    <3>1. 1 \in Int /\ p - 1 \in Int /\ 1 <= p - 1 /\ p - 1 - 1 + 1 = p - 1
      BY <1>1
    <3> QED
      BY <3>1, FS_Interval
  <2>2. IsFiniteSet(T) /\ Cardinality(T) = p - 2
    <3>1. 2 \in Int /\ p - 1 \in Int /\ p - 1 - 2 + 1 = p - 2
      BY <1>1
    <3>2. CASE 2 <= p - 1
      BY <3>1, <3>2, FS_Interval
    <3>3. CASE p = 2
      <4>1. T = {}
        BY <3>3
      <4> QED
        BY <3>3, <4>1, FS_EmptySet
    <3> QED
      BY <1>1, <3>2, <3>3
  <2> QED
    BY <1>1, <2>1, <2>2
<1> HIDE DEF D, T, place
<1>6. \E i, j \in D : i # j /\ place[i] = place[j]
  BY <1>3, <1>5, Pigeons
<1> QED
  BY <1>4, <1>6, Zenon

-----------------------------------------------------------------------------
(* Recursion that goes back by more than one.                              *)

\* Recursion to an earlier place than the one before.
HasEarlierRecursion(c, V, below) ==
  \A first \in V, next \in [1 .. c -> [V -> V]] :
    \E f \in [0 .. c -> V] :
      f[0] = first /\ \A n \in 1 .. c : f[n] = next[n][f[below[n]]]

\* Such a function is there too: it is built up from 0.
LEMMA EarlierRecursionExists ==
  ASSUME NEW c \in Nat, NEW V, NEW below \in [1 .. c -> Nat],
         \A n \in 1 .. c : below[n] < n
  PROVE  HasEarlierRecursion(c, V, below)
PROOF
<1> SUFFICES ASSUME NEW first \in V, NEW next \in [1 .. c -> [V -> V]]
             PROVE  \E f \in [0 .. c -> V] :
                      f[0] = first /\ \A n \in 1 .. c : f[n] = next[n][f[below[n]]]
  BY DEF HasEarlierRecursion
<1> DEFINE IsUpTo(f, k) ==
             f[0] = first /\ \A n \in 1 .. k : f[n] = next[n][f[below[n]]]
           S == {k \in 0 .. c : \E f \in [0 .. k -> V] : IsUpTo(f, k)}
<1>1. 0 \in S
  <2> DEFINE f == [n \in 0 .. 0 |-> first]
  <2>1. f \in [0 .. 0 -> V] /\ f[0] = first /\ 1 .. 0 = {}
    OBVIOUS
  <2> HIDE DEF f
  <2>2. IsUpTo(f, 0)
    BY <2>1
  <2>3. \E h \in [0 .. 0 -> V] : IsUpTo(h, 0)
    <3> HIDE DEF IsUpTo
    <3> QED
      BY <2>1, <2>2, Zenon
  <2> QED
    BY <2>3
<1>2. ASSUME NEW k \in S, k \in 0 .. c - 1
      PROVE  k + 1 \in S
  <2>1. PICK f \in [0 .. k -> V] : IsUpTo(f, k)
    OBVIOUS
  <2> DEFINE value == next[k + 1][f[below[k + 1]]]
             g == [n \in 0 .. k + 1 |-> IF n = k + 1 THEN value ELSE f[n]]
  <2>2. value \in V
    <3>1. k + 1 \in 1 .. c /\ below[k + 1] \in 0 .. k
      BY <1>2
    <3>2. f[below[k + 1]] \in V
      BY <3>1
    <3> QED
      BY <3>1, <3>2
  <2>3. g \in [0 .. k + 1 -> V]
    BY <2>2
  <2>4. IsUpTo(g, k + 1)
    <3>1. g[0] = first
      BY <2>1
    <3>2. ASSUME NEW n \in 1 .. k + 1
          PROVE  g[n] = next[n][g[below[n]]]
      <4>1. n \in 1 .. c
        BY <1>2
      <4>2. below[n] \in 0 .. k
        BY <4>1
      <4>3. g[below[n]] = f[below[n]]
        BY <4>2
      <4>4. CASE n = k + 1
        <5>1. g[k + 1] = next[k + 1][f[below[k + 1]]]
          OBVIOUS
        <5>2. g[below[k + 1]] = f[below[k + 1]]
          BY <4>3, <4>4
        <5> HIDE DEF g, value
        <5> QED
          BY <4>4, <5>1, <5>2
      <4>5. CASE n # k + 1
        BY <4>3, <4>5, <2>1
      <4> QED
        BY <4>4, <4>5
    <3> QED
      BY <3>1, <3>2
  <2>5. \E h \in [0 .. k + 1 -> V] : IsUpTo(h, k + 1)
    <3> HIDE DEF IsUpTo, g
    <3> QED
      BY <2>3, <2>4, Zenon
  <2>6. k + 1 \in 0 .. c
    BY <1>2
  <2> HIDE DEF IsUpTo
  <2> QED
    BY <2>5, <2>6
<1>3. c \in S
  <2> HIDE DEF S
  <2>1. 0 .. c \subseteq S
    BY <1>1, <1>2, BoundedInduction
  <2> QED
    BY <2>1
<1> QED
  BY <1>3

-----------------------------------------------------------------------------
(* A function on all naturals, by recursion.                               *)

\* It has the values from 0 to n.
UpTo(V, first, next, n, h) ==
  /\ h \in [0 .. n -> V] /\ h[0] = first
  /\ \A k \in 1 .. n : h[k] = next[h[k - 1]]

\* There is such a function for every n.
LEMMA UpToExists ==
  ASSUME NEW V, NEW first \in V, NEW next \in [V -> V], NEW n \in Nat
  PROVE  \E h : UpTo(V, first, next, n, h)
PROOF
<1> DEFINE steps == [k \in 1 .. n |-> next]
<1>1. steps \in [1 .. n -> [V -> V]]
  OBVIOUS
<1>2. \A k \in 1 .. n : steps[k] = next
  OBVIOUS
<1> HIDE DEF steps
<1>3. PICK h \in [0 .. n -> V] : h[0] = first /\ \A k \in 1 .. n : h[k] = steps[k][h[k - 1]]
  <2>1. HasRecursion(n, V)
    BY RecursionExists, Zenon
  <2> QED
    BY <1>1, <2>1, Zenon DEF HasRecursion
<1>4. UpTo(V, first, next, n, h)
  BY <1>2, <1>3 DEF UpTo
<1> QED
  BY <1>4

\* There is only one.
LEMMA UpToSame ==
  ASSUME NEW V, NEW first, NEW next, NEW n \in Nat, NEW l \in Nat, n <= l, NEW h, NEW f,
         UpTo(V, first, next, n, h), UpTo(V, first, next, l, f)
  PROVE  \A k \in 0 .. n : h[k] = f[k]
PROOF
<1> DEFINE S == {k \in 0 .. n : h[k] = f[k]}
<1>1. 0 \in S
  BY DEF UpTo
<1>2. ASSUME NEW k \in S, k \in 0 .. n - 1 PROVE k + 1 \in S
  <2>1. k + 1 \in 1 .. n /\ k + 1 \in 1 .. l /\ k + 1 - 1 = k /\ k + 1 \in 0 .. n
    BY <1>2
  <2>2. h[k + 1] = next[h[k]] /\ f[k + 1] = next[f[k]]
    BY <2>1 DEF UpTo
  <2> QED
    BY <2>1, <2>2
<1>3. 0 .. n \subseteq S
  <2> HIDE DEF S
  <2> QED
    BY <1>1, <1>2, BoundedInduction
<1> QED
  BY <1>3

\* Their values at n make the function on all naturals.
LEMMA NaturalRecursionExists ==
  ASSUME NEW V, NEW first \in V, NEW next \in [V -> V]
  PROVE  \E f \in [Nat -> V] : f[0] = first /\ \A n \in Nat : f[n + 1] = next[f[n]]
PROOF
<1> DEFINE H(n) == CHOOSE h : UpTo(V, first, next, n, h)
           f == [n \in Nat |-> H(n)[n]]
<1>1. ASSUME NEW n \in Nat PROVE UpTo(V, first, next, n, H(n))
  BY UpToExists
<1> HIDE DEF H
<1>2. ASSUME NEW n \in Nat PROVE H(n)[n] \in V
  <2>1. n \in 0 .. n
    OBVIOUS
  <2> QED
    BY <1>1, <2>1 DEF UpTo
<1>3. f \in [Nat -> V]
  BY <1>2
<1>4. f[0] = first
  BY <1>1 DEF UpTo
<1>5. ASSUME NEW n \in Nat PROVE f[n + 1] = next[f[n]]
  <2>1. n + 1 \in Nat /\ n <= n + 1 /\ n \in 0 .. n /\ n + 1 \in 1 .. n + 1 /\ n + 1 - 1 = n
    OBVIOUS
  <2>2. H(n)[n] = H(n + 1)[n]
    BY <1>1, <2>1, UpToSame
  <2>3. H(n + 1)[n + 1] = next[H(n + 1)[n]]
    BY <1>1, <2>1 DEF UpTo
  <2> QED
    BY <2>1, <2>2, <2>3
<1> HIDE DEF f
<1> QED
  BY <1>3, <1>4, <1>5
===============================================================================
