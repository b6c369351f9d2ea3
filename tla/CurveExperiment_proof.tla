------------------------ MODULE CurveExperiment_proof ------------------------
(***************************************************************************)
(* Proofs about the experiment of Lab4, for every set of moduli, order     *)
(* required, message and number of tests: how tests are counted, which     *)
(* points there are to pick from, the types, for which the addition of     *)
(* points has to stay on the curve and the count of an order has to end,   *)
(* that addition is the one of a commutative group, and what follows for   *)
(* the orders of points, the exchanges of keys and the signatures.         *)
(***************************************************************************)
EXTENDS CurveExperiment, NaturalRecursion

\* What the counts rest on: where the program is, and that they are numbers.
CountersOK ==
  /\ phase \in {"generate", "iterate", "exchange", "sign", "check"}
  /\ index \in Nat
  /\ counter \in [Counter -> Nat]

CountInv == CountersOK /\ EveryTestIsCounted

\* One more of a count, and all others as they were.
LEMMA OneCounted ==
  ASSUME CountersOK, NEW c \in Counter,
         counter' = [counter EXCEPT ![c] = @ + 1]
  PROVE  /\ counter' \in [Counter -> Nat]
         /\ \A d \in Counter :
              counter'[d] = IF d = c THEN counter[d] + 1 ELSE counter[d]
  BY DEF CountersOK

\* The check ends in one of three ways.
LEMMA Verdicts == Verdict \in {"SUCCESSFUL", "MATH_ERROR", "FAILED"}
PROOF
<1> DEFINE publicKey == AssemblePublicKey(group, alice, g)
           stripped == StripMessageHash(hash, order)
<1>1. Check(group, signature, hash, publicKey, g, order)
        \in {"SUCCESSFUL", "MATH_ERROR", "FAILED"}
  <2> HIDE DEF publicKey
  <2> QED
    BY DEF Check
<1> QED
  BY <1>1 DEF Verdict

\* A test is counted at its end, once the exchange is.
LEMMA CountEnds ==
  ASSUME CountInv,
         NEW c \in {"signatureSuccesses", "signatureFails",
                    "signatureNotCalculatedFails", "signatureMathFails"},
         phase \in {"sign", "check"}, Count(c)
  PROVE  CountInv'
PROOF
<1>1. c \in Counter
  BY DEF Counter
<1>2. /\ counter' \in [Counter -> Nat]
      /\ \A d \in Counter :
           counter'[d] = IF d = c THEN counter[d] + 1 ELSE counter[d]
  BY <1>1, OneCounted DEF Count, CountInv
<1>3. phase' = "generate" /\ index' = index + 1
  BY DEF Count
<1>4. CountersOK'
  BY <1>2, <1>3 DEF CountInv, CountersOK
<1>5. EveryTestIsCounted'
  BY <1>2, <1>3 DEF CountInv, CountersOK, EveryTestIsCounted, Counter
<1> QED
  BY <1>4, <1>5 DEF CountInv

\* A test ends without an exchange, and is counted as that.
LEMMA CountMathFails ==
  ASSUME CountInv, phase \in {"iterate", "exchange"},
         Count("exchangeMathFails")
  PROVE  CountInv'
PROOF
<1>1. "exchangeMathFails" \in Counter
  BY DEF Counter
<1>2. /\ counter' \in [Counter -> Nat]
      /\ \A d \in Counter : counter'[d] =
           IF d = "exchangeMathFails" THEN counter[d] + 1 ELSE counter[d]
  BY <1>1, OneCounted DEF Count, CountInv
<1>3. phase' = "generate" /\ index' = index + 1
  BY DEF Count
<1>4. CountersOK'
  BY <1>2, <1>3 DEF CountInv, CountersOK
<1>5. EveryTestIsCounted'
  BY <1>2, <1>3 DEF CountInv, CountersOK, EveryTestIsCounted, Counter
<1> QED
  BY <1>4, <1>5 DEF CountInv

\* An exchange that did not throw is counted, and its test goes on.
LEMMA CountExchange ==
  ASSUME CountInv, NEW c \in {"exchangeSuccesses", "exchangeFails"},
         phase = "exchange", phase' = "sign", index' = index,
         counter' = [counter EXCEPT ![c] = @ + 1]
  PROVE  CountInv'
PROOF
<1>1. c \in Counter
  BY DEF Counter
<1>2. /\ counter' \in [Counter -> Nat]
      /\ \A d \in Counter :
           counter'[d] = IF d = c THEN counter[d] + 1 ELSE counter[d]
  BY <1>1, OneCounted DEF CountInv
<1>3. CountersOK'
  BY <1>2 DEF CountInv, CountersOK
<1>4. EveryTestIsCounted'
  BY <1>2 DEF CountInv, CountersOK, EveryTestIsCounted, Counter
<1> QED
  BY <1>3, <1>4 DEF CountInv

\* Steps between the counts, which change neither.
LEMMA CountGoesOn ==
  ASSUME CountInv, UNCHANGED <<index, counter>>,
         phase' \in {"generate", "iterate", "exchange", "sign", "check"},
         phase \in {"sign", "check"} <=> phase' \in {"sign", "check"}
  PROVE  CountInv'
  BY DEF CountInv, CountersOK, EveryTestIsCounted

LEMMA CountInit == Init => CountInv
  BY DEF Init, CountInv, CountersOK, EveryTestIsCounted, Counter

LEMMA CountNext == CountInv /\ [Next]_vars => CountInv'
PROOF
<1> SUFFICES ASSUME CountInv, [Next]_vars PROVE CountInv'
  OBVIOUS
<1>1. CASE Generate
  <2>1. phase = "generate" /\ phase' = "iterate" /\ UNCHANGED <<index, counter>>
    BY <1>1 DEF Generate
  <2> QED
    BY <2>1, CountGoesOn
<1>2. CASE Iterate
  <2>1. phase = "iterate" /\ UNCHANGED <<phase, index, counter>>
    BY <1>2 DEF Iterate
  <2> QED
    BY <2>1, CountGoesOn
<1>3. CASE UnableToPick
  BY <1>3, CountMathFails DEF UnableToPick
<1>4. CASE TooLow
  <2>1. phase = "iterate" /\ phase' = "generate" /\ UNCHANGED <<index, counter>>
    BY <1>4 DEF TooLow
  <2> QED
    BY <2>1, CountGoesOn
<1>5. CASE Pick
  <2>1. phase = "iterate" /\ phase' = "exchange" /\ UNCHANGED <<index, counter>>
    BY <1>5 DEF Pick
  <2> QED
    BY <2>1, CountGoesOn
<1>6. CASE Exchange
  <2>1. \/ Count("exchangeMathFails")
        \/ /\ \E c \in {"exchangeSuccesses", "exchangeFails"} :
                counter' = [counter EXCEPT ![c] = @ + 1]
           /\ phase' = "sign" /\ index' = index
    <3>1. PICK mine \in PrivateKey(order), bob \in PrivateKey(order) :
            LET views == Views(mine, bob) IN
            IF views = None THEN Count("exchangeMathFails")
            ELSE /\ counter' =
                      IF views[1] = views[2]
                        THEN [counter EXCEPT !["exchangeSuccesses"] = @ + 1]
                        ELSE [counter EXCEPT !["exchangeFails"] = @ + 1]
                 /\ phase' = "sign" /\ index' = index
      BY <1>6 DEF Exchange
    <3> DEFINE views == Views(mine, bob)
    <3> HIDE DEF views
    <3>2. IF views = None THEN Count("exchangeMathFails")
          ELSE /\ counter' =
                    IF views[1] = views[2]
                      THEN [counter EXCEPT !["exchangeSuccesses"] = @ + 1]
                      ELSE [counter EXCEPT !["exchangeFails"] = @ + 1]
               /\ phase' = "sign" /\ index' = index
      BY <3>1 DEF views
    <3> QED
      BY <3>2
  <2>2. phase = "exchange"
    BY <1>6 DEF Exchange
  <2> QED
    BY <2>1, <2>2, CountMathFails, CountExchange
<1>7. CASE SignMessage
  <2>1. \/ Count("signatureNotCalculatedFails")
        \/ phase' = "check" /\ UNCHANGED <<index, counter>>
    BY <1>7 DEF SignMessage
  <2>2. phase = "sign"
    BY <1>7 DEF SignMessage
  <2> QED
    BY <2>1, <2>2, CountEnds, CountGoesOn
<1>8. CASE CheckSignature
  <2>1. \/ Count("signatureSuccesses") \/ Count("signatureMathFails")
        \/ Count("signatureFails")
    BY <1>8, Verdicts DEF CheckSignature
  <2>2. phase = "check"
    BY <1>8 DEF CheckSignature
  <2> QED
    BY <2>1, <2>2, CountEnds
<1>9. CASE UNCHANGED vars
  <2>1. UNCHANGED <<phase, index, counter>>
    BY <1>9 DEF vars
  <2> QED
    BY <2>1, CountGoesOn DEF CountInv, CountersOK
<1> QED
  BY <1>1, <1>2, <1>3, <1>4, <1>5, <1>6, <1>7, <1>8, <1>9 DEF Next

\* Every test counted has one outcome, at every step of every run, whatever
\* rand returns and however many groups are thrown away (Lab4/Main.cpp:65).
THEOREM TestsCounted == Spec => []EveryTestIsCounted
PROOF
<1>1. Spec => []CountInv
  BY CountInit, CountNext, PTL DEF Spec
<1>2. CountInv => EveryTestIsCounted
  BY DEF CountInv
<1> QED
  BY <1>1, <1>2, PTL

-----------------------------------------------------------------------------
(* Arithmetic modulo a prime.                                              *)

\* What the trial division finds prime has no proper divisor.
LEMMA TrialDivision ==
  ASSUME NEW p \in Nat, p > 1, BruteForceIsPrime(p), NEW d \in 2 .. p - 1
  PROVE  p % d # 0
PROOF
<1> SUFFICES ASSUME p % d = 0 PROVE FALSE
  OBVIOUS
<1> DEFINE q == p \div d
<1>1. q \in Nat /\ p = d * q
  <2>1. d \in Nat \ {0}
    OBVIOUS
  <2>2. q \in Nat /\ p = d * q + (p % d)
    BY <2>1, Remainders
  <2> QED
    BY <2>2
<1> HIDE DEF q
<1>2. q # 0 /\ q # 1
  BY <1>1
<1>3. q \in 2 .. p /\ p = q * d + 0
  <2>1. d * q >= q
    BY <1>1
  <2> QED
    BY <1>1, <1>2, <2>1
<1>4. p % q = 0
  <2>1. q \in Nat \ {0} /\ d \in Int /\ 0 \in 0 .. q - 1
    BY <1>3
  <2>2. (q * d + 0) % q = 0
    BY <2>1, Remainders
  <2> QED
    BY <1>3, <2>2
<1>5. CASE d <= q
  <2>1. d * d <= d * q
    BY <1>1, <1>5
  <2> QED
    BY <1>1, <2>1 DEF BruteForceIsPrime
<1>6. CASE q < d
  <2>1. q * q <= q * d
    BY <1>1, <1>6
  <2> QED
    BY <1>1, <1>3, <1>4, <2>1 DEF BruteForceIsPrime
<1> QED
  BY <1>1, <1>5, <1>6

\* Modulo a prime, a product is 0 only if a factor is.
LEMMA NoZeroProduct ==
  ASSUME NEW p \in Nat, p > 1, BruteForceIsPrime(p),
         NEW a \in Nat, NEW b \in Nat, (a * b) % p = 0
  PROVE  a % p = 0 \/ b % p = 0
PROOF
<1> SUFFICES ASSUME a % p # 0 PROVE b % p = 0
  OBVIOUS
<1> DEFINE S == {k \in 1 .. p - 1 : \E t \in Int : k * b = p * t}
<1>1. p \in Nat \ {0}
  OBVIOUS
<1>2. S # {}
  <2> DEFINE q == a \div p
             r == a % p
             t == (a * b) \div p
  <2>1. q \in Nat /\ r \in 1 .. p - 1 /\ a = p * q + r
    <3>1. q \in Nat /\ r \in 0 .. p - 1 /\ a = p * q + r
      BY <1>1, Remainders
    <3>2. r # 0
      OBVIOUS
    <3> HIDE DEF q, r
    <3> QED
      BY <3>1, <3>2
  <2>2. t \in Nat /\ a * b = p * t
    <3>1. a * b \in Nat
      OBVIOUS
    <3>2. t \in Nat /\ a * b = p * t + ((a * b) % p)
      BY <1>1, <3>1, Remainders
    <3> QED
      BY <3>2
  <2> HIDE DEF q, r, t
  <2>3. a * b = p * (q * b) + r * b
    BY <2>1
  <2>4. r * b = p * (t - q * b) /\ t - q * b \in Int
    BY <2>1, <2>2, <2>3
  <2> QED
    BY <2>1, <2>4
<1>3. PICK k \in S : \A j \in S : k <= j
  <2>1. S \in SUBSET (0 .. p) /\ p \in Nat
    OBVIOUS
  <2> HIDE DEF S
  <2> QED
    BY <1>2, <2>1, Least
<1>4. PICK t \in Int : k * b = p * t
  OBVIOUS
<1> DEFINE q == p \div k
           r == p % k
<1>5. k \in 1 .. p - 1 /\ q \in Nat /\ r \in 0 .. k - 1 /\ p = k * q + r
  <2>1. k \in Nat \ {0} /\ k \in 1 .. p - 1
    OBVIOUS
  <2> QED
    BY <2>1, Remainders
<1>6. r = 0
  <2> SUFFICES ASSUME r # 0 PROVE FALSE
    OBVIOUS
  <2> HIDE DEF q, r
  <2>1. r * b = p * b - (k * b) * q
    BY <1>5
  <2>2. r * b = p * (b - t * q) /\ b - t * q \in Int
    BY <1>4, <1>5, <2>1
  <2>3. r \in 1 .. p - 1
    BY <1>5
  <2>4. \E s \in Int : r * b = p * s
    BY <2>2
  <2>5. r \in S
    BY <2>3, <2>4
  <2>6. ~ (k <= r)
    BY <1>5
  <2> QED
    BY <1>3, <2>5, <2>6
<1>7. k = 1
  <2>1. k # 1 => k \in 2 .. p - 1
    BY <1>5
  <2>2. p % k = 0
    BY <1>6
  <2> QED
    BY <2>1, <2>2, TrialDivision
<1>8. b = p * t + 0
  BY <1>4, <1>7
<1>9. (p * t + 0) % p = 0
  <2>1. t \in Int /\ 0 \in 0 .. p - 1
    BY <1>1
  <2> QED
    BY <1>1, <2>1, Remainders
<1> QED
  BY <1>8, <1>9

\* The square of what a number lacks to p is, modulo p, the number's.
LEMMA SquareOfOpposite ==
  ASSUME NEW p \in Nat \ {0}, NEW z \in 1 .. p - 1
  PROVE  ((p - z) * (p - z)) % p = (z * z) % p
PROOF
<1>1. (p - z) * (p - z) \in Nat /\ z * z \in Nat
  OBVIOUS
<1>2. (p - z) * (p - z) - z * z = p * (p - 2 * z) + 0
  OBVIOUS
<1>3. p - 2 * z \in Int /\ 0 \in 0 .. p - 1
  OBVIOUS
<1>4. (p * (p - 2 * z) + 0) % p = 0
  BY <1>3, Remainders
<1>5. ((p - z) * (p - z) - z * z) % p = 0
  BY <1>2, <1>4
<1> QED
  BY <1>1, <1>5, Congruent

\* A multiple of p between 0 and 2 * p is p.
LEMMA OnlyMultiple ==
  ASSUME NEW p \in Nat \ {0}, NEW a \in 1 .. 2 * p - 1, a % p = 0
  PROVE  a = p
PROOF
<1> DEFINE q == a \div p
<1>1. q \in Nat /\ a = p * q
  <2>1. a \in Nat
    OBVIOUS
  <2>2. q \in Nat /\ a = p * q + (a % p)
    BY <2>1, Remainders
  <2> QED
    BY <2>2
<1> HIDE DEF q
<1>2. p * (q - 1) < p /\ p * (q - 1) > 0 - p
  <2>1. p * (q - 1) = a - p
    BY <1>1
  <2> QED
    BY <2>1
<1>3. q - 1 = 0
  BY <1>1, <1>2, SmallMultiple
<1> QED
  BY <1>1, <1>3

\* A square has no roots modulo a prime but one and its opposite.
LEMMA TwoRoots ==
  ASSUME NEW p \in Nat, p > 1, BruteForceIsPrime(p),
         NEW y \in 1 .. p - 1, NEW z \in 1 .. p - 1,
         (z * z) % p = (y * y) % p
  PROVE  z = y \/ z = p - y
PROOF
<1> DEFINE a == z + y
           b == p + z - y
<1>1. p \in Nat \ {0} /\ z * z \in Nat /\ y * y \in Nat
  OBVIOUS
<1>2. (z * z - y * y) % p = 0
  BY <1>1, Congruent
<1> DEFINE k == (z * z - y * y) \div p
<1>3. k \in Int /\ z * z - y * y = p * k
  BY <1>2
<1> HIDE DEF k
<1>4. a * b = p * (z + y) + (z * z - y * y)
  OBVIOUS
<1>5. a * b = p * (z + y + k) + 0 /\ z + y + k \in Int /\ 0 \in 0 .. p - 1
  BY <1>3, <1>4
<1>6. (a * b) % p = 0
  <2> HIDE DEF a, b
  <2>1. (p * (z + y + k) + 0) % p = 0
    BY <1>1, <1>5, Remainders
  <2> QED
    BY <1>5, <2>1
<1>7. a \in 1 .. 2 * p - 1 /\ b \in 1 .. 2 * p - 1
  OBVIOUS
<1>8. a = p \/ b = p
  <2> HIDE DEF a, b
  <2>1. a \in Nat /\ b \in Nat
    BY <1>7
  <2>2. a % p = 0 \/ b % p = 0
    BY <1>6, <2>1, NoZeroProduct
  <2> QED
    BY <1>1, <1>7, <2>2, OnlyMultiple
<1> QED
  BY <1>8

-----------------------------------------------------------------------------
(* The iterator over the points of a curve. *)

OnCurve(c, x, y) == (y * y - RightSide(c, x)) % c.m = 0

\* The points of a curve with two coordinates above 0.
InnerPoints(c) ==
  {q \in (1 .. c.m - 1) \X (1 .. c.m - 1) : OnCurve(c, q[1], q[2])}

\* Those that the iterator has been at when it is here.
Before(c, it) ==
  {q \in InnerPoints(c) : q[1] < it.x \/ (q[1] = it.x /\ q[2] < it.y)}

\* Negate gives what a number lacks to the modulus.
LEMMA OppositeIs ==
  ASSUME NEW p \in Nat, NEW c, c.m = p, NEW y \in 1 .. p - 1
  PROVE  Negate(c, y) = p - y
PROOF
<1>1. p \in Nat \ {0} /\ y \in 0 .. p - 1 /\ p - y \in 0 .. p - 1
  OBVIOUS
<1>2. y % p = y
  BY <1>1
<1>3. (p - y) % p = p - y
  BY <1>1
<1> QED
  BY <1>2, <1>3 DEF Negate

\* UpdateCurrentY finds the lesser of the two roots, or there are none.
LEMMA CurrentYIsRoot ==
  ASSUME NEW p \in Nat, p > 1, BruteForceIsPrime(p),
         NEW c \in Config(p), NEW x \in 1 .. p - 1
  PROVE  \/ /\ CurrentY(c, x) = 0
            /\ \A z \in 1 .. p - 1 : ~OnCurve(c, x, z)
         \/ /\ CurrentY(c, x) \in 1 .. p - 1
            /\ CurrentY(c, x) <= p - CurrentY(c, x)
            /\ \A z \in 1 .. p - 1 : OnCurve(c, x, z) <=>
                 z = CurrentY(c, x) \/ z = p - CurrentY(c, x)
PROOF
<1> DEFINE R == RightSide(c, x)
           half == p \div 2
           Roots == {r \in 1 .. half : (r * r) % p = R % p}
           root == SquareRootModulus(R, p)
<1>1. /\ c.m = p /\ c.a \in 1 .. p - 1 /\ c.b \in 1 .. p - 1
      /\ p \in Nat \ {0} /\ x \in Nat /\ 0 < x /\ x < p
  BY DEF Config
<1>2. R \in Nat
  <2>1. c.a \in Nat /\ c.b \in Nat
    BY <1>1
  <2>2. x * x * x \in Nat /\ c.a * x \in Nat
    BY <1>1, <2>1
  <2> QED
    BY <2>1, <2>2 DEF RightSide
<1>3. half \in Nat /\ 2 * half <= p /\ p <= 2 * half + 1
  OBVIOUS
<1> HIDE DEF R, half
<1>4. \A z \in 1 .. p - 1 : OnCurve(c, x, z) <=> (z * z) % p = R % p
  <2> SUFFICES ASSUME NEW z \in 1 .. p - 1
               PROVE  OnCurve(c, x, z) <=> (z * z) % p = R % p
    OBVIOUS
  <2>1. z * z \in Nat
    OBVIOUS
  <2>2. (z * z - R) % p = 0 <=> (z * z) % p = R % p
    BY <1>1, <1>2, <2>1, Congruent
  <2> QED
    BY <1>1, <2>2 DEF OnCurve, R
<1>5. root = IF Roots = {} THEN 0
             ELSE CHOOSE r \in Roots : \A q \in Roots : r <= q
  BY DEF SquareRootModulus, half
<1>6. CurrentY(c, x) =
        IF root # 0 /\ Negate(c, root) < root THEN Negate(c, root) ELSE root
  BY <1>1 DEF CurrentY, R
<1> HIDE DEF root
<1>7. CASE Roots = {}
  <2>1. CurrentY(c, x) = 0
    BY <1>5, <1>6, <1>7
  <2>2. ASSUME NEW z \in 1 .. p - 1, OnCurve(c, x, z)
        PROVE  FALSE
    <3>1. (z * z) % p = R % p
      BY <1>4, <2>2
    <3>2. CASE z <= half
      <4>1. z \in Roots
        BY <1>3, <3>1, <3>2
      <4> QED
        BY <1>7, <4>1
    <3>3. CASE z > half
      <4>1. p - z \in 1 .. half
        BY <1>3, <3>3
      <4>2. ((p - z) * (p - z)) % p = R % p
        BY <1>1, <3>1, SquareOfOpposite
      <4>3. p - z \in Roots
        BY <4>1, <4>2
      <4> QED
        BY <1>7, <4>3
    <3> QED
      BY <1>3, <3>2, <3>3
  <2> QED
    BY <2>1, <2>2
<1>8. CASE Roots # {}
  <2>1. root \in Roots
    <3>1. Roots \in SUBSET (0 .. half)
      OBVIOUS
    <3> HIDE DEF Roots
    <3>2. \E r \in Roots : \A q \in Roots : r <= q
      BY <1>3, <1>8, <3>1, Least
    <3> QED
      BY <1>5, <1>8, <3>2
  <2>2. root \in 1 .. p - 1 /\ root <= p - root /\ (root * root) % p = R % p
    BY <1>3, <2>1
  <2>3. Negate(c, root) = p - root
    BY <1>1, <2>2, OppositeIs
  <2>4. CurrentY(c, x) = root
    BY <1>6, <2>2, <2>3
  <2>5. \A z \in 1 .. p - 1 : OnCurve(c, x, z) <=> z = root \/ z = p - root
    <3> SUFFICES ASSUME NEW z \in 1 .. p - 1
                 PROVE  (z * z) % p = R % p <=> z = root \/ z = p - root
      BY <1>4
    <3>1. (z * z) % p = R % p => z = root \/ z = p - root
      BY <2>2, TwoRoots
    <3>2. z = p - root => (z * z) % p = R % p
      BY <1>1, <2>2, SquareOfOpposite
    <3> QED
      BY <2>2, <3>1, <3>2
  <2> QED
    BY <2>2, <2>4, <2>5
<1> QED
  BY <1>7, <1>8

\* The iterator goes to the next x that has a y, or to the end.
LEMMA AtNext ==
  ASSUME NEW p \in Nat, p > 1, NEW c \in Config(p), NEW x \in 1 .. p
  PROVE  \E n \in x .. p :
           /\ At(c, x) = [x |-> n, y |-> CurrentY(c, n)]
           /\ n = p \/ CurrentY(c, n) # 0
           /\ \A k \in x .. n - 1 : CurrentY(c, k) = 0
PROOF
<1> DEFINE IsNext(n) == /\ n = p \/ CurrentY(c, n) # 0
                        /\ \A k \in x .. n - 1 : CurrentY(c, k) = 0
           S == {n \in x .. p : n = p \/ CurrentY(c, n) # 0}
<1>1. c.m = p
  BY DEF Config
<1>2. PICK n \in S : \A k \in S : n <= k
  <2>1. S \in SUBSET (0 .. p) /\ p \in S
    OBVIOUS
  <2> HIDE DEF S
  <2> QED
    BY <2>1, Least
<1>3. \A k \in x .. n - 1 : CurrentY(c, k) = 0
  BY <1>2
<1>4. \E k \in x .. p : IsNext(k)
  BY <1>3
<1> DEFINE next == CHOOSE k \in x .. p : IsNext(k)
<1>5. next \in x .. p /\ IsNext(next)
  <2> HIDE DEF IsNext
  <2> QED
    BY <1>4
<1>6. At(c, x) = [x |-> next, y |-> CurrentY(c, next)]
  BY <1>1 DEF At
<1> HIDE DEF next
<1> QED
  BY <1>5, <1>6

\* A place of the iterator: at a point, or at the end.
Place(c, it) ==
  /\ it = [x |-> it.x, y |-> it.y]
  /\ \/ it.x = c.m
     \/ it.x \in 1 .. c.m - 1 /\ it.y \in 1 .. c.m - 1 /\ OnCurve(c, it.x, it.y)

\* There it has been at the points with an x before this one, and no other.
LEMMA BeforeAt ==
  ASSUME NEW p \in Nat, p > 1, BruteForceIsPrime(p),
         NEW c \in Config(p), NEW x \in 1 .. p
  PROVE  /\ Place(c, At(c, x))
         /\ Before(c, At(c, x)) = {q \in InnerPoints(c) : q[1] < x}
PROOF
<1>1. c.m = p
  BY DEF Config
<1>2. PICK n \in x .. p :
        /\ At(c, x) = [x |-> n, y |-> CurrentY(c, n)]
        /\ n = p \/ CurrentY(c, n) # 0
        /\ \A k \in x .. n - 1 : CurrentY(c, k) = 0
  BY AtNext
<1>3. /\ At(c, x).x = n /\ At(c, x).y = CurrentY(c, n)
      /\ At(c, x) = [x |-> At(c, x).x, y |-> At(c, x).y]
  BY <1>2
<1>4. \A q \in InnerPoints(c) :
        /\ q[1] \in 1 .. p - 1 /\ q[2] \in 1 .. p - 1
        /\ OnCurve(c, q[1], q[2])
  BY <1>1 DEF InnerPoints
<1>5. Place(c, At(c, x))
  <2>1. CASE n = p
    BY <1>1, <1>3, <2>1 DEF Place
  <2>2. CASE n # p
    <3>1. n \in 1 .. p - 1 /\ CurrentY(c, n) # 0
      BY <1>2, <2>2
    <3>2. CurrentY(c, n) \in 1 .. p - 1 /\ OnCurve(c, n, CurrentY(c, n))
      BY <3>1, CurrentYIsRoot
    <3> QED
      BY <1>1, <1>3, <3>1, <3>2 DEF Place
  <2> QED
    BY <2>1, <2>2
<1>6. ASSUME NEW q \in InnerPoints(c)
      PROVE  q \in Before(c, At(c, x)) <=> q[1] < x
  <2>1. q \in Before(c, At(c, x))
          <=> q[1] < n \/ (q[1] = n /\ q[2] < CurrentY(c, n))
    BY <1>3 DEF Before
  <2>2. CASE q[1] < x
    BY <1>2, <1>4, <2>1, <2>2
  <2>3. CASE q[1] \in x .. n - 1
    <3>1. CurrentY(c, q[1]) = 0
      BY <1>2, <2>3
    <3>2. FALSE
      BY <1>4, <3>1, CurrentYIsRoot
    <3> QED
      BY <3>2
  <2>4. CASE q[1] = n
    <3>1. n \in 1 .. p - 1 /\ CurrentY(c, n) # 0
      BY <1>2, <1>4, <2>4
    <3>2. q[2] = CurrentY(c, n) \/ q[2] = p - CurrentY(c, n)
      BY <1>4, <2>4, <3>1, CurrentYIsRoot
    <3>3. CurrentY(c, n) \in 1 .. p - 1 /\ CurrentY(c, n) <= p - CurrentY(c, n)
      BY <3>1, CurrentYIsRoot
    <3>4. ~(q[2] < CurrentY(c, n))
      BY <3>2, <3>3
    <3> QED
      BY <1>2, <2>1, <2>4, <3>4
  <2>5. CASE q[1] > n
    BY <1>2, <1>4, <2>1, <2>5
  <2> QED
    BY <1>2, <1>4, <2>2, <2>3, <2>4, <2>5
<1>7. Before(c, At(c, x)) \subseteq InnerPoints(c)
  BY DEF Before
<1> QED
  BY <1>5, <1>6, <1>7

\* A step of the iterator leaves the point it is at behind, and only that one.
LEMMA BeforeAdvance ==
  ASSUME NEW p \in Nat, p > 1, BruteForceIsPrime(p),
         NEW c \in Config(p),
         NEW x \in 1 .. p - 1, NEW y \in 1 .. p - 1, OnCurve(c, x, y),
         NEW it, it = [x |-> x, y |-> y]
  PROVE  /\ Place(c, Advance(c, it))
         /\ Before(c, Advance(c, it)) = Before(c, it) \cup {<<x, y>>}
         /\ <<x, y>> \notin Before(c, it)
PROOF
<1> DEFINE root == CurrentY(c, x)
<1>1. c.m = p
  BY DEF Config
<1>2. <<x, y>> \in InnerPoints(c)
  BY <1>1 DEF InnerPoints
<1>3. \A q \in InnerPoints(c) :
        /\ q[1] \in 1 .. p - 1 /\ q[2] \in 1 .. p - 1
        /\ OnCurve(c, q[1], q[2]) /\ q = <<q[1], q[2]>>
  BY <1>1 DEF InnerPoints
<1>4. /\ root \in 1 .. p - 1 /\ root <= p - root
      /\ \A z \in 1 .. p - 1 : OnCurve(c, x, z) <=> z = root \/ z = p - root
  BY CurrentYIsRoot
<1> HIDE DEF root
<1>5. y = root \/ y = p - root
  BY <1>4
<1>6. Negate(c, y) = p - y
  BY <1>1, OppositeIs
<1>7. it.x = x /\ it.y = y
  OBVIOUS
<1>8. <<x, y>> \notin Before(c, it)
  BY <1>7 DEF Before
<1>9. CASE p - y > y
  <2>1. Advance(c, it) = [x |-> x, y |-> p - y]
    BY <1>6, <1>7, <1>9 DEF Advance
  <2>2. y = root
    BY <1>4, <1>5, <1>9
  <2>3. Place(c, Advance(c, it))
    <3>1. p - y \in 1 .. p - 1 /\ OnCurve(c, x, p - y)
      BY <1>4, <2>2
    <3>2. /\ Advance(c, it).x = x /\ Advance(c, it).y = p - y
          /\ Advance(c, it) = [x |-> Advance(c, it).x, y |-> Advance(c, it).y]
      BY <2>1
    <3> QED
      BY <1>1, <3>1, <3>2 DEF Place
  <2>4. ASSUME NEW q \in InnerPoints(c)
        PROVE  q \in Before(c, Advance(c, it))
                 <=> q \in Before(c, it) \/ q = <<x, y>>
    <3>1. q \in Before(c, Advance(c, it))
            <=> q[1] < x \/ (q[1] = x /\ q[2] < p - y)
      BY <2>1 DEF Before
    <3>2. q \in Before(c, it) <=> q[1] < x \/ (q[1] = x /\ q[2] < y)
      BY <1>7 DEF Before
    <3>3. q[1] = x => q[2] = y \/ q[2] = p - y
      BY <1>3, <1>4, <2>2
    <3>4. q = <<x, y>> <=> q[1] = x /\ q[2] = y
      BY <1>3
    <3>5. q[1] \in 1 .. p - 1 /\ q[2] \in 1 .. p - 1
      BY <1>3
    <3> QED
      BY <1>9, <3>1, <3>2, <3>3, <3>4, <3>5
  <2> QED
    BY <1>2, <1>8, <2>3, <2>4 DEF Before
<1>10. CASE ~(p - y > y)
  <2>1. Advance(c, it) = At(c, x + 1)
    BY <1>6, <1>7, <1>10 DEF Advance
  <2>2. x + 1 \in 1 .. p
    OBVIOUS
  <2>3. /\ Place(c, Advance(c, it))
        /\ Before(c, Advance(c, it)) = {q \in InnerPoints(c) : q[1] < x + 1}
    BY <2>1, <2>2, BeforeAt
  <2>4. ASSUME NEW q \in InnerPoints(c)
        PROVE  q[1] < x + 1 <=> q \in Before(c, it) \/ q = <<x, y>>
    <3>1. q \in Before(c, it) <=> q[1] < x \/ (q[1] = x /\ q[2] < y)
      BY <1>7 DEF Before
    <3>2. q[1] = x => q[2] = root \/ q[2] = p - root
      BY <1>3, <1>4
    <3>3. q[1] = x => q[2] <= y
      BY <1>4, <1>5, <1>10, <3>2
    <3>4. q = <<x, y>> <=> q[1] = x /\ q[2] = y
      BY <1>3
    <3>5. q[1] \in 1 .. p - 1 /\ q[2] \in 1 .. p - 1
      BY <1>3
    <3> QED
      BY <3>1, <3>3, <3>4, <3>5
  <2> QED
    BY <1>2, <1>8, <2>3, <2>4 DEF Before
<1> QED
  BY <1>9, <1>10

-----------------------------------------------------------------------------
(* The points PickRandomG chooses from. *)

Seen == {all[i] : i \in DOMAIN all}
NoneTwice == \A i, j \in DOMAIN all : all[i] = all[j] => i = j

\* While the program iterates, it has seen the points before the iterator.
IterInv ==
  /\ m \in Moduli
  /\ phase = "generate" => all = <<>>
  /\ phase = "iterate" =>
       /\ group \in Config(m)
       /\ Place(group, iterator)
       /\ all \in Seq(Point)
       /\ Seen = Before(group, iterator)
       /\ NoneTwice

\* The modulus is a prime.
LEMMA ModulusIsPrime ==
  ASSUME m \in Moduli
  PROVE  m \in Nat /\ m > 1 /\ BruteForceIsPrime(m)
  BY ModuliAssumption

LEMMA IterGenerate == IterInv /\ Generate => IterInv'
PROOF
<1> SUFFICES ASSUME IterInv, Generate PROVE IterInv'
  OBVIOUS
<1>1. /\ phase' = "iterate" /\ m' = m /\ m \in Moduli
      /\ all = <<>> /\ all' = <<>>
  BY DEF Generate, IterInv
<1>2. PICK drawn \in RandomGenerate(m) :
        group' = drawn /\ iterator' = Begin(drawn)
  BY DEF Generate
<1>3. drawn \in Config(m)
  BY DEF RandomGenerate
<1>4. m \in Nat /\ m > 1 /\ BruteForceIsPrime(m) /\ 1 \in 1 .. m
  BY <1>1, ModulusIsPrime
<1>5. /\ Place(drawn, At(drawn, 1))
      /\ Before(drawn, At(drawn, 1)) = {q \in InnerPoints(drawn) : q[1] < 1}
  BY <1>3, <1>4, BeforeAt
<1>6. {q \in InnerPoints(drawn) : q[1] < 1} = {}
  <2>1. drawn.m = m
    BY <1>3 DEF Config
  <2>2. \A q \in InnerPoints(drawn) : q[1] \in 1 .. m - 1
    BY <2>1 DEF InnerPoints
  <2> QED
    BY <1>4, <2>2
<1>7. /\ Place(group, iterator)'
      /\ Before(group, iterator)' = {}
  BY <1>2, <1>5, <1>6 DEF Begin, Place, Before, InnerPoints
<1>8. Seen' = {} /\ NoneTwice' /\ all' \in Seq(Point)'
  BY <1>1 DEF Seen, NoneTwice
<1> QED
  BY <1>1, <1>2, <1>3, <1>7, <1>8 DEF IterInv

LEMMA IterIterate == IterInv /\ Iterate => IterInv'
PROOF
<1> SUFFICES ASSUME IterInv, Iterate PROVE IterInv'
  OBVIOUS
<1> DEFINE x == iterator.x
           y == iterator.y
<1>1. /\ phase = "iterate" /\ phase' = "iterate" /\ m' = m /\ group' = group
      /\ ~AtEnd(group, iterator)
      /\ all' = Append(all, <<x, y>>)
      /\ iterator' = Advance(group, iterator)
  BY DEF Iterate
<1>2. /\ m \in Moduli /\ group \in Config(m) /\ Place(group, iterator)
      /\ all \in Seq(Point) /\ Seen = Before(group, iterator) /\ NoneTwice
  BY <1>1 DEF IterInv
<1>3. m \in Nat /\ m > 1 /\ BruteForceIsPrime(m) /\ group.m = m
  BY <1>2, ModulusIsPrime DEF Config
<1>4. /\ x \in 1 .. m - 1 /\ y \in 1 .. m - 1 /\ OnCurve(group, x, y)
      /\ iterator = [x |-> x, y |-> y]
  BY <1>1, <1>2, <1>3 DEF AtEnd, Place
<1>5. /\ Place(group, Advance(group, iterator))
      /\ Before(group, Advance(group, iterator)) =
           Before(group, iterator) \cup {<<x, y>>}
      /\ <<x, y>> \notin Before(group, iterator)
  <2> HIDE DEF x, y
  <2> QED
    BY <1>2, <1>3, <1>4, BeforeAdvance
<1>6. <<x, y>> \in Point
  BY <1>3, <1>4 DEF Point
<1>7. /\ all' \in Seq(Point) /\ DOMAIN all' = (DOMAIN all) \cup {Len(all) + 1}
      /\ \A i \in DOMAIN all : all'[i] = all[i]
      /\ all'[Len(all) + 1] = <<x, y>>
      /\ Len(all) + 1 \notin DOMAIN all
  <2> HIDE DEF x, y
  <2> QED
    BY <1>1, <1>2, <1>6
<1>8. Seen' = Seen \cup {<<x, y>>}
  <2> HIDE DEF x, y
  <2> QED
    BY <1>7 DEF Seen
<1>9. \A i \in DOMAIN all : all[i] # <<x, y>>
  BY <1>2, <1>5 DEF Seen
<1>10. NoneTwice'
  <2> HIDE DEF x, y
  <2> QED
    BY <1>2, <1>7, <1>9 DEF NoneTwice
<1>11. Place(group, iterator)' /\ Before(group, iterator)' = Seen'
  BY <1>1, <1>2, <1>5, <1>8 DEF Place, Before, InnerPoints
<1>12. Point' = Point
  BY <1>1 DEF Point
<1> QED
  BY <1>1, <1>2, <1>7, <1>10, <1>11, <1>12 DEF IterInv

\* The other steps leave the iteration or forget it.
LEMMA IterOthers ==
  ASSUME IterInv, m' = m,
         \/ phase' = "generate" /\ all' = <<>>
         \/ phase' \notin {"generate", "iterate"}
  PROVE  IterInv'
  BY DEF IterInv

LEMMA IterNext == IterInv /\ [Next]_vars => IterInv'
PROOF
<1> SUFFICES ASSUME IterInv, [Next]_vars PROVE IterInv'
  OBVIOUS
<1>1. CASE Generate
  BY <1>1, IterGenerate
<1>2. CASE Iterate
  BY <1>2, IterIterate
<1>3. CASE UnableToPick
  BY <1>3, IterOthers DEF UnableToPick, Count, Forget
<1>4. CASE TooLow
  BY <1>4, IterOthers DEF TooLow, Forget
<1>5. CASE Pick
  BY <1>5, IterOthers DEF Pick
<1>6. CASE Exchange
  <2>1. m' = m
    BY <1>6 DEF Exchange
  <2>2. \/ Count("exchangeMathFails")
        \/ phase' = "sign"
    BY <1>6 DEF Exchange
  <2> QED
    BY <2>1, <2>2, IterOthers DEF Count, Forget
<1>7. CASE SignMessage
  <2>1. m' = m
    BY <1>7 DEF SignMessage
  <2>2. \/ Count("signatureNotCalculatedFails")
        \/ phase' = "check"
    BY <1>7 DEF SignMessage
  <2> QED
    BY <2>1, <2>2, IterOthers DEF Count, Forget
<1>8. CASE CheckSignature
  <2>1. m' = m /\ phase' = "generate" /\ all' = <<>>
    BY <1>8 DEF CheckSignature, Count, Forget
  <2> QED
    BY <2>1, IterOthers
<1>9. CASE UNCHANGED vars
  <2>1. UNCHANGED <<m, phase, group, iterator, all>>
    BY <1>9 DEF vars, test
  <2>2. /\ Place(group, iterator)' <=> Place(group, iterator)
        /\ Before(group, iterator)' = Before(group, iterator)
    BY <2>1 DEF Place, Before, InnerPoints, OnCurve, RightSide
  <2>3. Seen' = Seen /\ (NoneTwice' <=> NoneTwice) /\ Point' = Point
    BY <2>1 DEF Seen, NoneTwice, Point
  <2> QED
    BY <2>1, <2>2, <2>3 DEF IterInv
<1> QED
  BY <1>1, <1>2, <1>3, <1>4, <1>5, <1>6, <1>7, <1>8, <1>9 DEF Next

\* At the end, before the iterator is every point of the two coordinates.
LEMMA IterComplete == IterInv => IteratesInnerPoints
PROOF
<1> SUFFICES ASSUME IterInv, Iterated
             PROVE  /\ Seen = {p \in Curve : p[1] # 0 /\ p[2] # 0}
                    /\ NoneTwice
  BY DEF IteratesInnerPoints, Seen, NoneTwice
<1>1. /\ m \in Moduli /\ group \in Config(m) /\ iterator.x = group.m
      /\ Seen = Before(group, iterator) /\ NoneTwice
  BY DEF IterInv, Iterated, AtEnd
<1>2. m \in Nat /\ group.m = m
  BY <1>1, ModulusIsPrime DEF Config
<1>3. Before(group, iterator) = InnerPoints(group)
  <2>1. \A q \in InnerPoints(group) : q[1] < iterator.x
    BY <1>1, <1>2 DEF InnerPoints
  <2> QED
    BY <2>1 DEF Before
<1>4. ASSUME NEW p
      PROVE  p \in InnerPoints(group) <=> p \in Curve /\ p[1] # 0 /\ p[2] # 0
  <2>1. p \in (1 .. m - 1) \X (1 .. m - 1)
          <=> /\ p \in (0 .. m - 1) \X (0 .. m - 1)
              /\ p[1] # 0 /\ p[2] # 0
    BY <1>2
  <2> QED
    BY <1>2, <2>1 DEF InnerPoints, OnCurve, Curve, Point
<1> QED
  BY <1>1, <1>3, <1>4

\* PickRandomG chooses among all the points of the curve with two coordinates
\* above 0, none of them twice, whatever the prime and the curve.
THEOREM PointsIterated == Spec => []IteratesInnerPoints
PROOF
<1>1. Init => IterInv
  BY DEF Init, IterInv
<1>2. IterInv /\ [Next]_vars => IterInv'
  BY IterNext
<1>3. IterInv => IteratesInnerPoints
  BY IterComplete
<1> QED
  BY <1>1, <1>2, <1>3, PTL DEF Spec

-----------------------------------------------------------------------------
(* The line through two points of a curve.                                 *)

\* What the trial division lets pass is prime.
LEMMA TrialProvesPrime ==
  ASSUME NEW p \in Nat, p > 1, BruteForceIsPrime(p)
  PROVE  IsPrime(p)
  BY TrialDivision DEF IsPrime

\* What addition of two points computes: a slope, and where its line meets the
\* curve again.
Line(c, P, Q, s) ==
  /\ P # Q => P[1] # Q[1] /\ Alike(c.m, s * (P[1] - Q[1]), P[2] - Q[2])
  /\ P = Q => ~Alike(c.m, 2 * P[2], 0)
              /\ Alike(c.m, s * (2 * P[2]), 3 * P[1] * P[1] + c.a)

Meets(c, P, Q, s, R) ==
  /\ R \in Pairs(c)
  /\ Alike(c.m, R[1], s * s - P[1] - Q[1])
  /\ Alike(c.m, R[2], 0 - (P[2] + s * (R[1] - P[1])))

\* mod_inverse gives an inverse, or 0.
LEMMA InverseFound ==
  ASSUME NEW p \in Nat, p > 1, NEW e \in Int
  PROVE  LET i == ModInverse(e % p, p) IN
         /\ i \in 0 .. p - 1
         /\ i # 0 => Alike(p, e * i, 1) /\ ~Alike(p, e, 0)
PROOF
<1> DEFINE r == e % p
           I == {i \in 1 .. p - 1 : (r * i) % p = 1}
           i == ModInverse(r, p)
<1>1. p \in Nat \ {0} /\ 1 \in 0 .. p - 1
  OBVIOUS
<1>2. r \in 0 .. p - 1 /\ Alike(p, r, e) /\ Alike(p, e, r)
  <2>1. r \in 0 .. p - 1 /\ Alike(p, r, e)
    BY <1>1, AlikeRemainder
  <2>2. r \in Int /\ p \in Int
    BY <2>1
  <2> HIDE DEF r
  <2> QED
    BY <2>1, <2>2, AlikeBack
<1> HIDE DEF r
<1>3. CASE I = {}
  <2>1. i = 0
    BY <1>3 DEF ModInverse
  <2> QED
    BY <1>1, <2>1 DEF r
<1>4. CASE I # {}
  <2>1. i \in I
    BY <1>4 DEF ModInverse
  <2>2. i \in 1 .. p - 1 /\ (r * i) % p = 1
    BY <2>1
  <2> HIDE DEF i, I
  <2>3. r * i \in Int /\ e * i \in Int /\ p \in Int /\ i \in Int
    BY <1>2, <2>2
  <2>4. Alike(p, 1, r * i)
    BY <1>1, <2>2, <2>3, AlikeRemainder
  <2>5. Alike(p, e * i, r * i)
    <3>1. Alike(p, i, i) /\ r \in Int
      BY <1>2, <2>3, AlikeSelf
    <3> QED
      BY <1>2, <2>3, <3>1, AlikeProduct
  <2>6. Alike(p, e * i, 1)
    BY <2>3, <2>4, <2>5, AlikeBack, AlikeOn
  <2>7. ASSUME Alike(p, e, 0) PROVE FALSE
    <3>1. Alike(p, e * i, 0 * i) /\ 0 * i = 0
      BY <2>3, <2>7, AlikeProduct, AlikeSelf
    <3>2. Alike(p, 1, 0)
      BY <2>3, <2>6, <3>1, AlikeBack, AlikeOn
    <3> QED
      BY <1>1, <3>2, AlikeSmall
  <2> QED
    BY <2>2, <2>6, <2>7 DEF i, r
<1> QED
  BY <1>3, <1>4

\* Negate gives the opposite.
LEMMA NegateIs ==
  ASSUME NEW p \in Nat, p > 1, NEW c, c.m = p, NEW y \in Int
  PROVE  Negate(c, y) \in 0 .. p - 1 /\ Alike(p, Negate(c, y), 0 - y)
PROOF
<1>1. p \in Nat \ {0} /\ p \in Int
  OBVIOUS
<1> DEFINE r == y % p
           e == p - r
<1>2. r \in 0 .. p - 1 /\ Alike(p, r, y)
  BY <1>1, AlikeRemainder
<1>3. Alike(p, e, 0 - y)
  <2>1. PICK k \in Int : r - y = p * k
    BY <1>2 DEF Alike
  <2>2. e - (0 - y) = p * (1 - k) /\ 1 - k \in Int
    <3> HIDE DEF r
    <3> QED
      BY <1>2, <2>1
  <2> QED
    BY <2>2 DEF Alike
<1>4. e \in Int /\ e % p \in 0 .. p - 1 /\ Alike(p, e % p, e)
  <2> HIDE DEF r
  <2>1. e \in Int
    BY <1>1, <1>2
  <2> HIDE DEF e
  <2> QED
    BY <1>1, <2>1, AlikeRemainder
<1>5. Negate(c, y) = e % p
  BY DEF Negate
<1> QED
  <2> HIDE DEF e
  <2>1. 0 - y \in Int /\ e % p \in Int
    BY <1>4
  <2> QED
    BY <1>1, <1>3, <1>4, <1>5, <2>1, AlikeOn

\* What is known of pairs of coordinates.
LEMMA PairsAre ==
  ASSUME NEW p \in Nat, p > 1, NEW c \in Config(p)
  PROVE  /\ c.m = p /\ c.a \in 1 .. p - 1 /\ c.b \in 1 .. p - 1
         /\ Pairs(c) = (0 .. p - 1) \X (0 .. p - 1)
         /\ \A P \in Pairs(c) : P[1] \in 0 .. p - 1 /\ P[2] \in 0 .. p - 1 /\ P = <<P[1], P[2]>>
         /\ \A x, y \in 0 .. p - 1 : <<x, y>> \in Pairs(c) /\ <<x, y>> # None
         /\ None \notin Pairs(c)
PROOF
<1>1. c.m = p /\ c.a \in 1 .. p - 1 /\ c.b \in 1 .. p - 1
  BY DEF Config
<1>2. Pairs(c) = (0 .. p - 1) \X (0 .. p - 1)
  BY <1>1 DEF Pairs
<1> QED
  BY <1>1, <1>2 DEF None

\* The negative of a pair is one, with the opposite y.
LEMMA NegatePointIs ==
  ASSUME NEW p \in Nat, p > 1, NEW c \in Config(p), NEW x \in 0 .. p - 1, NEW y \in Int
  PROVE  /\ NegatePoint(c, <<x, y>>) \in Pairs(c)
         /\ NegatePoint(c, <<x, y>>)[1] = x
         /\ Alike(p, NegatePoint(c, <<x, y>>)[2], 0 - y)
PROOF
<1>1. c.m = p
  BY PairsAre
<1>2. Negate(c, y) \in 0 .. p - 1 /\ Alike(p, Negate(c, y), 0 - y)
  BY <1>1, NegateIs
<1>3. NegatePoint(c, <<x, y>>) = <<x, Negate(c, y)>>
  BY DEF NegatePoint
<1> QED
  BY <1>2, <1>3, PairsAre

\* What AddPoints computes, once there is an inverse: the fraction.
LEMMA FractionIs ==
  ASSUME NEW p \in Nat, p > 1, NEW u \in Int, NEW d \in Int, NEW i \in Int,
         Alike(p, d * i, 1)
  PROVE  LET s == ((u % p) * i) % p IN s \in 0 .. p - 1 /\ Alike(p, s * d, u)
PROOF
<1> DEFINE r == u % p
           t == r * i
           s == t % p
<1>1. p \in Nat \ {0} /\ p \in Int
  OBVIOUS
<1>2. r \in 0 .. p - 1 /\ r \in Int /\ Alike(p, r, u)
  <2>1. r \in 0 .. p - 1 /\ Alike(p, r, u)
    BY <1>1, AlikeRemainder
  <2> QED
    BY <2>1
<1> HIDE DEF r
<1>3. t \in Int
  BY <1>2
<1>4. s \in 0 .. p - 1 /\ s \in Int /\ Alike(p, s, t)
  <2> HIDE DEF t
  <2>1. s \in 0 .. p - 1 /\ Alike(p, s, t)
    BY <1>1, <1>3, AlikeRemainder
  <2> QED
    BY <2>1
<1> HIDE DEF s
<1>5. Alike(p, s * d, t * d)
  <2>1. Alike(p, d, d)
    BY <1>1, AlikeSelf
  <2> HIDE DEF t
  <2> QED
    BY <1>1, <1>3, <1>4, <2>1, AlikeProduct
<1>6. Alike(p, r * (d * i), u * 1)
  <2>1. d * i \in Int /\ 1 \in Int
    OBVIOUS
  <2> QED
    BY <1>1, <1>2, <2>1, AlikeProduct
<1>7. t * d = r * (d * i) /\ u * 1 = u
  BY <1>2
<1>8. s * d \in Int /\ t * d \in Int
  BY <1>2, <1>4
<1>9. Alike(p, t * d, u)
  BY <1>6, <1>7
<1>10. Alike(p, s * d, u)
  <2> HIDE DEF t
  <2> QED
    BY <1>1, <1>5, <1>8, <1>9, AlikeOn
<1> QED
  BY <1>4, <1>10 DEF s, r

\* The point AddPoints returns for a slope.
LEMMA MeetingIs ==
  ASSUME NEW p \in Nat, p > 1, NEW c \in Config(p), NEW P \in Pairs(c), NEW Q \in Pairs(c),
         NEW s \in Int
  PROVE  LET x == (s * s - P[1] - Q[1]) % p
             y == (P[2] + s * ((x - P[1]) % p)) % p
         IN  Meets(c, P, Q, s, NegatePoint(c, <<x, y>>))
PROOF
<1> DEFINE X == s * s - P[1] - Q[1]
           x == X % p
           d == x - P[1]
           r == d % p
           Y == P[2] + s * r
           y == Y % p
           R == NegatePoint(c, <<x, y>>)
           Z == P[2] + s * d
<1>1. p \in Nat \ {0} /\ p \in Int /\ P[1] \in Int /\ P[2] \in Int /\ Q[1] \in Int /\ c.m = p
  BY PairsAre
<1>2. X \in Int
  BY <1>1
<1>3. x \in 0 .. p - 1 /\ x \in Int /\ Alike(p, x, X)
  <2> HIDE DEF X
  <2>1. x \in 0 .. p - 1 /\ Alike(p, x, X)
    BY <1>1, <1>2, AlikeRemainder
  <2> QED
    BY <2>1
<1> HIDE DEF x
<1>4. d \in Int
  BY <1>1, <1>3
<1>5. r \in 0 .. p - 1 /\ r \in Int /\ Alike(p, r, d)
  <2> HIDE DEF d
  <2>1. r \in 0 .. p - 1 /\ Alike(p, r, d)
    BY <1>1, <1>4, AlikeRemainder
  <2> QED
    BY <2>1
<1> HIDE DEF r
<1>6. Y \in Int /\ Z \in Int
  BY <1>1, <1>4, <1>5
<1>7. y \in 0 .. p - 1 /\ y \in Int /\ Alike(p, y, Y)
  <2> HIDE DEF Y
  <2>1. y \in 0 .. p - 1 /\ Alike(p, y, Y)
    BY <1>1, <1>6, AlikeRemainder
  <2> QED
    BY <2>1
<1> HIDE DEF y
<1>8. Alike(p, Y, Z)
  <2>1. PICK k \in Int : r - d = p * k
    BY <1>5 DEF Alike
  <2>2. Y - Z = s * (r - d)
    <3> HIDE DEF d
    <3> QED
      BY <1>1, <1>4, <1>5
  <2>3. s * (r - d) = p * (s * k) /\ s * k \in Int
    BY <2>1, <1>1
  <2>4. Y - Z = p * (s * k)
    BY <2>2, <2>3
  <2> QED
    BY <2>3, <2>4 DEF Alike
<1>9. R \in Pairs(c) /\ R[1] = x /\ Alike(p, R[2], 0 - y)
  BY <1>3, <1>7, NegatePointIs
<1>10. R[2] \in Int
  BY <1>9, PairsAre
<1> HIDE DEF R
<1>11. Alike(p, R[2], 0 - Z)
  <2>1. Alike(p, y, Z)
    <3> HIDE DEF Y, Z
    <3> QED
      BY <1>1, <1>6, <1>7, <1>8, AlikeOn
  <2>2. Alike(p, 0 - y, 0 - Z)
    <3>1. Alike(p, 0, 0)
      BY <1>1, AlikeSelf
    <3> HIDE DEF Z
    <3> QED
      BY <1>1, <1>6, <1>7, <2>1, <3>1, AlikeSum
  <2>3. 0 - y \in Int /\ 0 - Z \in Int
    <3> HIDE DEF Z
    <3> QED
      BY <1>6, <1>7
  <2> HIDE DEF Z
  <2> QED
    BY <1>1, <1>9, <1>10, <2>2, <2>3, AlikeOn
<1>12. Meets(c, P, Q, s, R)
  BY <1>1, <1>3, <1>9, <1>11 DEF Meets
<1> QED
  BY <1>12 DEF R, y, r, x

\* A sum is none, or where the line through the summands meets the curve.
LEMMA SumIs ==
  ASSUME NEW p \in Nat, p > 1, NEW c \in Config(p), NEW P \in Pairs(c), NEW Q \in Pairs(c)
  PROVE  /\ AddPoints(c, P, Q) \in Element(c)
         /\ AddPoints(c, P, Q) # None =>
              \E s \in Int : Line(c, P, Q, s) /\ Meets(c, P, Q, s, AddPoints(c, P, Q))
PROOF
<1>1. /\ p \in Nat \ {0} /\ p \in Int /\ c.m = p /\ c.a \in Int
      /\ P[1] \in 0 .. p - 1 /\ P[2] \in 0 .. p - 1 /\ Q[1] \in 0 .. p - 1 /\ Q[2] \in 0 .. p - 1
      /\ P = <<P[1], P[2]>> /\ Q = <<Q[1], Q[2]>>
  BY PairsAre
<1> DEFINE F == Slope(c, P, Q)
           u == F[1]
           d == F[2]
           i == ModInverse(d % p, p)
           s == ((u % p) * i) % p
           x == (s * s - P[1] - Q[1]) % p
           y == (P[2] + s * ((x - P[1]) % p)) % p
           R == AddPoints(c, P, Q)
<1>2. /\ P # Q => u = P[2] - Q[2] /\ d = P[1] - Q[1]
      /\ P = Q => u = 3 * P[1] * P[1] + c.a /\ d = 2 * P[2]
  BY DEF Slope
<1>3. u \in Int /\ d \in Int
  BY <1>1, <1>2
<1>4. R = IF i = 0 THEN None ELSE NegatePoint(c, <<x, y>>)
  BY <1>1 DEF AddPoints
<1> HIDE DEF F, u, d
<1>5. i \in 0 .. p - 1 /\ (i # 0 => Alike(p, d * i, 1) /\ ~Alike(p, d, 0))
  BY <1>3, InverseFound
<1> HIDE DEF i, R
<1>6. CASE i = 0
  BY <1>4, <1>6 DEF Element, R
<1>7. CASE i # 0
  <2>1. i \in Int /\ Alike(p, d * i, 1) /\ ~Alike(p, d, 0)
    BY <1>5, <1>7
  <2>2. s \in 0 .. p - 1 /\ Alike(p, s * d, u)
    BY <1>3, <2>1, FractionIs
  <2> HIDE DEF s
  <2>3. s \in Int
    BY <2>2
  <2>4. Meets(c, P, Q, s, NegatePoint(c, <<x, y>>))
    BY <2>3, MeetingIs
  <2>5. Line(c, P, Q, s)
    <3>1. CASE P # Q
      <4>1. ASSUME P[1] = Q[1] PROVE FALSE
        <5>1. d = 0
          BY <1>1, <1>2, <3>1, <4>1
        <5> QED
          BY <1>1, <2>1, <5>1, AlikeSelf
      <4> QED
        BY <1>1, <1>2, <2>2, <3>1, <4>1 DEF Line
    <3>2. CASE P = Q
      BY <1>1, <1>2, <2>1, <2>2, <3>2 DEF Line
    <3> QED
      BY <3>1, <3>2
  <2> HIDE DEF x, y
  <2>6. R = NegatePoint(c, <<x, y>>)
    BY <1>4, <1>7
  <2>7. Meets(c, P, Q, s, R)
    BY <2>4, <2>6
  <2>8. R \in Element(c)
    BY <2>7 DEF Meets, Element
  <2> QED
    BY <2>3, <2>5, <2>7, <2>8 DEF R
<1> QED
  BY <1>6, <1>7 DEF R

\* The line through <<x, y>> with slope s, at X.
LineAt(x, y, s, X) == y + s * (X - x)
Cubic(a, b, X) == X * X * X + a * X + b

\* What is left of the cubic and the square of the line when the points of two
\* places are taken out, and that of the third where they meet.
RestA(a, x1, y1, x2, s) ==
  a - 2 * s * (y1 - s * x1) - (x1 * x2 + (x1 + x2) * (s * s - x1 - x2))
RestB(b, x1, y1, x2, s) ==
  b - (y1 - s * x1) * (y1 - s * x1) + x1 * x2 * (s * s - x1 - x2)

Splits(a, b, x1, y1, x2, s, X) ==
  Cubic(a, b, X) - LineAt(x1, y1, s, X) * LineAt(x1, y1, s, X)
    = (X - x1) * (X - x2) * (X - (s * s - x1 - x2))
      + (RestA(a, x1, y1, x2, s) * X + RestB(b, x1, y1, x2, s))

\* The cubic without the square of a line splits into the three places.
LEMMA CubicSplits ==
  ASSUME NEW a \in Int, NEW b \in Int, NEW x1 \in Int, NEW y1 \in Int, NEW x2 \in Int,
         NEW s \in Int, NEW X \in Int
  PROVE  Splits(a, b, x1, y1, x2, s, X)
  BY DEF LineAt, RestA, RestB, Cubic, Splits

\* For a tangent, what is left is the difference of the slopes.
LEMMA TangentSplits ==
  ASSUME NEW a \in Int, NEW x1 \in Int, NEW y1 \in Int, NEW x2 \in Int, NEW s \in Int
  PROVE  3 * x1 * x1 + a - 2 * s * y1
           = RestA(a, x1, y1, x2, s) + (x1 - x2) * (x1 - (s * s - x1 - x2))
  BY DEF RestA

\* Where cubic and line have the two places in common, nothing is left.
LEMMA RestVanishes ==
  ASSUME NEW p, IsPrime(p), NEW a \in Int, NEW b \in Int, NEW x1 \in Int, NEW y1 \in Int,
         NEW x2 \in Int, NEW y2 \in Int, NEW s \in Int,
         Vanishes(p, Cubic(a, b, x1) - y1 * y1), Vanishes(p, Cubic(a, b, x2) - y2 * y2),
         Vanishes(p, LineAt(x1, y1, s, x2) - y2),
         \/ ~Vanishes(p, x1 - x2)
         \/ x1 = x2 /\ Vanishes(p, 3 * x1 * x1 + a - 2 * s * y1)
  PROVE  Vanishes(p, RestA(a, x1, y1, x2, s)) /\ Vanishes(p, RestB(b, x1, y1, x2, s))
PROOF
<1> DEFINE A == RestA(a, x1, y1, x2, s)
           B == RestB(b, x1, y1, x2, s)
           L2 == LineAt(x1, y1, s, x2)
           C1 == Cubic(a, b, x1)
           C2 == Cubic(a, b, x2)
           x3 == s * s - x1 - x2
<1>1. p \in Int
  BY DEF IsPrime
<1>2. A \in Int /\ B \in Int /\ L2 \in Int /\ x3 \in Int /\ C1 \in Int /\ C2 \in Int
  BY DEF RestA, RestB, LineAt, Cubic
<1>3. A * x1 + B = C1 - y1 * y1
  <2>1. LineAt(x1, y1, s, x1) = y1
    BY DEF LineAt
  <2>2. C1 - y1 * y1 = (x1 - x1) * (x1 - x2) * (x1 - x3) + (A * x1 + B)
    <3>1. Splits(a, b, x1, y1, x2, s, x1)
      BY CubicSplits
    <3> QED
      BY <2>1, <3>1 DEF Splits
  <2>3. (x1 - x1) * (x1 - x2) * (x1 - x3) = 0
    <3> HIDE DEF x3
    <3> QED
      BY <1>2
  <2> HIDE DEF x3, A, B, C1
  <2> QED
    BY <1>2, <2>2, <2>3
<1>4. A * x2 + B = C2 - L2 * L2
  <2>2. C2 - L2 * L2 = (x2 - x1) * (x2 - x2) * (x2 - x3) + (A * x2 + B)
    <3>1. Splits(a, b, x1, y1, x2, s, x2)
      BY CubicSplits
    <3> QED
      BY <3>1 DEF Splits
  <2>3. (x2 - x1) * (x2 - x2) * (x2 - x3) = 0
    <3> HIDE DEF x3
    <3> QED
      BY <1>2
  <2> HIDE DEF x3, A, B, C2, L2
  <2> QED
    BY <1>2, <2>2, <2>3
<1>5. Vanishes(p, A)
  <2>1. CASE ~Vanishes(p, x1 - x2)
    <3>1. Vanishes(p, C2 - L2 * L2)
      <4> HIDE DEF C2, L2
      <4>1. C2 - L2 * L2 = 1 * (C2 - y2 * y2) + (0 - (L2 + y2)) * (L2 - y2)
        BY <1>2
      <4>2. 1 \in Int /\ C2 - y2 * y2 \in Int /\ 0 - (L2 + y2) \in Int /\ L2 - y2 \in Int
        BY <1>2
      <4> QED
        BY <1>1, <4>1, <4>2, ZeroCombined DEF C2, L2
    <3> HIDE DEF C1, C2, L2, A, B
    <3>2. (x1 - x2) * A = 1 * (C1 - y1 * y1) + (-1) * (C2 - L2 * L2)
      BY <1>2, <1>3, <1>4
    <3>3. Vanishes(p, (x1 - x2) * A)
      <4>1. 1 \in Int /\ -1 \in Int /\ C1 - y1 * y1 \in Int /\ C2 - L2 * L2 \in Int
        BY <1>2
      <4> QED
        BY <1>1, <3>1, <3>2, <4>1, ZeroCombined DEF C1
    <3> QED
      BY <1>2, <2>1, <3>3, ZeroFactor
  <2>2. CASE x1 = x2 /\ Vanishes(p, 3 * x1 * x1 + a - 2 * s * y1)
    <3>1. 3 * x1 * x1 + a - 2 * s * y1 = A + (x1 - x2) * (x1 - x3)
      BY TangentSplits
    <3>2. (x1 - x2) * (x1 - x3) = 0
      <4> HIDE DEF x3
      <4> QED
        BY <1>2, <2>2
    <3> HIDE DEF x3, A
    <3>3. A = 3 * x1 * x1 + a - 2 * s * y1
      BY <1>2, <3>1, <3>2
    <3> QED
      BY <2>2, <3>3
  <2> QED
    BY <2>1, <2>2
<1>6. Vanishes(p, B)
  <2> HIDE DEF A, B, C1
  <2>1. B = 1 * (C1 - y1 * y1) + (0 - x1) * A
    BY <1>2, <1>3
  <2>2. 1 \in Int /\ 0 - x1 \in Int /\ C1 - y1 * y1 \in Int
    BY <1>2
  <2> QED
    BY <1>1, <1>2, <1>5, <2>1, <2>2, ZeroCombined DEF C1
<1> QED
  BY <1>5, <1>6

\* Then the third place is one of the curve.
LEMMA ThirdOnCurve ==
  ASSUME NEW p \in Int, NEW a \in Int, NEW b \in Int, NEW x1 \in Int, NEW y1 \in Int,
         NEW x2 \in Int, NEW s \in Int, NEW x3 \in Int, NEW y3 \in Int,
         Vanishes(p, RestA(a, x1, y1, x2, s)), Vanishes(p, RestB(b, x1, y1, x2, s)),
         Vanishes(p, x3 - (s * s - x1 - x2)), Vanishes(p, y3 + LineAt(x1, y1, s, x3))
  PROVE  Vanishes(p, Cubic(a, b, x3) - y3 * y3)
PROOF
<1> DEFINE A == RestA(a, x1, y1, x2, s)
           B == RestB(b, x1, y1, x2, s)
           L == LineAt(x1, y1, s, x3)
           C == Cubic(a, b, x3)
           z == x3 - (s * s - x1 - x2)
           k == (x3 - x1) * (x3 - x2)
<1>1. A \in Int /\ B \in Int /\ L \in Int /\ C \in Int /\ z \in Int /\ k \in Int
  BY DEF RestA, RestB, LineAt, Cubic
<1>2. C - L * L = k * z + (A * x3 + B)
  <2>1. Splits(a, b, x1, y1, x2, s, x3)
    BY CubicSplits
  <2> QED
    BY <2>1 DEF Splits
<1> HIDE DEF A, B, L, C, z, k
<1>3. Vanishes(p, A) /\ Vanishes(p, B) /\ Vanishes(p, z) /\ Vanishes(p, y3 + L)
  BY DEF A, B, L, z
<1>4. 1 \in Int /\ x3 * A + 1 * B \in Int
  BY <1>1
<1>5. Vanishes(p, x3 * A + 1 * B)
  BY <1>1, <1>3, <1>4, ZeroCombined
<1>9. Vanishes(p, k * z + 1 * (x3 * A + 1 * B))
  BY <1>1, <1>3, <1>4, <1>5, ZeroCombined
<1>6. C - y3 * y3 = 1 * (k * z + 1 * (x3 * A + 1 * B)) + (L - y3) * (y3 + L)
  <2> DEFINE w == k * z
  <2>1. w \in Int
    BY <1>1
  <2>2. C - L * L = w + (A * x3 + B)
    BY <1>2
  <2> HIDE DEF w
  <2>3. C - y3 * y3 = 1 * (w + 1 * (x3 * A + 1 * B)) + (L - y3) * (y3 + L)
    BY <1>1, <2>1, <2>2
  <2> QED
    BY <2>3 DEF w
<1>7. k * z + 1 * (x3 * A + 1 * B) \in Int /\ L - y3 \in Int /\ y3 + L \in Int
  BY <1>1
<1>8. Vanishes(p, C - y3 * y3)
  BY <1>3, <1>4, <1>9, <1>6, <1>7, ZeroCombined
<1> QED
  BY <1>8 DEF C

On(c, P) == Vanishes(c.m, Cubic(c.a, c.b, P[1]) - P[2] * P[2])

\* R is the sum of P and Q with a line of slope s.
Collinear(c, P, Q, s, R) ==
  /\ s \in Int /\ R \in Pairs(c)
  /\ Vanishes(c.m, RestA(c.a, P[1], P[2], Q[1], s))
  /\ Vanishes(c.m, RestB(c.b, P[1], P[2], Q[1], s))
  /\ Vanishes(c.m, LineAt(P[1], P[2], s, Q[1]) - Q[2])
  /\ Vanishes(c.m, R[1] - (s * s - P[1] - Q[1]))
  /\ Vanishes(c.m, R[2] + LineAt(P[1], P[2], s, R[1]))

\* The sum of two points, mirrored, is on their line and on the curve.
LEMMA SumCollinear ==
  ASSUME NEW p, IsPrime(p), NEW c \in Config(p), NEW P \in Pairs(c), NEW Q \in Pairs(c),
         On(c, P), On(c, Q), AddPoints(c, P, Q) # None
  PROVE  \E s \in Int : Collinear(c, P, Q, s, AddPoints(c, P, Q))
PROOF
<1> DEFINE R == AddPoints(c, P, Q)
           x1 == P[1]
           y1 == P[2]
           x2 == Q[1]
           y2 == Q[2]
           a == c.a
           b == c.b
<1>1. p \in Nat \ {0} /\ p \in Nat /\ p > 1 /\ p \in Int
  BY DEF IsPrime
<1>2. /\ c.m = p /\ a \in Int /\ b \in Int
      /\ x1 \in 0 .. p - 1 /\ y1 \in 0 .. p - 1 /\ x2 \in 0 .. p - 1 /\ y2 \in 0 .. p - 1
      /\ x1 \in Int /\ y1 \in Int /\ x2 \in Int /\ y2 \in Int
  BY <1>1, PairsAre
<1>3. PICK s \in Int : Line(c, P, Q, s) /\ Meets(c, P, Q, s, R)
  BY <1>1, SumIs
<1>4. R \in Pairs(c)
  BY <1>3 DEF Meets
<1>5. R[1] \in Int /\ R[2] \in Int
  BY <1>1, <1>4, PairsAre
<1> HIDE DEF R
<1>6. Vanishes(p, R[1] - (s * s - x1 - x2))
  <2>1. s * s - x1 - x2 \in Int
    BY <1>2
  <2>2. Alike(p, R[1], s * s - x1 - x2)
    BY <1>2, <1>3 DEF Meets
  <2> QED
    BY <1>1, <1>5, <2>1, <2>2, AlikeIsZero
<1>7. Vanishes(p, R[2] + LineAt(x1, y1, s, R[1]))
  <2>1. PICK k \in Int : R[2] - (0 - (y1 + s * (R[1] - x1))) = p * k
    BY <1>2, <1>3 DEF Meets, Alike
  <2>2. R[2] + LineAt(x1, y1, s, R[1]) = p * k
    <3> HIDE DEF x1, y1
    <3> QED
      BY <1>2, <1>5, <2>1 DEF LineAt
  <2> QED
    BY <2>2 DEF Vanishes
<1>8. /\ Vanishes(p, LineAt(x1, y1, s, x2) - y2)
      /\ \/ ~Vanishes(p, x1 - x2)
         \/ x1 = x2 /\ Vanishes(p, 3 * x1 * x1 + a - 2 * s * y1)
  <2>1. CASE P # Q
    <3>1. x1 # x2 /\ Alike(p, s * (x1 - x2), y1 - y2)
      BY <1>2, <1>3, <2>1 DEF Line
    <3>2. PICK k \in Int : s * (x1 - x2) - (y1 - y2) = p * k
      BY <3>1 DEF Alike
    <3>3. LineAt(x1, y1, s, x2) - y2 = p * (0 - k) /\ 0 - k \in Int
      <4> HIDE DEF x1, y1, x2, y2
      <4> QED
        BY <1>1, <1>2, <3>2 DEF LineAt
    <3>4. ~Vanishes(p, x1 - x2)
      <4> HIDE DEF x1, y1, x2, y2
      <4>1. x1 - x2 \in Int /\ x1 - x2 < p /\ 0 - (x1 - x2) < p /\ x1 - x2 # 0
        BY <1>1, <1>2, <3>1
      <4> QED
        BY <1>1, <4>1, ZeroSmall
    <3>5. Vanishes(p, LineAt(x1, y1, s, x2) - y2)
      BY <3>3 DEF Vanishes
    <3> QED
      BY <3>4, <3>5
  <2>2. CASE P = Q
    <3>1. x1 = x2 /\ y1 = y2
      BY <2>2
    <3>2. PICK k \in Int : s * (2 * y1) - (3 * x1 * x1 + a) = p * k
      BY <1>2, <1>3, <2>2 DEF Alike, Line
    <3> HIDE DEF x1, y1, x2, y2, a
    <3>3. 3 * x1 * x1 + a - 2 * s * y1 = p * (0 - k) /\ 0 - k \in Int
      BY <1>1, <1>2, <3>2
    <3>4. LineAt(x1, y1, s, x2) - y2 = p * 0 /\ 0 \in Int
      BY <1>1, <1>2, <3>1 DEF LineAt
    <3>5. Vanishes(p, 3 * x1 * x1 + a - 2 * s * y1)
      BY <3>3 DEF Vanishes
    <3>6. Vanishes(p, LineAt(x1, y1, s, x2) - y2)
      BY <3>4 DEF Vanishes
    <3> QED
      BY <3>1, <3>5, <3>6
  <2> QED
    BY <2>1, <2>2
<1>9. Vanishes(p, Cubic(a, b, x1) - y1 * y1) /\ Vanishes(p, Cubic(a, b, x2) - y2 * y2)
  BY <1>2 DEF On
<1> HIDE DEF x1, y1, x2, y2, a, b
<1>10. Vanishes(p, RestA(a, x1, y1, x2, s)) /\ Vanishes(p, RestB(b, x1, y1, x2, s))
  BY <1>2, <1>8, <1>9, RestVanishes
<1>11. Collinear(c, P, Q, s, R)
  BY <1>2, <1>4, <1>6, <1>7, <1>8, <1>10 DEF Collinear, x1, y1, x2, y2, a, b
<1> QED
  BY <1>11 DEF R

\* So it is a point of the curve.
LEMMA SumOnCurve ==
  ASSUME NEW p, IsPrime(p), NEW c \in Config(p), NEW P \in Pairs(c), NEW Q \in Pairs(c),
         NEW s, NEW R, Collinear(c, P, Q, s, R)
  PROVE  R \in Pairs(c) /\ On(c, R)
PROOF
<1>1. p \in Nat /\ p > 1 /\ p \in Int
  BY DEF IsPrime
<1>2. /\ c.m = p /\ c.a \in Int /\ c.b \in Int
      /\ P[1] \in Int /\ P[2] \in Int /\ Q[1] \in Int /\ Q[2] \in Int
  BY <1>1, PairsAre
<1>3. s \in Int /\ R \in Pairs(c)
  BY DEF Collinear
<1>4. R[1] \in Int /\ R[2] \in Int
  BY <1>1, <1>3, PairsAre
<1>5. Vanishes(p, Cubic(c.a, c.b, R[1]) - R[2] * R[2])
  BY <1>1, <1>2, <1>3, <1>4, ThirdOnCurve DEF Collinear
<1> QED
  BY <1>2, <1>3, <1>5 DEF On

\* The summand v and the sum determine the slope.
SlopeOf(c, t, v, Q, s) ==
  /\ Vanishes(c.m, t[1] - (s * s - v[1] - Q[1]))
  /\ Vanishes(c.m, t[2] - LineAt(v[1], v[2], s, t[1]))
  /\ Vanishes(c.m, (v[1] - Q[1]) * s - (v[2] + Q[2]))
  /\ v[1] = Q[1] => Vanishes(c.m, (2 * v[2]) * s - (3 * v[1] * v[1] + c.a))

\* And the slope can be found from the sum.
LEMMA SlopeFound ==
  ASSUME NEW p, IsPrime(p), NEW c \in Config(p), NEW t \in Pairs(c), NEW v \in Pairs(c),
         NEW s, NEW Q, Collinear(c, t, v, s, Q)
  PROVE  SlopeOf(c, t, v, Q, s)
PROOF
<1> DEFINE x1 == t[1]
           y1 == t[2]
           x2 == v[1]
           y2 == v[2]
           x3 == Q[1]
           y3 == Q[2]
           a == c.a
<1>1. p \in Nat \ {0} /\ p \in Nat /\ p > 1 /\ p \in Int
  BY DEF IsPrime
<1>2. s \in Int /\ Q \in Pairs(c)
  BY DEF Collinear
<1>3. /\ c.m = p /\ a \in Int
      /\ x1 \in Int /\ y1 \in Int /\ x2 \in Int /\ y2 \in Int /\ x3 \in Int /\ y3 \in Int
  BY <1>1, <1>2, PairsAre
<1>4. /\ Vanishes(p, RestA(a, x1, y1, x2, s))
      /\ Vanishes(p, LineAt(x1, y1, s, x2) - y2)
      /\ Vanishes(p, x3 - (s * s - x1 - x2))
      /\ Vanishes(p, y3 + LineAt(x1, y1, s, x3))
  BY <1>3 DEF Collinear
<1> HIDE DEF x1, y1, x2, y2, x3, y3, a
<1> DEFINE h == LineAt(x1, y1, s, x2) - y2
           i == x3 - (s * s - x1 - x2)
           j == y3 + LineAt(x1, y1, s, x3)
           r == RestA(a, x1, y1, x2, s)
<1>5. h \in Int /\ i \in Int /\ j \in Int /\ r \in Int /\ 1 \in Int /\ -1 \in Int
  BY <1>2, <1>3 DEF LineAt, RestA
<1>6. Vanishes(p, x1 - (s * s - x2 - x3))
  <2>1. x1 - (s * s - x2 - x3) = 1 * i
    BY <1>2, <1>3
  <2> HIDE DEF i
  <2>2. Vanishes(p, 1 * i)
    BY <1>1, <1>4, <1>5, ZeroMultiple DEF i
  <2> QED
    BY <2>1, <2>2
<1>7. Vanishes(p, y1 - LineAt(x2, y2, s, x1))
  <2>1. y1 - LineAt(x2, y2, s, x1) = 1 * h
    BY <1>2, <1>3 DEF LineAt
  <2> HIDE DEF h
  <2>2. Vanishes(p, 1 * h)
    BY <1>1, <1>4, <1>5, ZeroMultiple DEF h
  <2> QED
    BY <2>1, <2>2
<1>8. Vanishes(p, (x2 - x3) * s - (y2 + y3))
  <2>1. (x2 - x3) * s - (y2 + y3) = 1 * h + (-1) * j
    BY <1>2, <1>3 DEF LineAt
  <2> HIDE DEF h, j
  <2>2. Vanishes(p, 1 * h + (-1) * j)
    BY <1>1, <1>4, <1>5, ZeroCombined DEF h, j
  <2> QED
    BY <2>1, <2>2
<1>9. ASSUME x2 = x3
      PROVE  Vanishes(p, (2 * y2) * s - (3 * x2 * x2 + a))
  <2>1. (2 * y2) * s - (3 * x2 * x2 + a) = 1 * ((-1) * r + (0 - 2 * s) * h) + (x1 - x2) * i
    BY <1>2, <1>3, <1>9 DEF LineAt, RestA
  <2> HIDE DEF h, i, r
  <2>2. (-1) * r + (0 - 2 * s) * h \in Int /\ x1 - x2 \in Int /\ 0 - 2 * s \in Int
    BY <1>2, <1>3, <1>5
  <2>3. Vanishes(p, (-1) * r + (0 - 2 * s) * h)
    BY <1>1, <1>4, <1>5, <2>2, ZeroCombined DEF h, r
  <2>4. Vanishes(p, 1 * ((-1) * r + (0 - 2 * s) * h) + (x1 - x2) * i)
    BY <1>1, <1>4, <1>5, <2>2, <2>3, ZeroCombined DEF i
  <2> QED
    BY <2>1, <2>4
<1> QED
  BY <1>3, <1>6, <1>7, <1>8, <1>9 DEF SlopeOf, x1, y1, x2, y2, x3, y3, a

\* Adding v is injective, if v is not its own negative.
LEMMA SameSummand ==
  ASSUME NEW p, IsPrime(p), NEW c \in Config(p), NEW t \in Pairs(c), NEW u \in Pairs(c),
         NEW v \in Pairs(c), NEW Q \in Pairs(c), NEW s \in Int, NEW z \in Int,
         SlopeOf(c, t, v, Q, s), SlopeOf(c, u, v, Q, z), ~Vanishes(p, 2 * v[2])
  PROVE  t = u
PROOF
<1> DEFINE x1 == t[1]
           y1 == t[2]
           w1 == u[1]
           h1 == u[2]
           x2 == v[1]
           y2 == v[2]
           x3 == Q[1]
           y3 == Q[2]
           a == c.a
           d == s - z
<1>1. p \in Nat \ {0} /\ p \in Nat /\ p > 1 /\ p \in Int
  BY DEF IsPrime
<1>2. /\ c.m = p /\ a \in Int /\ t = <<x1, y1>> /\ u = <<w1, h1>>
      /\ x1 \in 0 .. p - 1 /\ y1 \in 0 .. p - 1 /\ w1 \in 0 .. p - 1 /\ h1 \in 0 .. p - 1
      /\ x2 \in Int /\ y2 \in Int /\ x3 \in Int /\ y3 \in Int
  BY <1>1, PairsAre
<1>3. /\ Vanishes(p, x1 - (s * s - x2 - x3)) /\ Vanishes(p, w1 - (z * z - x2 - x3))
      /\ Vanishes(p, y1 - LineAt(x2, y2, s, x1)) /\ Vanishes(p, h1 - LineAt(x2, y2, z, w1))
      /\ Vanishes(p, (x2 - x3) * s - (y2 + y3)) /\ Vanishes(p, (x2 - x3) * z - (y2 + y3))
      /\ x2 = x3 => /\ Vanishes(p, (2 * y2) * s - (3 * x2 * x2 + a))
                    /\ Vanishes(p, (2 * y2) * z - (3 * x2 * x2 + a))
  BY <1>2 DEF SlopeOf
<1>4. ~Vanishes(p, 2 * y2)
  OBVIOUS
<1> HIDE DEF x1, y1, x2, y2, x3, y3, w1, h1, a
<1>5. d \in Int /\ 1 \in Int /\ -1 \in Int
  OBVIOUS
<1>6. x1 \in Int /\ y1 \in Int /\ w1 \in Int /\ h1 \in Int
  BY <1>2
<1>7. \A k \in Int : k * s - k * z = k * d
  OBVIOUS
<1> HIDE DEF d
<1>8. ASSUME NEW k \in Int, NEW e \in Int, Vanishes(p, k * s - e), Vanishes(p, k * z - e), ~Vanishes(p, k)
      PROVE  Vanishes(p, d)
  <2>1. k * d = 1 * (k * s - e) + (-1) * (k * z - e)
    BY <1>7
  <2>2. k * s - e \in Int /\ k * z - e \in Int
    OBVIOUS
  <2>3. Vanishes(p, 1 * (k * s - e) + (-1) * (k * z - e))
    BY <1>1, <1>5, <1>8, <2>2, ZeroCombined
  <2>4. Vanishes(p, k * d)
    BY <2>1, <2>3
  <2> QED
    BY <1>5, <1>8, <2>4, ZeroFactor
<1>9. Vanishes(p, d)
  <2>1. CASE x2 = x3
    <3>1. 2 * y2 \in Int /\ 3 * x2 * x2 + a \in Int
      BY <1>2
    <3> QED
      BY <1>3, <1>4, <1>8, <2>1, <3>1
  <2>2. CASE x2 # x3 /\ ~Vanishes(p, x2 - x3)
    <3>1. x2 - x3 \in Int /\ y2 + y3 \in Int
      BY <1>2
    <3> QED
      BY <1>3, <1>8, <2>2, <3>1
  <2>3. x2 # x3 => ~Vanishes(p, x2 - x3)
    <3>1. x2 \in 0 .. p - 1 /\ x3 \in 0 .. p - 1
      BY <1>1, PairsAre DEF x2, x3
    <3>2. SUFFICES ASSUME x2 # x3, Vanishes(p, x2 - x3) PROVE FALSE
      OBVIOUS
    <3>3. x2 - x3 \in Int /\ x2 - x3 < p /\ 0 - (x2 - x3) < p
      BY <1>1, <3>1
    <3>4. x2 - x3 = 0
      BY <1>1, <3>2, <3>3, ZeroSmall
    <3> QED
      BY <1>2, <3>2, <3>4
  <2> QED
    BY <2>1, <2>2, <2>3
<1>10. x1 = w1
  <2> DEFINE e == x1 - (s * s - x2 - x3)
             f == w1 - (z * z - x2 - x3)
  <2>1. x1 - w1 = 1 * (1 * e + (-1) * f) + (s + z) * d
    BY <1>2, <1>6 DEF d
  <2>2. e \in Int /\ f \in Int /\ s + z \in Int
    BY <1>2, <1>6
  <2>3. Vanishes(p, e) /\ Vanishes(p, f)
    BY <1>3
  <2> HIDE DEF e, f
  <2>4. Vanishes(p, 1 * e + (-1) * f) /\ 1 * e + (-1) * f \in Int
    <3>1. 1 * e + (-1) * f \in Int
      BY <2>2
    <3>2. Vanishes(p, 1 * e + (-1) * f)
      BY <1>1, <1>5, <2>2, <2>3, ZeroCombined
    <3> QED
      BY <3>1, <3>2
  <2>5. Vanishes(p, 1 * (1 * e + (-1) * f) + (s + z) * d)
    BY <1>1, <1>5, <1>9, <2>2, <2>4, ZeroCombined
  <2>6. Vanishes(p, x1 - w1) /\ x1 - w1 \in Int /\ x1 - w1 < p /\ 0 - (x1 - w1) < p
    BY <1>1, <1>2, <2>1, <2>5
  <2>7. x1 - w1 = 0
    BY <1>1, <2>6, ZeroSmall
  <2> QED
    BY <1>6, <2>7
<1>11. y1 = h1
  <2> DEFINE e == y1 - LineAt(x2, y2, s, x1)
             f == h1 - LineAt(x2, y2, z, w1)
  <2>1. y1 - h1 = 1 * (1 * e + (-1) * f) + (x1 - x2) * d
    BY <1>2, <1>6, <1>10 DEF d, LineAt
  <2>2. e \in Int /\ f \in Int /\ x1 - x2 \in Int
    BY <1>2, <1>6 DEF LineAt
  <2>3. Vanishes(p, e) /\ Vanishes(p, f)
    BY <1>3
  <2> HIDE DEF e, f
  <2>4. Vanishes(p, 1 * e + (-1) * f) /\ 1 * e + (-1) * f \in Int
    <3>1. 1 * e + (-1) * f \in Int
      BY <2>2
    <3>2. Vanishes(p, 1 * e + (-1) * f)
      BY <1>1, <1>5, <2>2, <2>3, ZeroCombined
    <3> QED
      BY <3>1, <3>2
  <2>5. Vanishes(p, 1 * (1 * e + (-1) * f) + (x1 - x2) * d)
    BY <1>1, <1>5, <1>9, <2>2, <2>4, ZeroCombined
  <2>6. Vanishes(p, y1 - h1) /\ y1 - h1 \in Int /\ y1 - h1 < p /\ 0 - (y1 - h1) < p
    BY <1>1, <1>2, <2>1, <2>5
  <2>7. y1 - h1 = 0
    BY <1>1, <2>6, ZeroSmall
  <2> QED
    BY <1>6, <2>7
<1> QED
  BY <1>2, <1>10, <1>11

\* No sum with v is v.
LEMMA SumMovesOn ==
  ASSUME NEW p, IsPrime(p), NEW c \in Config(p), NEW t \in Pairs(c), NEW v \in Pairs(c),
         NEW s \in Int, SlopeOf(c, t, v, v, s), ~Vanishes(p, 2 * v[2])
  PROVE  FALSE
PROOF
<1> DEFINE x == v[1]
           y == v[2]
<1>1. p \in Int /\ p > 1 /\ p \in Nat
  BY DEF IsPrime
<1>2. c.m = p /\ x \in Int /\ y \in Int
  BY <1>1, PairsAre
<1>3. Vanishes(p, (x - x) * s - (y + y))
  BY <1>2 DEF SlopeOf
<1>4. ~Vanishes(p, 2 * y)
  OBVIOUS
<1> HIDE DEF x, y
<1>5. PICK k \in Int : (x - x) * s - (y + y) = p * k
  BY <1>3 DEF Vanishes
<1>6. (x - x) * s = 0
  BY <1>2
<1>7. 2 * y = p * (0 - k) /\ 0 - k \in Int
  <2> DEFINE f == (x - x) * s
  <2>1. f = 0 /\ f - (y + y) = p * k
    BY <1>5, <1>6
  <2> HIDE DEF f
  <2> QED
    BY <1>1, <1>2, <2>1
<1> QED
  BY <1>4, <1>7 DEF Vanishes

\* A point that is not its own negative can be doubled.
LEMMA NotOpposite ==
  ASSUME NEW p, IsPrime(p), NEW c \in Config(p), NEW v \in Pairs(c), v # NegatePoint(c, v)
  PROVE  ~Vanishes(p, 2 * v[2])
PROOF
<1> DEFINE x == v[1]
           y == v[2]
<1>1. p \in Int /\ p > 1 /\ p \in Nat /\ p \in Nat \ {0}
  BY DEF IsPrime
<1>2. c.m = p /\ x \in 0 .. p - 1 /\ y \in 0 .. p - 1 /\ v = <<x, y>>
  BY <1>1, PairsAre
<1>3. NegatePoint(c, v) = <<x, Negate(c, y)>>
  BY DEF NegatePoint
<1>4. Negate(c, y) # y
  BY <1>2, <1>3
<1>5. y # 0
  <2> SUFFICES ASSUME y = 0 PROVE Negate(c, y) = 0
    BY <1>4
  <2> HIDE DEF y
  <2>1. Negate(c, y) \in 0 .. p - 1 /\ Alike(p, Negate(c, y), 0 - y)
    BY <1>1, <1>2, NegateIs
  <2>2. 0 - y = 0 /\ 0 \in Int /\ Negate(c, y) \in Int
    BY <2>1
  <2>3. Alike(p, Negate(c, y), 0)
    BY <2>1, <2>2
  <2>4. Negate(c, y) - 0 < p /\ 0 - Negate(c, y) < p
    BY <2>1, <1>1
  <2> QED
    BY <1>1, <2>2, <2>3, <2>4, AlikeSmall
<1>6. Negate(c, y) = p - y
  BY <1>1, <1>2, <1>5, OppositeIs
<1> HIDE DEF y
<1>7. SUFFICES ASSUME Vanishes(p, 2 * y) PROVE FALSE
  BY DEF y
<1>8. PICK k \in Int : 2 * y = p * k
  BY <1>7 DEF Vanishes
<1>9. p * (k - 1) < p /\ p * (k - 1) > 0 - p /\ k - 1 \in Int
  <2>1. p * (k - 1) = 2 * y - p
    BY <1>1, <1>8
  <2> QED
    BY <1>1, <1>2, <1>5, <2>1
<1>10. k - 1 = 0
  BY <1>1, <1>9, SmallMultiple
<1>11. k = 1
  BY <1>10
<1>12. 2 * y = p
  BY <1>1, <1>8, <1>11
<1> QED
  BY <1>1, <1>2, <1>4, <1>6, <1>12

-----------------------------------------------------------------------------
(* The multiples of a point as PickRandomG counts them.                    *)

Stops(c, t) == t = None \/ t = NegatePoint(c, t)

IsChain(c, v, n, f) ==
  /\ f \in [1 .. n -> Pairs(c)] /\ f[1] = v
  /\ \A k \in 1 .. n - 1 : ~Stops(c, f[k]) /\ f[k + 1] = AddPoints(c, f[k], v)

\* All multiples are on the curve.
LEMMA ChainOnCurve ==
  ASSUME NEW p, IsPrime(p), NEW c \in Config(p), NEW v \in Pairs(c), On(c, v),
         NEW n \in Nat \ {0}, NEW f, IsChain(c, v, n, f)
  PROVE  \A k \in 1 .. n : On(c, f[k])
PROOF
<1> DEFINE last == n - 1
           S == {k \in 0 .. last : On(c, f[k + 1])}
<1>1. last \in Nat
  OBVIOUS
<1>2. 0 \in S
  BY DEF IsChain
<1>3. ASSUME NEW k \in S, k \in 0 .. last - 1
      PROVE  k + 1 \in S
  <2> DEFINE t == f[k + 1]
             u == f[k + 1 + 1]
  <2>1. k + 1 \in 1 .. n - 1 /\ k + 1 + 1 \in 1 .. n /\ k + 1 \in 1 .. n
    BY <1>3
  <2>2. t \in Pairs(c) /\ u \in Pairs(c) /\ u = AddPoints(c, t, v) /\ On(c, t)
    BY <2>1 DEF IsChain
  <2> HIDE DEF t, u
  <2>3. u # None
    BY <2>2, PairsAre DEF IsPrime
  <2>4. PICK s \in Int : Collinear(c, t, v, s, u)
    BY <2>2, <2>3, SumCollinear
  <2>5. On(c, u)
    BY <2>2, <2>4, SumOnCurve
  <2> QED
    BY <1>3, <2>5 DEF u
<1>4. 0 .. last \subseteq S
  <2> HIDE DEF S, last
  <2> QED
    BY <1>1, <1>2, <1>3, BoundedInduction
<1>5. \A k \in 0 .. last : On(c, f[k + 1])
  BY <1>4
<1> SUFFICES ASSUME NEW k \in 1 .. n PROVE On(c, f[k])
  OBVIOUS
<1>6. k - 1 \in 0 .. last /\ k - 1 + 1 = k
  OBVIOUS
<1> QED
  BY <1>5, <1>6

\* No multiple comes twice: none is the point itself again, as adding the point
\* moves on, and what is added to is known from the sum.
LEMMA ChainDistinct ==
  ASSUME NEW p, IsPrime(p), NEW c \in Config(p), NEW v \in Pairs(c), On(c, v), ~Stops(c, v),
         NEW n \in Nat \ {0}, NEW f, IsChain(c, v, n, f)
  PROVE  \A i, j \in 1 .. n : i # j => f[i] # f[j]
PROOF
<1> DEFINE last == n - 1
           S == {k \in 0 .. last : \A j \in k + 2 .. n : f[k + 1] # f[j]}
<1>1. last \in Nat
  OBVIOUS
<1>2. ~Vanishes(p, 2 * v[2])
  BY NotOpposite DEF Stops
<1>3. \A k \in 1 .. n : f[k] \in Pairs(c) /\ On(c, f[k])
  BY ChainOnCurve DEF IsChain
<1>4. ASSUME NEW j \in 2 .. n
      PROVE  /\ f[j - 1] \in Pairs(c)
             /\ \E s \in Int : SlopeOf(c, f[j - 1], v, f[j], s)
  <2> DEFINE t == f[j - 1]
             u == f[j]
  <2>1. j - 1 \in 1 .. n - 1 /\ j - 1 \in 1 .. n /\ j - 1 + 1 = j
    OBVIOUS
  <2>2. u = AddPoints(c, t, v)
    BY <2>1 DEF IsChain
  <2>3. t \in Pairs(c) /\ On(c, t) /\ u \in Pairs(c)
    BY <1>3, <2>1
  <2> HIDE DEF t, u
  <2>4. u # None
    BY <2>3, PairsAre DEF IsPrime
  <2>5. PICK s \in Int : Collinear(c, t, v, s, u)
    BY <2>2, <2>3, <2>4, SumCollinear
  <2>6. SlopeOf(c, t, v, u, s)
    BY <2>3, <2>5, SlopeFound
  <2> QED
    BY <2>3, <2>6 DEF t, u
<1>5. 0 \in S
  <2>1. SUFFICES ASSUME NEW j \in 2 .. n, f[1] = f[j] PROVE FALSE
    OBVIOUS
  <2>2. f[j] = v
    BY <2>1 DEF IsChain
  <2>3. PICK s \in Int : SlopeOf(c, f[j - 1], v, v, s)
    BY <1>4, <2>2
  <2>4. f[j - 1] \in Pairs(c)
    BY <1>4
  <2> QED
    BY <1>2, <2>3, <2>4, SumMovesOn
<1>6. ASSUME NEW k \in S, k \in 0 .. last - 1
      PROVE  k + 1 \in S
  <2>1. SUFFICES ASSUME NEW j \in k + 3 .. n, f[k + 2] = f[j] PROVE FALSE
    <3>1. k + 1 \in 0 .. last /\ k + 1 + 2 = k + 3 /\ k + 1 + 1 = k + 2
      BY <1>6
    <3> QED
      BY <2>1, <3>1
  <2>2. k + 2 \in 2 .. n /\ k + 2 - 1 = k + 1 /\ j \in 2 .. n /\ j \in 1 .. n
    BY <1>6, <2>1
  <2>3. PICK s \in Int : SlopeOf(c, f[k + 1], v, f[j], s)
    BY <1>4, <2>1, <2>2
  <2>4. PICK z \in Int : SlopeOf(c, f[j - 1], v, f[j], z)
    BY <1>4, <2>2
  <2>5. f[k + 1] \in Pairs(c) /\ f[j - 1] \in Pairs(c) /\ f[j] \in Pairs(c)
    BY <1>3, <1>4, <2>2
  <2>6. f[k + 1] = f[j - 1]
    BY <1>2, <2>3, <2>4, <2>5, SameSummand
  <2>7. j - 1 \in k + 2 .. n
    BY <1>6, <2>1
  <2> QED
    BY <1>6, <2>6, <2>7
<1>7. 0 .. last \subseteq S
  <2> HIDE DEF S, last
  <2> QED
    BY <1>1, <1>5, <1>6, BoundedInduction
<1>8. \A k \in 0 .. last : \A j \in k + 2 .. n : f[k + 1] # f[j]
  BY <1>7
<1>9. ASSUME NEW i \in 1 .. n, NEW j \in 1 .. n, i < j
      PROVE  f[i] # f[j]
  <2>1. i - 1 \in 0 .. last /\ i - 1 + 1 = i /\ j \in (i - 1) + 2 .. n
    BY <1>9
  <2> QED
    BY <1>8, <2>1
<1> SUFFICES ASSUME NEW i \in 1 .. n, NEW j \in 1 .. n, i # j PROVE f[i] # f[j]
  OBVIOUS
<1> QED
  <2>1. i < j \/ j < i
    OBVIOUS
  <2> QED
    BY <1>9, <2>1

\* A place in 0 .. 2 * p - 1 for every point of a curve.
PlaceOf(p, P) == IF 2 * P[2] < p THEN 2 * P[1] ELSE 2 * P[1] + 1

\* No two points have the same place.
LEMMA PlacesDiffer ==
  ASSUME NEW p \in Nat, p > 1, BruteForceIsPrime(p), NEW c \in Config(p),
         NEW P \in Pairs(c), NEW Q \in Pairs(c),
         On(c, P), On(c, Q), PlaceOf(p, P) = PlaceOf(p, Q)
  PROVE  P = Q
PROOF
<1> DEFINE x == P[1]
           y == P[2]
           z == Q[2]
           C == Cubic(c.a, c.b, x)
<1>1. p \in Nat \ {0} /\ p \in Int /\ IsPrime(p)
  BY TrialProvesPrime
<1>2. /\ c.m = p /\ P = <<P[1], P[2]>> /\ Q = <<Q[1], Q[2]>>
      /\ P[1] \in 0 .. p - 1 /\ Q[1] \in 0 .. p - 1 /\ y \in 0 .. p - 1 /\ z \in 0 .. p - 1
      /\ c.a \in Int /\ c.b \in Int
  BY PairsAre
<1>3. P[1] = Q[1] /\ (2 * y < p <=> 2 * z < p)
  BY <1>2 DEF PlaceOf
<1>4. Vanishes(p, C - y * y) /\ Vanishes(p, C - z * z)
  BY <1>2, <1>3 DEF On
<1>5. C \in Int
  BY <1>2 DEF Cubic
<1> HIDE DEF C, y, z
<1>6. Vanishes(p, z * z - y * y)
  <2>1. 1 \in Int /\ -1 \in Int /\ C - y * y \in Int /\ C - z * z \in Int
    BY <1>2, <1>5
  <2>2. Vanishes(p, 1 * (C - y * y) + (-1) * (C - z * z))
    BY <1>1, <1>4, <2>1, ZeroCombined
  <2>3. z * z - y * y = 1 * (C - y * y) + (-1) * (C - z * z)
    BY <1>2, <1>5
  <2> QED
    BY <2>2, <2>3
<1>7. y = z
  <2>1. Vanishes(p, (z + y) * (z - y))
    <3>1. z * z - y * y = (z + y) * (z - y)
      BY <1>2
    <3> QED
      BY <1>6, <3>1
  <2>2. z + y \in Int /\ z - y \in Int
    BY <1>2
  <2>3. Vanishes(p, z + y) \/ Vanishes(p, z - y)
    BY <1>1, <2>1, <2>2, ZeroFactor
  <2>4. CASE Vanishes(p, z - y)
    <3>1. z - y < p /\ 0 - (z - y) < p
      BY <1>2
    <3>2. z - y = 0
      BY <1>1, <2>2, <2>4, <3>1, ZeroSmall
    <3> QED
      BY <1>2, <3>2
  <2>5. CASE Vanishes(p, z + y)
    <3>1. CASE z + y < p
      <4>1. 0 - (z + y) < p
        BY <1>2, <1>1
      <4>2. z + y = 0
        BY <1>1, <2>2, <2>5, <3>1, <4>1, ZeroSmall
      <4> QED
        BY <1>2, <4>2
    <3>2. CASE z + y >= p
      <4>1. PICK k \in Int : z + y = p * k
        BY <2>5 DEF Vanishes
      <4>2. k >= 2 => p * k >= 2 * p
        BY <1>1
      <4>3. k <= 0 => p * k <= 0
        BY <1>1
      <4>4. k = 1
        BY <1>1, <1>2, <3>2, <4>1, <4>2, <4>3
      <4>5. z + y = p
        BY <1>1, <4>1, <4>4
      <4> QED
        BY <1>1, <1>2, <1>3, <4>5
    <3> QED
      BY <1>2, <3>1, <3>2
  <2> QED
    BY <2>3, <2>4, <2>5
<1> QED
  BY <1>2, <1>3, <1>7 DEF y, z

\* So the multiples are no more than there are places.
LEMMA ChainShort ==
  ASSUME NEW p \in Nat, p > 1, BruteForceIsPrime(p), NEW c \in Config(p),
         NEW v \in Pairs(c), On(c, v), ~Stops(c, v),
         NEW n \in Nat \ {0}, NEW f, IsChain(c, v, n, f)
  PROVE  n <= 2 * p
PROOF
<1> SUFFICES ASSUME n > 2 * p PROVE FALSE
  OBVIOUS
<1>1. IsPrime(p)
  BY TrialProvesPrime
<1> DEFINE D == 1 .. n
           T == 0 .. 2 * p - 1
           place == [k \in D |-> PlaceOf(p, f[k])]
<1>2. \A k \in D : f[k] \in Pairs(c) /\ On(c, f[k])
  BY <1>1, ChainOnCurve DEF IsChain
<1>3. place \in [D -> T]
  <2>1. ASSUME NEW k \in D PROVE PlaceOf(p, f[k]) \in T
    <3>1. f[k][1] \in 0 .. p - 1 /\ f[k][2] \in 0 .. p - 1
      BY <1>2, PairsAre
    <3> QED
      BY <3>1 DEF PlaceOf
  <2> QED
    BY <2>1
<1>4. IsFiniteSet(D) /\ Cardinality(D) = n
  <2>1. 1 <= n /\ n - 1 + 1 = n
    OBVIOUS
  <2> QED
    BY <2>1, FS_Interval
<1>5. IsFiniteSet(T) /\ Cardinality(T) = 2 * p
  <2>1. 0 <= 2 * p - 1 /\ 2 * p - 1 \in Int /\ 2 * p - 1 - 0 + 1 = 2 * p
    OBVIOUS
  <2> QED
    BY <2>1, FS_Interval
<1>6. \A i, j \in D : i # j => place[i] # place[j]
  <2> SUFFICES ASSUME NEW i \in D, NEW j \in D, i # j, place[i] = place[j] PROVE FALSE
    OBVIOUS
  <2>1. PlaceOf(p, f[i]) = PlaceOf(p, f[j])
    OBVIOUS
  <2>2. f[i] = f[j]
    BY <1>2, <2>1, PlacesDiffer
  <2>3. \A k, l \in 1 .. n : k # l => f[k] # f[l]
    BY <1>1, ChainDistinct
  <2> QED
    BY <2>2, <2>3
<1>7. Cardinality(T) < Cardinality(D)
  BY <1>4, <1>5
<1> HIDE DEF D, T, place
<1>8. \E i, j \in D : i # j /\ place[i] = place[j]
  <2>1. IsFiniteSet(D) /\ IsFiniteSet(T)
    BY <1>4, <1>5
  <2> QED
    BY <1>3, <1>7, <2>1, Pigeons
<1> QED
  BY <1>6, <1>8, Zenon

\* From t the count ends after k more steps.
Ends(c, v, t, k) ==
  \E h \in [0 .. k -> Element(c)] :
    /\ h[0] = t /\ Stops(c, h[k])
    /\ \A i \in 0 .. k - 1 : ~Stops(c, h[i]) /\ h[i + 1] = AddPoints(c, h[i], v)

\* Where the count does not end, it goes on with a sum.
LEMMA NextIsElement ==
  ASSUME NEW p \in Nat, p > 1, NEW c \in Config(p), NEW v \in Pairs(c),
         NEW t \in Element(c), ~Stops(c, t)
  PROVE  t \in Pairs(c) /\ AddPoints(c, t, v) \in Element(c)
PROOF
<1>1. t \in Pairs(c)
  BY DEF Stops, Element
<1> QED
  BY <1>1, SumIs

\* The count ends at once where it stops.
LEMMA EndsNow ==
  ASSUME NEW p \in Nat, p > 1, NEW c \in Config(p), NEW v \in Pairs(c), NEW t \in Element(c)
  PROVE  Ends(c, v, t, 0) <=> Stops(c, t)
PROOF
<1>1. ASSUME Ends(c, v, t, 0) PROVE Stops(c, t)
  BY <1>1 DEF Ends
<1>2. ASSUME Stops(c, t) PROVE Ends(c, v, t, 0)
  <2> DEFINE h == [i \in 0 .. 0 |-> t]
  <2>1. h \in [0 .. 0 -> Element(c)] /\ h[0] = t /\ 0 .. 0 - 1 = {}
    OBVIOUS
  <2> HIDE DEF h
  <2> QED
    BY <1>2, <2>1 DEF Ends
<1> QED
  BY <1>1, <1>2

\* Elsewhere it ends one step later than from the next multiple.
LEMMA EndsLater ==
  ASSUME NEW p \in Nat, p > 1, NEW c \in Config(p), NEW v \in Pairs(c), NEW t \in Element(c),
         NEW k \in Nat
  PROVE  Ends(c, v, t, k + 1) <=> ~Stops(c, t) /\ Ends(c, v, AddPoints(c, t, v), k)
PROOF
<1>1. ASSUME Ends(c, v, t, k + 1) PROVE ~Stops(c, t) /\ Ends(c, v, AddPoints(c, t, v), k)
  <2>1. PICK h \in [0 .. k + 1 -> Element(c)] :
          /\ h[0] = t /\ Stops(c, h[k + 1])
          /\ \A i \in 0 .. k : ~Stops(c, h[i]) /\ h[i + 1] = AddPoints(c, h[i], v)
    <3>1. k + 1 - 1 = k
      OBVIOUS
    <3> QED
      BY <1>1, <3>1 DEF Ends
  <2> DEFINE path == [i \in 0 .. k |-> h[i + 1]]
  <2>2. path \in [0 .. k -> Element(c)]
    OBVIOUS
  <2>3. ~Stops(c, t) /\ path[0] = AddPoints(c, t, v)
    <3>1. 0 \in 0 .. k /\ 0 + 1 = 1
      OBVIOUS
    <3> QED
      BY <2>1, <3>1
  <2>4. Stops(c, path[k])
    BY <2>1
  <2>5. ASSUME NEW i \in 0 .. k - 1
        PROVE  ~Stops(c, path[i]) /\ path[i + 1] = AddPoints(c, path[i], v)
    <3>1. i + 1 \in 0 .. k /\ i \in 0 .. k
      OBVIOUS
    <3>2. path[i] = h[i + 1] /\ path[i + 1] = h[i + 1 + 1]
      BY <3>1
    <3> QED
      BY <2>1, <3>1, <3>2
  <2> HIDE DEF path
  <2> QED
    BY <2>2, <2>3, <2>4, <2>5 DEF Ends
<1>2. ASSUME ~Stops(c, t), Ends(c, v, AddPoints(c, t, v), k) PROVE Ends(c, v, t, k + 1)
  <2>1. PICK h \in [0 .. k -> Element(c)] :
          /\ h[0] = AddPoints(c, t, v) /\ Stops(c, h[k])
          /\ \A i \in 0 .. k - 1 : ~Stops(c, h[i]) /\ h[i + 1] = AddPoints(c, h[i], v)
    BY <1>2 DEF Ends
  <2> DEFINE path == [i \in 0 .. k + 1 |-> IF i = 0 THEN t ELSE h[i - 1]]
  <2>2. path \in [0 .. k + 1 -> Element(c)]
    <3>1. ASSUME NEW i \in 0 .. k + 1, i # 0 PROVE h[i - 1] \in Element(c)
      <4>1. i - 1 \in 0 .. k
        BY <3>1
      <4> QED
        BY <4>1
    <3> QED
      BY <3>1
  <2>3. path[0] = t /\ Stops(c, path[k + 1])
    <3>1. path[k + 1] = h[k]
      OBVIOUS
    <3> QED
      BY <2>1, <3>1
  <2>4. ASSUME NEW i \in 0 .. k
        PROVE  ~Stops(c, path[i]) /\ path[i + 1] = AddPoints(c, path[i], v)
    <3>1. path[i + 1] = h[i]
      OBVIOUS
    <3>2. CASE i = 0
      <4>1. path[i] = t
        BY <3>2
      <4> QED
        BY <1>2, <2>1, <3>1, <3>2, <4>1
    <3>3. CASE i # 0
      <4>1. i - 1 \in 0 .. k - 1 /\ path[i] = h[i - 1] /\ i - 1 + 1 = i
        BY <3>3
      <4> QED
        BY <2>1, <3>1, <4>1
    <3> QED
      BY <3>2, <3>3
  <2>5. k + 1 - 1 = k
    OBVIOUS
  <2> HIDE DEF path
  <2> QED
    BY <2>2, <2>3, <2>4, <2>5 DEF Ends
<1> QED
  BY <1>1, <1>2

\* It ends after one number of steps.
LEMMA EndsOnce ==
  ASSUME NEW p \in Nat, p > 1, NEW c \in Config(p), NEW v \in Pairs(c)
  PROVE  \A k \in Nat : \A t \in Element(c) : \A l \in Nat :
           Ends(c, v, t, k) /\ Ends(c, v, t, l) => k = l
PROOF
<1> DEFINE S == {k \in Nat : \A t \in Element(c) : \A l \in Nat :
                   Ends(c, v, t, k) /\ Ends(c, v, t, l) => k = l}
<1>1. 0 \in S
  <2> SUFFICES ASSUME NEW t \in Element(c), NEW l \in Nat,
                      Ends(c, v, t, 0), Ends(c, v, t, l), l # 0
               PROVE  FALSE
    OBVIOUS
  <2>1. l - 1 \in Nat /\ l - 1 + 1 = l
    OBVIOUS
  <2>2. ~Stops(c, t)
    BY <2>1, EndsLater
  <2> QED
    BY <2>2, EndsNow
<1>2. ASSUME NEW k \in S PROVE k + 1 \in S
  <2>1. k + 1 \in Nat
    OBVIOUS
  <2> SUFFICES ASSUME NEW t \in Element(c), NEW l \in Nat,
                      Ends(c, v, t, k + 1), Ends(c, v, t, l)
               PROVE  k + 1 = l
    BY <2>1
  <2>2. ~Stops(c, t) /\ Ends(c, v, AddPoints(c, t, v), k)
    BY EndsLater
  <2>3. l # 0
    BY <2>2, EndsNow
  <2>4. l - 1 \in Nat /\ l - 1 + 1 = l
    BY <2>3
  <2>5. Ends(c, v, AddPoints(c, t, v), l - 1)
    BY <2>4, EndsLater
  <2>6. AddPoints(c, t, v) \in Element(c)
    BY <2>2, NextIsElement
  <2>7. k = l - 1
    BY <2>2, <2>4, <2>5, <2>6
  <2> QED
    BY <2>4, <2>7
<1>3. S = Nat
  <2>1. S \in SUBSET Nat
    OBVIOUS
  <2> HIDE DEF S
  <2> QED
    BY <1>1, <1>2, <2>1, SetInduction
<1> QED
  BY <1>3

\* What PickRandomG counts from order on.
CountBody(c, v, f) ==
  [start \in Nat |-> [temp \in Element(c) |->
     IF temp = None \/ temp = NegatePoint(c, temp)
       THEN start ELSE f[start + 1][AddPoints(c, temp, v)]]]

Counts(c, v) == CHOOSE f : f = CountBody(c, v, f)

\* The function that CountOrder defines by recursion exists: it adds
\* the number of steps to the end, and is 0 where there is no end.
LEMMA CountsExist ==
  ASSUME NEW p \in Nat, p > 1, NEW c \in Config(p), NEW v \in Pairs(c)
  PROVE  Counts(c, v) = CountBody(c, v, Counts(c, v))
PROOF
<1> DEFINE Steps(t) == CHOOSE k \in Nat : Ends(c, v, t, k)
           Some(t) == \E k \in Nat : Ends(c, v, t, k)
           f == [start \in Nat |-> [temp \in Element(c) |->
                   IF Some(temp) THEN start + Steps(temp) ELSE 0]]
<1>1. ASSUME NEW start \in Nat, NEW t \in Element(c)
      PROVE  f[start][t] = IF Stops(c, t) THEN start ELSE f[start + 1][AddPoints(c, t, v)]
  <2>1. f[start][t] = IF Some(t) THEN start + Steps(t) ELSE 0
    OBVIOUS
  <2>2. CASE Stops(c, t)
    <3>1. Ends(c, v, t, 0)
      BY <2>2, EndsNow
    <3>2. Some(t) /\ Steps(t) \in Nat /\ Ends(c, v, t, Steps(t))
      BY <3>1
    <3> HIDE DEF Steps, Some, f
    <3>3. Steps(t) = 0
      BY <3>1, <3>2, EndsOnce
    <3> QED
      BY <2>1, <2>2, <3>2, <3>3
  <2>3. CASE ~Stops(c, t)
    <3> DEFINE u == AddPoints(c, t, v)
    <3>1. u \in Element(c)
      BY <2>3, NextIsElement
    <3>2. f[start + 1][u] = IF Some(u) THEN start + 1 + Steps(u) ELSE 0
      <4> HIDE DEF Steps, Some, u
      <4>1. start + 1 \in Nat
        OBVIOUS
      <4> QED
        BY <3>1, <4>1
    <3>3. CASE Some(u)
      <4>1. Steps(u) \in Nat /\ Ends(c, v, u, Steps(u))
        BY <3>3
      <4>2. Ends(c, v, t, Steps(u) + 1) /\ Steps(u) + 1 \in Nat
        <5> HIDE DEF Steps
        <5> QED
          BY <2>3, <4>1, EndsLater
      <4>3. Some(t) /\ Steps(t) \in Nat /\ Ends(c, v, t, Steps(t))
        <5> DEFINE k == Steps(u) + 1
        <5>1. k \in Nat /\ Ends(c, v, t, k)
          BY <4>2
        <5> HIDE DEF k
        <5> QED
          BY <5>1
      <4> HIDE DEF Steps, Some, f
      <4>4. Steps(t) = Steps(u) + 1
        BY <4>2, <4>3, EndsOnce
      <4> QED
        BY <2>1, <2>3, <3>2, <3>3, <4>1, <4>3, <4>4
    <3>4. CASE ~Some(u)
      <4>1. ~Some(t)
        <5> SUFFICES ASSUME NEW k \in Nat, Ends(c, v, t, k) PROVE FALSE
          OBVIOUS
        <5>1. k # 0
          BY <2>3, EndsNow
        <5>2. k - 1 \in Nat /\ k - 1 + 1 = k
          BY <5>1
        <5>3. Ends(c, v, u, k - 1)
          BY <5>2, EndsLater
        <5> QED
          BY <3>4, <5>2, <5>3
      <4> HIDE DEF Steps, Some, f
      <4> QED
        BY <2>1, <2>3, <3>2, <3>4, <4>1
    <3> QED
      BY <3>3, <3>4
  <2> QED
    BY <2>2, <2>3
<1>2. f = CountBody(c, v, f)
  <2> DEFINE path == CountBody(c, v, f)
  <2>1. /\ f = [start \in Nat |-> f[start]] /\ path = [start \in Nat |-> path[start]]
        /\ \A start \in Nat : f[start] = [temp \in Element(c) |-> f[start][temp]]
        /\ \A start \in Nat : path[start] = [temp \in Element(c) |-> path[start][temp]]
    BY DEF CountBody
  <2>2. \A start \in Nat : \A temp \in Element(c) :
          path[start][temp] = IF Stops(c, temp) THEN start
                           ELSE f[start + 1][AddPoints(c, temp, v)]
    <3> HIDE DEF f
    <3> QED
      BY DEF CountBody, Stops
  <2> HIDE DEF f, path
  <2>3. \A start \in Nat : \A temp \in Element(c) : f[start][temp] = path[start][temp]
    BY <1>1, <2>2
  <2>4. \A start \in Nat : f[start] = path[start]
    BY <2>1, <2>3
  <2>5. f = path
    BY <2>1, <2>4
  <2> QED
    BY <2>5 DEF path
<1> HIDE DEF f
<1> QED
  BY <1>2 DEF Counts

\* The count gives, after k steps, that many more.
LEMMA CountedSteps ==
  ASSUME NEW p \in Nat, p > 1, NEW c \in Config(p), NEW v \in Pairs(c)
  PROVE  \A k \in Nat : \A t \in Element(c), start \in Nat :
           Ends(c, v, t, k) => Counts(c, v)[start][t] = start + k
PROOF
<1> DEFINE f == Counts(c, v)
           S == {k \in Nat : \A t \in Element(c), start \in Nat :
                   Ends(c, v, t, k) => f[start][t] = start + k}
<1>1. ASSUME NEW t \in Element(c), NEW start \in Nat
      PROVE  f[start][t] = IF Stops(c, t) THEN start ELSE f[start + 1][AddPoints(c, t, v)]
  <2>1. f = CountBody(c, v, f)
    BY CountsExist
  <2> HIDE DEF f
  <2>2. CountBody(c, v, f)[start][t] =
          IF Stops(c, t) THEN start ELSE f[start + 1][AddPoints(c, t, v)]
    BY DEF CountBody, Stops
  <2> QED
    BY <2>1, <2>2
<1> HIDE DEF f
<1>2. 0 \in S
  BY <1>1, EndsNow
<1>3. ASSUME NEW k \in S PROVE k + 1 \in S
  <2>1. k + 1 \in Nat
    OBVIOUS
  <2> SUFFICES ASSUME NEW t \in Element(c), NEW start \in Nat, Ends(c, v, t, k + 1)
               PROVE  f[start][t] = start + (k + 1)
    BY <2>1
  <2>2. ~Stops(c, t) /\ Ends(c, v, AddPoints(c, t, v), k)
    BY EndsLater
  <2>3. AddPoints(c, t, v) \in Element(c) /\ start + 1 \in Nat
    BY <2>2, NextIsElement
  <2>4. f[start + 1][AddPoints(c, t, v)] = start + 1 + k
    BY <2>2, <2>3
  <2> QED
    BY <1>1, <2>2, <2>4
<1>4. S = Nat
  <2>1. S \in SUBSET Nat
    OBVIOUS
  <2> HIDE DEF S
  <2> QED
    BY <1>2, <1>3, <2>1, SetInduction
<1> QED
  BY <1>4 DEF f

\* The count ends before it has seen more points than there are.
LEMMA CountEndsSoon ==
  ASSUME NEW p \in Nat, p > 1, BruteForceIsPrime(p), NEW c \in Config(p),
         NEW v \in Pairs(c), On(c, v)
  PROVE  \E k \in 0 .. 2 * p : Ends(c, v, v, k)
PROOF
<1> DEFINE last == 2 * p
           V == Element(c)
           next == [n \in 1 .. last |-> [t \in V |->
                      IF Stops(c, t) THEN t ELSE AddPoints(c, t, v)]]
<1>1. last \in Nat /\ v \in V
  BY DEF Element
<1>2. next \in [1 .. last -> [V -> V]]
  <2>1. \A t \in V : ~Stops(c, t) => AddPoints(c, t, v) \in V
    BY NextIsElement
  <2> QED
    BY <2>1
<1>3. PICK h \in [0 .. last -> V] :
        h[0] = v /\ \A n \in 1 .. last : h[n] = next[n][h[n - 1]]
  <2> HIDE DEF next, V, last
  <2>1. HasRecursion(last, V)
    BY <1>1, RecursionExists, Zenon
  <2> QED
    BY <1>1, <1>2, <2>1, Zenon DEF HasRecursion
<1>4. ASSUME NEW n \in 0 .. last - 1, ~Stops(c, h[n])
      PROVE  h[n + 1] = AddPoints(c, h[n], v)
  <2>1. n + 1 \in 1 .. last /\ n + 1 - 1 = n /\ n \in 0 .. last
    BY <1>1
  <2>2. h[n] \in V
    BY <1>3, <2>1
  <2>3. next[n + 1][h[n]] = AddPoints(c, h[n], v)
    BY <1>4, <2>1, <2>2
  <2> HIDE DEF next, last
  <2> QED
    BY <1>3, <2>1, <2>3
<1> HIDE DEF next
<1> DEFINE S == {k \in 0 .. last : Stops(c, h[k])}
<1>5. S # {}
  <2> SUFFICES ASSUME \A k \in 0 .. last : ~Stops(c, h[k]) PROVE FALSE
    OBVIOUS
  <2> DEFINE n == 2 * p + 1
             f == [i \in 1 .. n |-> h[i - 1]]
  <2>1. ASSUME NEW i \in 1 .. n PROVE f[i] = h[i - 1] /\ f[i] \in Pairs(c) /\ ~Stops(c, f[i])
    <3>1. i - 1 \in 0 .. last
      OBVIOUS
    <3>2. h[i - 1] \in V /\ ~Stops(c, h[i - 1])
      BY <3>1, <1>3
    <3> QED
      BY <3>2, NextIsElement
  <2>2. ASSUME NEW i \in 1 .. n - 1 PROVE f[i + 1] = AddPoints(c, f[i], v)
    <3>1. i - 1 \in 0 .. last - 1 /\ i - 1 + 1 = i /\ i - 1 \in 0 .. last
      OBVIOUS
    <3>2. h[i] = AddPoints(c, h[i - 1], v)
      BY <1>4, <3>1
    <3>3. f[i + 1] = h[i] /\ f[i] = h[i - 1]
      OBVIOUS
    <3> QED
      BY <3>2, <3>3
  <2>3. f \in [1 .. n -> Pairs(c)] /\ f[1] = v
    <3>1. f[1] = h[0]
      OBVIOUS
    <3>2. f = [i \in 1 .. n |-> f[i]]
      OBVIOUS
    <3> HIDE DEF f
    <3> QED
      BY <1>3, <2>1, <3>1, <3>2
  <2>4. n \in Nat \ {0} /\ \A i \in 1 .. n - 1 : i \in 1 .. n
    OBVIOUS
  <2>5. ~Stops(c, v)
    BY <1>3, <1>1
  <2> HIDE DEF f
  <2>6. IsChain(c, v, n, f)
    BY <2>1, <2>2, <2>3, <2>4 DEF IsChain
  <2>7. n <= 2 * p
    <3> HIDE DEF n
    <3> QED
      BY <2>4, <2>5, <2>6, ChainShort
  <2> QED
    BY <2>7
<1>6. PICK k \in S : \A l \in S : k <= l
  <2>1. S \in SUBSET (0 .. last)
    OBVIOUS
  <2> HIDE DEF S, last
  <2> QED
    BY <1>1, <1>5, <2>1, Least
<1>7. Ends(c, v, v, k)
  <2> DEFINE path == [i \in 0 .. k |-> h[i]]
  <2>1. k \in 0 .. last /\ Stops(c, h[k])
    OBVIOUS
  <2>2. path \in [0 .. k -> V] /\ path[0] = v /\ path[k] = h[k]
    BY <1>3, <2>1
  <2>3. ASSUME NEW i \in 0 .. k - 1
        PROVE  ~Stops(c, path[i]) /\ path[i + 1] = AddPoints(c, path[i], v)
    <3>1. i \in 0 .. last - 1 /\ i \in 0 .. last /\ i < k
      BY <2>1
    <3>2. ~Stops(c, h[i])
      BY <1>6, <3>1
    <3>3. h[i + 1] = AddPoints(c, h[i], v)
      BY <1>4, <3>1, <3>2
    <3>4. path[i] = h[i] /\ path[i + 1] = h[i + 1]
      BY <2>1
    <3> QED
      BY <3>2, <3>3, <3>4
  <2> HIDE DEF path
  <2> QED
    BY <2>1, <2>2, <2>3 DEF Ends
<1> QED
  BY <1>7

\* The order counted is at most twice the modulus and one.
LEMMA OrderCounted ==
  ASSUME NEW p \in Nat, p > 1, BruteForceIsPrime(p), NEW c \in Config(p),
         NEW v \in Pairs(c), On(c, v)
  PROVE  CountOrder(c, v) \in 1 .. 2 * p + 1
PROOF
<1>1. PICK k \in 0 .. 2 * p : Ends(c, v, v, k)
  BY CountEndsSoon
<1>2. k \in Nat /\ 1 \in Nat /\ v \in Element(c)
  BY DEF Element
<1>3. Counts(c, v)[1][v] = 1 + k
  BY <1>1, <1>2, CountedSteps
<1>4. CountOrder(c, v) = Counts(c, v)[1][v]
  BY DEF CountOrder, Counts, CountBody
<1> QED
  BY <1>1, <1>3, <1>4

-----------------------------------------------------------------------------
(* Multiplication of a point.                                              *)

\* A turn of the loop with left turns' bits: the sum and whether it gives up.
SumOf(c, left, result, temp) ==
  IF left % 2 = 0 THEN result ELSE IF result = None THEN temp ELSE AddPoints(c, result, temp)

GivesUp(c, left, result, temp) ==
  AddPoints(c, temp, temp) = None \/ (left % 2 = 1 /\ SumOf(c, left, result, temp) = None)

MultiplyBody(c, times, f) ==
  [left \in 0 .. times |-> [result \in Element(c) |-> [temp \in Pairs(c) |->
     LET sum == IF left % 2 = 0 THEN result
                ELSE IF result = None THEN temp ELSE AddPoints(c, result, temp)
         double == AddPoints(c, temp, temp)
     IN  IF left = 0 THEN result
         ELSE IF double = None \/ (left % 2 = 1 /\ sum = None) THEN None
         ELSE f[left \div 2][sum][double]]]]

Multiples(c, times) == CHOOSE f : f = MultiplyBody(c, times, f)

\* A turn of the multiplication goes on with a sum and a point.
LEMMA TurnTypes ==
  ASSUME NEW p \in Nat, p > 1, NEW c \in Config(p), NEW left \in Nat,
         NEW result \in Element(c), NEW temp \in Pairs(c)
  PROVE  /\ SumOf(c, left, result, temp) \in Element(c)
         /\ ~GivesUp(c, left, result, temp) => AddPoints(c, temp, temp) \in Pairs(c)
PROOF
<1>1. AddPoints(c, temp, temp) \in Element(c) /\ temp \in Element(c)
  BY SumIs DEF Element
<1>2. result # None => AddPoints(c, result, temp) \in Element(c)
  <2>1. result # None => result \in Pairs(c)
    BY DEF Element
  <2> QED
    BY <2>1, SumIs
<1> QED
  BY <1>1, <1>2 DEF SumOf, GivesUp, Element

\* The function that MultiplyPoint defines by recursion exists.
LEMMA MultiplesExist ==
  ASSUME NEW p \in Nat, p > 1, NEW c \in Config(p), NEW times \in Nat
  PROVE  /\ Multiples(c, times) = MultiplyBody(c, times, Multiples(c, times))
         /\ \A left \in 0 .. times, result \in Element(c), temp \in Pairs(c) :
              Multiples(c, times)[left][result][temp] \in Element(c)
PROOF
<1> DEFINE E == Element(c)
           P == Pairs(c)
           V == [E -> [P -> E]]
           first == [result \in E |-> [temp \in P |-> result]]
           Turned(n, path) ==
             [result \in E |-> [temp \in P |->
                IF GivesUp(c, n, result, temp) THEN None
                ELSE path[SumOf(c, n, result, temp)][AddPoints(c, temp, temp)]]]
           next == [n \in 1 .. times |-> [path \in V |-> Turned(n, path)]]
           below == [n \in 1 .. times |-> n \div 2]
<1>1. first \in V
  OBVIOUS
<1>2. next \in [1 .. times -> [V -> V]]
  <2>1. ASSUME NEW n \in 1 .. times, NEW path \in V PROVE Turned(n, path) \in V
    <3>1. ASSUME NEW result \in E, NEW temp \in P
          PROVE  (IF GivesUp(c, n, result, temp) THEN None
                  ELSE path[SumOf(c, n, result, temp)][AddPoints(c, temp, temp)]) \in E
      <4>1. None \in E
        BY DEF Element
      <4>2. CASE ~GivesUp(c, n, result, temp)
        <5>1. SumOf(c, n, result, temp) \in E /\ AddPoints(c, temp, temp) \in P
          BY <4>2, TurnTypes
        <5> HIDE DEF E, P
        <5>2. path[SumOf(c, n, result, temp)] \in [P -> E]
          BY <5>1
        <5> QED
          BY <4>2, <5>1, <5>2
      <4> QED
        BY <4>1, <4>2
    <3> HIDE DEF E, P
    <3> QED
      BY <3>1
  <2> HIDE DEF Turned, V
  <2> QED
    BY <2>1
<1>3. below \in [1 .. times -> Nat] /\ \A n \in 1 .. times : below[n] < n
  <2>1. \A n \in 1 .. times : n \div 2 \in Nat /\ n \div 2 < n
    OBVIOUS
  <2> QED
    BY <2>1
<1>4. PICK f \in [0 .. times -> V] :
        f[0] = first /\ \A n \in 1 .. times : f[n] = next[n][f[below[n]]]
  <2> HIDE DEF V, first, next, below
  <2>1. HasEarlierRecursion(times, V, below)
    BY <1>3, EarlierRecursionExists
  <2> QED
    BY <1>1, <1>2, <2>1, Zenon DEF HasEarlierRecursion
<1>5. ASSUME NEW n \in 1 .. times PROVE f[n] = Turned(n, f[n \div 2])
  <2>1. n \div 2 \in 0 .. times
    OBVIOUS
  <2>2. f[n \div 2] \in V
    BY <2>1
  <2>3. f[n] = next[n][f[n \div 2]]
    BY <1>4
  <2> HIDE DEF V, Turned
  <2> QED
    BY <2>2, <2>3
<1>6. f = MultiplyBody(c, times, f)
  <2> DEFINE path == MultiplyBody(c, times, f)
  <2>1. ASSUME NEW left \in 0 .. times PROVE f[left] = path[left]
    <3>1. path[left] = [result \in E |-> [temp \in P |->
                       IF left = 0 THEN result
                       ELSE IF GivesUp(c, left, result, temp) THEN None
                       ELSE f[left \div 2][SumOf(c, left, result, temp)][AddPoints(c, temp, temp)]]]
      BY DEF MultiplyBody, GivesUp, SumOf
    <3>2. CASE left = 0
      <4>1. path[left] = first
        <5> HIDE DEF E, P, path
        <5> QED
          BY <3>1, <3>2
      <4> QED
        BY <1>4, <3>2, <4>1
    <3>3. CASE left # 0
      <4>1. left \in 1 .. times
        BY <3>3
      <4>2. path[left] = Turned(left, f[left \div 2])
        <5> HIDE DEF E, P, path
        <5> QED
          BY <3>1, <3>3
      <4> QED
        BY <1>5, <4>1, <4>2
    <3> QED
      BY <3>2, <3>3
  <2>2. path = [left \in 0 .. times |-> path[left]] /\ f = [left \in 0 .. times |-> f[left]]
    BY DEF MultiplyBody
  <2> HIDE DEF path
  <2>3. f = path
    BY <2>1, <2>2
  <2> QED
    BY <2>3 DEF path
<1>7. Multiples(c, times) = MultiplyBody(c, times, Multiples(c, times))
  BY <1>6 DEF Multiples
<1> DEFINE M == Multiples(c, times)
           S == {k \in 0 .. times : \A left \in 0 .. k : M[left] \in V}
<1>8. ASSUME NEW left \in 0 .. times
      PROVE  M[left] = IF left = 0 THEN first ELSE Turned(left, M[left \div 2])
  <2> HIDE DEF M
  <2>1. M = MultiplyBody(c, times, M)
    BY <1>7 DEF M
  <2>2. MultiplyBody(c, times, M)[left] =
          [result \in E |-> [temp \in P |->
             IF left = 0 THEN result
             ELSE IF GivesUp(c, left, result, temp) THEN None
             ELSE M[left \div 2][SumOf(c, left, result, temp)][AddPoints(c, temp, temp)]]]
    BY DEF MultiplyBody, GivesUp, SumOf
  <2> DEFINE h == M[left]
  <2>3. h = [result \in E |-> [temp \in P |->
             IF left = 0 THEN result
             ELSE IF GivesUp(c, left, result, temp) THEN None
             ELSE M[left \div 2][SumOf(c, left, result, temp)][AddPoints(c, temp, temp)]]]
    BY <2>1, <2>2
  <2> HIDE DEF h, E, P
  <2>4. left = 0 => h = first
    BY <2>3
  <2>5. left # 0 => h = Turned(left, M[left \div 2])
    BY <2>3
  <2> QED
    BY <2>4, <2>5 DEF h
<1> HIDE DEF M, V, first, Turned
<1>9. 0 \in S
  BY <1>1, <1>8
<1>10. ASSUME NEW k \in S, k \in 0 .. times - 1 PROVE k + 1 \in S
  <2>1. k + 1 \in 1 .. times /\ (k + 1) \div 2 \in 0 .. k /\ k + 1 \in 0 .. times
    BY <1>10
  <2>2. M[(k + 1) \div 2] \in V
    BY <2>1
  <2>3. Turned(k + 1, M[(k + 1) \div 2]) \in V
    <3>1. next[k + 1][M[(k + 1) \div 2]] \in V
      <4> HIDE DEF next
      <4> QED
        BY <1>2, <2>1, <2>2
    <3> QED
      BY <2>1, <2>2, <3>1
  <2>4. M[k + 1] \in V
    BY <1>8, <2>1, <2>3
  <2>5. \A left \in 0 .. k + 1 : left \in 0 .. k \/ left = k + 1
    BY <1>10
  <2> QED
    BY <1>10, <2>1, <2>4, <2>5
<1>11. \A left \in 0 .. times : M[left] \in V
  <2> HIDE DEF S
  <2>1. 0 .. times \subseteq S
    BY <1>9, <1>10, BoundedInduction
  <2>2. times \in S
    BY <2>1
  <2> QED
    BY <2>2 DEF S
<1>12. \A left \in 0 .. times, result \in E, temp \in P : M[left][result][temp] \in E
  <2> SUFFICES ASSUME NEW left \in 0 .. times, NEW result \in E, NEW temp \in P
               PROVE  M[left][result][temp] \in E
    OBVIOUS
  <2>1. M[left] \in [E -> [P -> E]]
    BY <1>11 DEF V
  <2> HIDE DEF E, P
  <2> QED
    BY <2>1
<1> QED
  BY <1>7, <1>12 DEF M

\* A product is a pair of coordinates or none.
LEMMA ProductTypes ==
  ASSUME NEW p \in Nat, p > 1, NEW c \in Config(p), NEW times \in Nat, NEW v \in Pairs(c)
  PROVE  MultiplyPoint(c, times, v) \in Element(c)
PROOF
<1>1. MultiplyPoint(c, times, v) = Multiples(c, times)[times][None][v]
  BY DEF MultiplyPoint, Multiples, MultiplyBody
<1>2. None \in Element(c) /\ times \in 0 .. times
  BY DEF Element
<1> QED
  BY <1>1, <1>2, MultiplesExist

-----------------------------------------------------------------------------
(* What the experiment draws and computes.                                 *)

\* The curve of a point that the iterator gives.
LEMMA OnCurveIs ==
  ASSUME NEW p \in Nat, p > 1, NEW c \in Config(p), NEW P \in Pairs(c)
  PROVE  OnCurve(c, P[1], P[2]) <=> On(c, P)
PROOF
<1> DEFINE x == P[1]
           y == P[2]
           C == Cubic(c.a, c.b, x)
           e == y * y - C
<1>1. p \in Nat \ {0} /\ p \in Int /\ c.m = p /\ x \in Int /\ y \in Int /\ c.a \in Int /\ c.b \in Int
  BY PairsAre
<1>2. C \in Int
  BY <1>1 DEF Cubic
<1>3. RightSide(c, x) = C
  BY DEF RightSide, Cubic
<1>4. OnCurve(c, x, y) <=> e % p = 0
  BY <1>1, <1>3 DEF OnCurve
<1>5. On(c, P) <=> Vanishes(p, C - y * y)
  BY <1>1 DEF On
<1> HIDE DEF C, x, y
<1>6. e \in Int
  BY <1>1, <1>2
<1>7. ASSUME e % p = 0 PROVE Vanishes(p, C - y * y)
  <2> HIDE DEF e
  <2>1. Alike(p, e % p, e)
    BY <1>1, <1>6, AlikeRemainder
  <2>2. PICK k \in Int : 0 - e = p * k
    BY <1>7, <2>1 DEF Alike
  <2>3. C - y * y = p * k
    BY <1>1, <1>2, <2>2 DEF e
  <2> QED
    BY <2>3 DEF Vanishes
<1>8. ASSUME Vanishes(p, C - y * y) PROVE e % p = 0
  <2>1. PICK k \in Int : C - y * y = p * k
    BY <1>8 DEF Vanishes
  <2>2. e = p * (0 - k) + 0 /\ 0 - k \in Int /\ 0 \in 0 .. p - 1
    BY <1>1, <1>2, <2>1
  <2> HIDE DEF e
  <2>3. (p * (0 - k) + 0) % p = 0
    BY <1>1, <2>2, Remainders
  <2> QED
    BY <2>2, <2>3
<1> QED
  BY <1>4, <1>5, <1>7, <1>8 DEF x, y

\* What PickRandomG takes for the order, point by point.
IsBest(c, seen, best) ==
  /\ best[0] = 1
  /\ \A i \in 1 .. Len(seen) :
       best[i] = IF BetterOrder(CountOrder(c, seen[i]), best[i - 1])
                   THEN CountOrder(c, seen[i]) ELSE best[i - 1]
  /\ PickRandomG(c, seen).order = best[Len(seen)]

\* The function that PickRandomG defines by recursion exists.
LEMMA BestExists ==
  ASSUME NEW p \in Nat, p > 1, BruteForceIsPrime(p), NEW c \in Config(p),
         NEW seen \in Seq(Pairs(c)), \A i \in 1 .. Len(seen) : On(c, seen[i])
  PROVE  \E best : /\ IsBest(c, seen, best)
                   /\ \A i \in 0 .. Len(seen) : best[i] \in 1 .. 2 * p + 1
PROOF
<1> DEFINE last == Len(seen)
           V == 1 .. 2 * p + 1
           Order == [i \in DOMAIN seen |-> CountOrder(c, seen[i])]
           Body(f) == [i \in 0 .. last |->
                         IF i = 0 THEN 1
                         ELSE IF BetterOrder(Order[i], f[i - 1]) THEN Order[i] ELSE f[i - 1]]
           best == CHOOSE f : f = Body(f)
           next == [i \in 1 .. last |-> [b \in V |->
                      IF BetterOrder(Order[i], b) THEN Order[i] ELSE b]]
<1>1. last \in Nat /\ DOMAIN seen = 1 .. last /\ 1 \in V
  OBVIOUS
<1>2. \A i \in 1 .. last : Order[i] \in V
  <2>1. ASSUME NEW i \in 1 .. last PROVE Order[i] \in V
    <3>1. seen[i] \in Pairs(c) /\ On(c, seen[i])
      OBVIOUS
    <3>2. CountOrder(c, seen[i]) \in V
      BY <3>1, OrderCounted
    <3> QED
      BY <1>1, <3>2
  <2> QED
    BY <2>1
<1>3. next \in [1 .. last -> [V -> V]]
  <2> HIDE DEF V, Order, last
  <2> QED
    BY <1>2
<1>4. PICK f \in [0 .. last -> V] :
        f[0] = 1 /\ \A n \in 1 .. last : f[n] = next[n][f[n - 1]]
  <2> HIDE DEF next, V, last
  <2>1. HasRecursion(last, V)
    BY <1>1, RecursionExists, Zenon
  <2> QED
    BY <1>1, <1>3, <2>1, Zenon DEF HasRecursion
<1>5. f = Body(f)
  <2>1. ASSUME NEW i \in 0 .. last PROVE f[i] = Body(f)[i]
    <3>1. CASE i = 0
      BY <1>4, <3>1
    <3>2. CASE i # 0
      <4>1. i \in 1 .. last /\ i - 1 \in 0 .. last
        BY <1>1, <3>2
      <4>2. f[i - 1] \in V
        BY <4>1
      <4> HIDE DEF V, Order, last
      <4>3. next[i][f[i - 1]] = IF BetterOrder(Order[i], f[i - 1]) THEN Order[i] ELSE f[i - 1]
        BY <4>1, <4>2
      <4>4. f[i] = next[i][f[i - 1]]
        BY <1>4, <4>1
      <4> HIDE DEF next
      <4> QED
        BY <3>2, <4>3, <4>4
    <3> QED
      BY <3>1, <3>2
  <2>2. f = [i \in 0 .. last |-> f[i]] /\ Body(f) = [i \in 0 .. last |-> Body(f)[i]]
    OBVIOUS
  <2> HIDE DEF Body
  <2> QED
    BY <2>1, <2>2
<1>6. best = Body(best)
  <2> HIDE DEF Body
  <2> QED
    BY <1>5
<1> DEFINE S == {k \in 0 .. last : best[k] \in V}
<1>7. ASSUME NEW i \in 0 .. last
      PROVE  best[i] = IF i = 0 THEN 1
                       ELSE IF BetterOrder(Order[i], best[i - 1]) THEN Order[i] ELSE best[i - 1]
  <2> HIDE DEF best, Order
  <2> QED
    BY <1>6
<1> HIDE DEF best, Order, Body
<1>8. 0 \in S
  BY <1>1, <1>7
<1>9. ASSUME NEW k \in S, k \in 0 .. last - 1 PROVE k + 1 \in S
  <2>1. k + 1 \in 0 .. last /\ k + 1 \in 1 .. last /\ k + 1 - 1 = k /\ k + 1 # 0
    BY <1>1, <1>9
  <2>2. best[k + 1] = Order[k + 1] \/ best[k + 1] = best[k]
    BY <1>7, <2>1
  <2> QED
    BY <1>2, <2>1, <2>2
<1>10. \A i \in 0 .. last : best[i] \in V
  <2>1. 0 .. last \subseteq S
    <3> HIDE DEF S, last
    <3> QED
      BY <1>1, <1>8, <1>9, BoundedInduction
  <2> QED
    BY <2>1
<1>11. PickRandomG(c, seen).order = best[last]
  BY DEF PickRandomG, best, Order, Body
<1>12. IsBest(c, seen, best)
  <2>1. best[0] = 1
    BY <1>1, <1>7
  <2>2. ASSUME NEW i \in 1 .. last
        PROVE  best[i] = IF BetterOrder(CountOrder(c, seen[i]), best[i - 1])
                           THEN CountOrder(c, seen[i]) ELSE best[i - 1]
    <3>1. i \in 0 .. last /\ i # 0 /\ Order[i] = CountOrder(c, seen[i])
      BY <1>1 DEF Order
    <3> QED
      BY <1>7, <3>1
  <2> QED
    BY <1>11, <2>1, <2>2 DEF IsBest
<1> QED
  BY <1>10, <1>12

\* What PickRandomG returns for points of a curve.
LEMMA PickTypes ==
  ASSUME NEW p \in Nat, p > 1, BruteForceIsPrime(p), NEW c \in Config(p),
         NEW seen \in Seq(Pairs(c)), \A i \in 1 .. Len(seen) : On(c, seen[i])
  PROVE  /\ PickRandomG(c, seen).order \in 1 .. 2 * p + 1
         /\ PickRandomG(c, seen).suitable \subseteq Pairs(c)
PROOF
<1>1. PICK best : /\ IsBest(c, seen, best)
                  /\ \A i \in 0 .. Len(seen) : best[i] \in 1 .. 2 * p + 1
  BY BestExists
<1>2. Len(seen) \in 0 .. Len(seen) /\ DOMAIN seen = 1 .. Len(seen)
  OBVIOUS
<1>3. PickRandomG(c, seen).order \in 1 .. 2 * p + 1
  BY <1>1, <1>2 DEF IsBest
<1>4. PickRandomG(c, seen).suitable \subseteq {seen[i] : i \in DOMAIN seen}
  BY DEF PickRandomG
<1>5. \A i \in DOMAIN seen : seen[i] \in Pairs(c)
  OBVIOUS
<1> QED
  BY <1>3, <1>4, <1>5

\* Powers of two, up to a number.
LEMMA StrippedIsNatural ==
  ASSUME NEW h \in Nat, NEW n \in Nat \ {0}
  PROVE  StripMessageHash(h, n) \in Nat
PROOF
<1> DEFINE Body(f) == [i \in 0 .. n |-> IF i = 0 THEN 1 ELSE 2 * f[i - 1]]
           next == [i \in 1 .. n |-> [before \in Nat |-> 2 * before]]
           twoTo == CHOOSE f : f = Body(f)
<1>1. next \in [1 .. n -> [Nat -> Nat]] /\ n \in Nat /\ 1 \in Nat
  OBVIOUS
<1>2. PICK f \in [0 .. n -> Nat] :
        f[0] = 1 /\ \A i \in 1 .. n : f[i] = next[i][f[i - 1]]
  <2> HIDE DEF next
  <2>1. HasRecursion(n, Nat)
    BY <1>1, RecursionExists, Zenon
  <2> QED
    BY <1>1, <2>1, Zenon DEF HasRecursion
<1>3. f = Body(f)
  <2>1. ASSUME NEW i \in 1 .. n PROVE f[i] = 2 * f[i - 1]
    <3>1. i - 1 \in 0 .. n
      OBVIOUS
    <3>2. f[i - 1] \in Nat
      BY <3>1
    <3>3. next[i][f[i - 1]] = 2 * f[i - 1]
      BY <3>2
    <3> QED
      BY <1>2, <3>3
  <2>2. \A i \in 0 .. n : i = 0 \/ i \in 1 .. n
    OBVIOUS
  <2>3. \A i \in 0 .. n : f[i] = Body(f)[i]
    BY <1>2, <2>1, <2>2
  <2> QED
    BY <1>2, <2>3
<1>4. twoTo = Body(twoTo)
  <2> HIDE DEF Body
  <2> QED
    BY <1>3
<1>5. ASSUME NEW i \in 0 .. n
      PROVE  twoTo[i] = IF i = 0 THEN 1 ELSE 2 * twoTo[i - 1]
  <2> HIDE DEF twoTo
  <2> QED
    BY <1>4
<1> HIDE DEF twoTo
<1> DEFINE S == {k \in 0 .. n : twoTo[k] \in Nat /\ twoTo[k] > k}
<1>6. 0 \in S
  BY <1>1, <1>5
<1>7. ASSUME NEW k \in S, k \in 0 .. n - 1 PROVE k + 1 \in S
  <2>1. k + 1 \in 0 .. n /\ k + 1 - 1 = k /\ k + 1 # 0
    BY <1>7
  <2>2. twoTo[k + 1] = 2 * twoTo[k]
    BY <1>5, <2>1
  <2> QED
    BY <2>1, <2>2
<1>8. \A k \in 0 .. n : twoTo[k] \in Nat /\ twoTo[k] > k
  <2>1. 0 .. n \subseteq S
    <3> HIDE DEF S
    <3> QED
      BY <1>1, <1>6, <1>7, BoundedInduction
  <2> QED
    BY <2>1
<1> DEFINE T == {k \in 0 .. n : n < twoTo[k]}
<1>9. PICK l \in T : \A k \in T : l <= k
  <2>1. n \in T
    BY <1>8
  <2>2. T \in SUBSET (0 .. n) /\ T # {}
    BY <2>1
  <2> HIDE DEF T
  <2> QED
    BY <1>1, <2>2, Least
<1>10. l \in 1 .. n /\ twoTo[l - 1] <= n /\ n < twoTo[l]
  <2>1. l # 0
    BY <1>5, <1>9
  <2>2. l \in 1 .. n /\ l - 1 \in 0 .. n /\ l - 1 < l
    BY <1>9, <2>1
  <2>3. ~(n < twoTo[l - 1])
    BY <1>9, <2>2
  <2> QED
    BY <1>8, <1>9, <2>2, <2>3
<1> DEFINE bits == CHOOSE k \in 1 .. n : twoTo[k - 1] <= n /\ n < twoTo[k]
<1>11. bits \in 1 .. n
  BY <1>10
<1> HIDE DEF bits
<1>12. twoTo[bits] \in Nat \ {0}
  <2>1. bits \in 0 .. n
    BY <1>11
  <2> QED
    BY <1>8, <2>1
<1>13. StripMessageHash(h, n) = h % twoTo[bits]
  BY DEF StripMessageHash, bits, twoTo, Body
<1> QED
  <2> DEFINE d == twoTo[bits]
  <2>1. d \in Nat \ {0}
    BY <1>12
  <2>2. StripMessageHash(h, n) = h % d
    BY <1>13
  <2> HIDE DEF d
  <2>3. h % d \in 0 .. d - 1
    BY <2>1, Remainders
  <2> QED
    BY <2>1, <2>2, <2>3

\* A signature is two numbers below the order.
LEMMA SignTypes ==
  ASSUME NEW p \in Nat, p > 1, NEW c \in Config(p), NEW h \in Nat, NEW d \in Nat,
         NEW v \in Pairs(c), NEW n \in Nat \ {0, 1}, NEW made \in Sign(c, h, d, v, n)
  PROVE  made \in {None} \cup ((0 .. n - 1) \X (0 .. n - 1))
PROOF
<1> DEFINE e == StripMessageHash(h, n)
<1>1. e \in Nat
  BY StrippedIsNatural
<1>2. made = None \/ \E key \in 1 .. n - 1 : made = Attempt(c, e, d, v, n, key)
  BY DEF Sign
<1> HIDE DEF e
<1>3. ASSUME NEW key \in 1 .. n - 1, made = Attempt(c, e, d, v, n, key), made # None
      PROVE  made \in (0 .. n - 1) \X (0 .. n - 1)
  <2> DEFINE temp == MultiplyPoint(c, key, v)
             r == temp[1] % n
             i == ModInverse(key, n)
             t == i * (e + r * d)
             s == t % n
  <2>1. temp # None /\ made = <<r, s>>
    BY <1>3 DEF Attempt
  <2>2. temp \in Pairs(c)
    <3>1. key \in Nat
      OBVIOUS
    <3> QED
      BY <2>1, <3>1, ProductTypes DEF Element
  <2>3. temp[1] \in Nat
    BY <2>2, PairsAre
  <2> HIDE DEF temp
  <2>4. r \in 0 .. n - 1
    BY <2>3, Remainders
  <2>5. i \in 0 .. n - 1
    <3>1. key % n = key
      OBVIOUS
    <3>3. n \in Nat /\ n > 1 /\ key \in Int
      OBVIOUS
    <3>2. ModInverse(key % n, n) \in 0 .. n - 1
      BY <3>3, InverseFound
    <3> QED
      BY <3>1, <3>2
  <2> HIDE DEF r, i
  <2>6. t \in Nat
    BY <1>1, <2>4, <2>5
  <2> HIDE DEF t
  <2>7. s \in 0 .. n - 1
    BY <2>6, Remainders
  <2> HIDE DEF s
  <2> QED
    BY <2>1, <2>4, <2>7
<1> QED
  BY <1>2, <1>3

-----------------------------------------------------------------------------
(* The types.                                                              *)

\* What the types rest on: a test is counted only if there is one left, and
\* once there is a curve, a base point and an order, they stay.
DrawnOK ==
  /\ phase # "generate" => index < TestCount /\ group \in Config(m)
  /\ phase \in {"exchange", "sign", "check"} =>
       g \in Point /\ order \in 2 .. 2 * m + 1

\* The types of the variables, but for the counters and the points seen.
DataOK ==
  /\ m \in Moduli
  /\ index \in 0 .. TestCount
  /\ group \in Config(m) \cup {None}
  /\ all \in Seq(Point)
  /\ g \in Point \cup {None}
  /\ order \in 0 .. 2 * m + 1
  /\ alice \in 0 .. 2 * m
  /\ hash \in Hashes \cup {0}
  /\ signature \in {None} \cup ((0 .. 2 * m) \X (0 .. 2 * m))

TypeInv == DataOK /\ DrawnOK

\* The counters are bounded by the tests there are.
LEMMA CountersBounded ==
  ASSUME CountInv, TypeInv
  PROVE  TypeOK
PROOF
<1>1. /\ phase \in {"generate", "iterate", "exchange", "sign", "check"}
      /\ counter \in [Counter -> Nat] /\ index \in 0 .. TestCount /\ TestCount \in Nat
      /\ phase \in {"sign", "check"} => index < TestCount
  BY CountAssumption DEF CountInv, CountersOK, TypeInv, DataOK, DrawnOK
<1> DEFINE exchanged == counter["exchangeSuccesses"] + counter["exchangeFails"]
           signed == counter["signatureSuccesses"] + counter["signatureFails"]
                     + counter["signatureNotCalculatedFails"] + counter["signatureMathFails"]
           inside == IF phase \in {"sign", "check"} THEN 1 ELSE 0
<1>2. exchanged + counter["exchangeMathFails"] = index + inside /\ signed + inside = exchanged
  BY DEF CountInv, EveryTestIsCounted
<1>3. index + inside <= TestCount /\ inside >= 0 /\ inside \in Int
  BY <1>1
<1>4. \A k \in Counter : counter[k] \in Nat
  BY <1>1
<1>5. \A k \in Counter : counter[k] <= TestCount
  <2>1. /\ counter["exchangeSuccesses"] \in Nat /\ counter["exchangeFails"] \in Nat
        /\ counter["exchangeMathFails"] \in Nat
        /\ counter["signatureSuccesses"] \in Nat /\ counter["signatureFails"] \in Nat
        /\ counter["signatureNotCalculatedFails"] \in Nat
        /\ counter["signatureMathFails"] \in Nat
    BY <1>4 DEF Counter
  <2> HIDE DEF inside
  <2>2. /\ counter["exchangeSuccesses"] <= TestCount /\ counter["exchangeFails"] <= TestCount
        /\ counter["exchangeMathFails"] <= TestCount
        /\ counter["signatureSuccesses"] <= TestCount
        /\ counter["signatureFails"] <= TestCount
        /\ counter["signatureNotCalculatedFails"] <= TestCount
        /\ counter["signatureMathFails"] <= TestCount
    BY <1>1, <1>2, <1>3, <2>1
  <2> QED
    BY <2>2 DEF Counter
<1>6. \A k \in Counter : counter[k] \in 0 .. TestCount
  BY <1>1, <1>4, <1>5
<1>7. counter \in [Counter -> 0 .. TestCount]
  BY <1>1, <1>6
<1> QED
  BY <1>1, <1>7 DEF TypeOK, TypeInv, DataOK

\* The steps of the program, one by one.
LEMMA TypeInit == Init => TypeInv
PROOF
<1> SUFFICES ASSUME Init PROVE TypeInv
  OBVIOUS
<1>1. /\ m \in Moduli /\ m \in Nat /\ TestCount \in Nat
      /\ phase = "generate" /\ index = 0 /\ group = None /\ all = <<>> /\ g = None
      /\ order = 0 /\ alice = 0 /\ hash = 0 /\ signature = None
  BY CountAssumption, ModuliAssumption DEF Init
<1>2. DataOK
  BY <1>1 DEF DataOK
<1>3. DrawnOK
  BY <1>1 DEF DrawnOK
<1> QED
  BY <1>2, <1>3 DEF TypeInv

\* At the end of a test everything is forgotten.
LEMMA TypeForget ==
  ASSUME TypeInv, m' = m, phase' = "generate", index' \in 0 .. TestCount, Forget
  PROVE  TypeInv'
PROOF
<1>1. m' \in Moduli /\ m \in Nat
  BY ModuliAssumption DEF TypeInv, DataOK
<1>2. DataOK'
  BY <1>1 DEF Forget, DataOK
<1>3. DrawnOK'
  BY DEF DrawnOK
<1> QED
  BY <1>2, <1>3 DEF TypeInv

\* The end of a test.
LEMMA TypeCount ==
  ASSUME TypeInv, m' = m, phase # "generate", NEW c, Count(c)
  PROVE  TypeInv'
PROOF
<1>1. index' \in 0 .. TestCount
  BY CountAssumption DEF TypeInv, DataOK, DrawnOK, Count
<1> QED
  BY <1>1, TypeForget DEF Count

LEMMA TypeGenerate == TypeInv /\ Generate => TypeInv'
PROOF
<1> SUFFICES ASSUME TypeInv, Generate PROVE TypeInv'
  OBVIOUS
<1>1. /\ phase' = "iterate" /\ index < TestCount /\ group' \in RandomGenerate(m)
      /\ UNCHANGED <<m, index, all, g, order, alice, hash, signature>>
  BY DEF Generate
<1>2. group' \in Config(m)
  BY <1>1 DEF RandomGenerate
<1>3. DataOK'
  BY <1>1, <1>2 DEF TypeInv, DataOK, Point
<1>4. DrawnOK'
  BY <1>1, <1>2 DEF DrawnOK
<1> QED
  BY <1>3, <1>4 DEF TypeInv

LEMMA TypeIterate == TypeInv /\ IterInv' /\ Iterate => TypeInv'
PROOF
<1> SUFFICES ASSUME TypeInv, IterInv', Iterate PROVE TypeInv'
  OBVIOUS
<1>1. /\ phase = "iterate"
      /\ UNCHANGED <<m, phase, index, group, g, order, alice, hash, signature>>
  BY DEF Iterate
<1>2. (all \in Seq(Point))'
  BY <1>1 DEF IterInv
<1>3. DataOK'
  BY <1>1, <1>2 DEF TypeInv, DataOK, Point
<1>4. DrawnOK'
  BY <1>1 DEF TypeInv, DrawnOK
<1> QED
  BY <1>3, <1>4 DEF TypeInv

\* The points seen are points of the curve.
LEMMA SeenOnCurve ==
  ASSUME IterInv, phase = "iterate"
  PROVE  /\ m \in Nat /\ m > 1 /\ BruteForceIsPrime(m) /\ group \in Config(m)
         /\ Pairs(group) = Point
         /\ all \in Seq(Pairs(group)) /\ \A i \in 1 .. Len(all) : On(group, all[i])
PROOF
<1>1. /\ m \in Moduli /\ group \in Config(m) /\ all \in Seq(Point)
      /\ Seen = Before(group, iterator)
  BY DEF IterInv
<1>2. m \in Nat /\ m > 1 /\ BruteForceIsPrime(m)
  BY <1>1, ModulusIsPrime
<1>3. Pairs(group) = Point
  BY <1>1, <1>2, PairsAre DEF Point
<1>4. ASSUME NEW i \in 1 .. Len(all) PROVE On(group, all[i])
  <2> DEFINE P == all[i]
  <2>1. P \in Seen /\ P \in Point
    BY <1>1 DEF Seen
  <2> HIDE DEF P
  <2>2. OnCurve(group, P[1], P[2])
    BY <1>1, <2>1 DEF Before, InnerPoints
  <2>3. On(group, P)
    BY <1>1, <1>2, <1>3, <2>1, <2>2, OnCurveIs
  <2> QED
    BY <2>3 DEF P
<1> QED
  BY <1>1, <1>2, <1>3, <1>4

LEMMA TypePick == TypeInv /\ IterInv /\ Pick => TypeInv'
PROOF
<1> SUFFICES ASSUME TypeInv, IterInv, Pick PROVE TypeInv'
  OBVIOUS
<1> DEFINE picked == PickRandomG(group, all)
<1>1. /\ phase = "iterate" /\ phase' = "exchange"
      /\ picked.order >= MinOrder /\ order' = picked.order /\ g' \in picked.suitable
      /\ UNCHANGED <<m, index, group, all, alice, hash, signature>>
  BY DEF Pick
<1>2. /\ m \in Nat /\ m > 1 /\ BruteForceIsPrime(m) /\ group \in Config(m)
      /\ Pairs(group) = Point
      /\ all \in Seq(Pairs(group)) /\ \A i \in 1 .. Len(all) : On(group, all[i])
  BY <1>1, SeenOnCurve
<1>3. picked.order \in 1 .. 2 * m + 1 /\ picked.suitable \subseteq Pairs(group)
  BY <1>2, PickTypes
<1> HIDE DEF picked
<1>4. order' \in 2 .. 2 * m + 1 /\ g' \in Point
  BY <1>1, <1>2, <1>3, OrderAssumption
<1>5. DataOK'
  BY <1>1, <1>2, <1>4 DEF TypeInv, DataOK, Point
<1>6. DrawnOK'
  BY <1>1, <1>4 DEF TypeInv, DrawnOK, Point
<1> QED
  BY <1>5, <1>6 DEF TypeInv

LEMMA TypeExchange == TypeInv /\ Exchange => TypeInv'
PROOF
<1> SUFFICES ASSUME TypeInv, Exchange PROVE TypeInv'
  OBVIOUS
<1>1. m' = m /\ phase = "exchange"
  BY DEF Exchange
<1>2. \/ Count("exchangeMathFails")
      \/ /\ alice' \in PrivateKey(order) /\ phase' = "sign"
         /\ UNCHANGED <<index, group, all, g, order, hash, signature>>
  <2>1. PICK private \in PrivateKey(order), bob \in PrivateKey(order) :
          LET views == Views(private, bob) IN
          IF views = None THEN Count("exchangeMathFails")
          ELSE /\ alice' = private /\ phase' = "sign"
               /\ UNCHANGED <<index, group, all, g, order, hash, signature>>
    BY DEF Exchange
  <2> DEFINE views == Views(private, bob)
  <2> HIDE DEF views
  <2>2. IF views = None THEN Count("exchangeMathFails")
        ELSE /\ alice' = private /\ phase' = "sign"
             /\ UNCHANGED <<index, group, all, g, order, hash, signature>>
    BY <2>1 DEF views
  <2> QED
    BY <2>2
<1>3. CASE Count("exchangeMathFails")
  BY <1>1, <1>3, TypeCount
<1>4. CASE /\ alice' \in PrivateKey(order) /\ phase' = "sign"
           /\ UNCHANGED <<index, group, all, g, order, hash, signature>>
  <2>1. m \in Nat /\ order \in 2 .. 2 * m + 1
    BY <1>1, ModuliAssumption DEF TypeInv, DataOK, DrawnOK
  <2>2. alice' \in 0 .. 2 * m
    BY <1>4, <2>1 DEF PrivateKey
  <2>3. DataOK'
    BY <1>1, <1>4, <2>2 DEF TypeInv, DataOK, Point
  <2>4. DrawnOK'
    BY <1>1, <1>4 DEF TypeInv, DrawnOK, Point
  <2> QED
    BY <2>3, <2>4 DEF TypeInv
<1> QED
  BY <1>2, <1>3, <1>4

LEMMA TypeSignMessage == TypeInv /\ SignMessage => TypeInv'
PROOF
<1> SUFFICES ASSUME TypeInv, SignMessage PROVE TypeInv'
  OBVIOUS
<1>1. m' = m /\ phase = "sign"
  BY DEF SignMessage
<1>5. PICK messageHash \in Hashes :
        \E made \in Sign(group, messageHash, alice, g, order) :
          \/ made = None /\ Count("signatureNotCalculatedFails")
          \/ /\ hash' = messageHash /\ signature' = made /\ phase' = "check"
             /\ UNCHANGED <<index, group, all, g, order, alice>>
  BY DEF SignMessage
<1>2. PICK made \in Sign(group, messageHash, alice, g, order) :
        \/ made = None /\ Count("signatureNotCalculatedFails")
        \/ /\ hash' = messageHash /\ signature' = made /\ phase' = "check"
           /\ UNCHANGED <<index, group, all, g, order, alice>>
  BY <1>5
<1>3. CASE Count("signatureNotCalculatedFails")
  BY <1>1, <1>3, TypeCount
<1>4. CASE /\ hash' = messageHash /\ signature' = made /\ phase' = "check"
           /\ UNCHANGED <<index, group, all, g, order, alice>>
  <2>1. /\ m \in Nat /\ m > 1 /\ group \in Config(m) /\ g \in Point
        /\ order \in 2 .. 2 * m + 1 /\ alice \in Nat
    BY <1>1, ModuliAssumption DEF TypeInv, DataOK, DrawnOK
  <2>2. g \in Pairs(group)
    BY <2>1, PairsAre DEF Point
  <2>3. messageHash \in Nat /\ order \in Nat \ {0, 1}
    BY <2>1, HashesAssumption
  <2>4. made \in {None} \cup ((0 .. order - 1) \X (0 .. order - 1))
    BY <2>1, <2>2, <2>3, SignTypes
  <2>5. 0 .. order - 1 \subseteq 0 .. 2 * m
    BY <2>1
  <2>6. signature' \in {None} \cup ((0 .. 2 * m) \X (0 .. 2 * m))
    BY <1>4, <2>4, <2>5
  <2>7. DataOK'
    BY <1>1, <1>4, <2>6 DEF TypeInv, DataOK, Point
  <2>8. DrawnOK'
    BY <1>1, <1>4 DEF TypeInv, DrawnOK, Point
  <2> QED
    BY <2>7, <2>8 DEF TypeInv
<1> QED
  BY <1>2, <1>3, <1>4

LEMMA TypeNext == TypeInv /\ IterInv /\ IterInv' /\ [Next]_vars => TypeInv'
PROOF
<1> SUFFICES ASSUME TypeInv, IterInv, IterInv', [Next]_vars PROVE TypeInv'
  OBVIOUS
<1>1. CASE Generate
  BY <1>1, TypeGenerate
<1>2. CASE Iterate
  BY <1>2, TypeIterate
<1>3. CASE UnableToPick
  BY <1>3, TypeCount DEF UnableToPick
<1>4. CASE TooLow
  BY <1>4, TypeForget DEF TooLow, TypeInv, DataOK
<1>5. CASE Pick
  BY <1>5, TypePick
<1>6. CASE Exchange
  BY <1>6, TypeExchange
<1>7. CASE SignMessage
  BY <1>7, TypeSignMessage
<1>8. CASE CheckSignature
  BY <1>8, TypeCount DEF CheckSignature
<1>9. CASE UNCHANGED vars
  <2>1. DataOK'
    BY <1>9 DEF vars, test, TypeInv, DataOK, Point
  <2>2. DrawnOK'
    BY <1>9 DEF vars, test, TypeInv, DrawnOK, Point
  <2> QED
    BY <2>1, <2>2 DEF TypeInv
<1> QED
  BY <1>1, <1>2, <1>3, <1>4, <1>5, <1>6, <1>7, <1>8, <1>9 DEF Next

\* The count of an order ends, for every prime and every curve, with at most
\* twice the modulus and one (Lab4/EM.cpp:318), and keys and signatures are
\* below it.
THEOREM TypesHold == Spec => []TypeOK
PROOF
<1>1. Spec => []CountInv
  BY CountInit, CountNext, PTL DEF Spec
<1>2. Spec => []IterInv
  <2>1. Init => IterInv
    BY DEF Init, IterInv
  <2> QED
    BY <2>1, IterNext, PTL DEF Spec
<1>3. Spec => []TypeInv
  BY <1>2, TypeInit, TypeNext, PTL DEF Spec
<1>4. CountInv /\ TypeInv => TypeOK
  BY CountersBounded
<1> QED
  BY <1>1, <1>3, <1>4, PTL

-----------------------------------------------------------------------------
(* Three points on a line.                                                 *)

\* ModInverse finds it.
LEMMA ModInverseFinds ==
  ASSUME NEW p, IsPrime(p), NEW e \in Int
  PROVE  ModInverse(e % p, p) = 0 <=> Vanishes(p, e)
PROOF
<1>1. p \in Nat \ {0} /\ p \in Int /\ p > 1 /\ p \in Nat
  BY DEF IsPrime
<1> DEFINE r == e % p
           I == {i \in 1 .. p - 1 : (r * i) % p = 1}
<1>2. r \in 0 .. p - 1 /\ Vanishes(p, r - e)
  BY <1>1, ZeroRemainder
<1> HIDE DEF r
<1>3. ASSUME Vanishes(p, e) PROVE ModInverse(r, p) = 0
  <2> SUFFICES ASSUME ModInverse(r, p) # 0 PROVE FALSE
    OBVIOUS
  <2>1. ~Alike(p, e, 0)
    BY <1>1, InverseFound DEF r
  <2> QED
    BY <1>3, <2>1 DEF Vanishes, Alike
<1>4. ASSUME ~Vanishes(p, e) PROVE ModInverse(r, p) # 0
  <2>1. PICK i \in 1 .. p - 1 : Vanishes(p, e * i - 1)
    BY <1>4, InverseExists
  <2> DEFINE q == (r * i) % p
  <2>2. r * i \in Int /\ e * i \in Int
    BY <1>2
  <2>3. q \in 0 .. p - 1 /\ Vanishes(p, q - r * i)
    BY <1>1, <2>2, ZeroRemainder
  <2> HIDE DEF q
  <2>4. /\ q - r * i \in Int /\ r - e \in Int /\ e * i - 1 \in Int /\ 1 \in Int /\ i \in Int
    BY <1>2, <2>2, <2>3
  <2>5. Vanishes(p, 1 * (q - r * i) + i * (r - e) + 1 * (e * i - 1))
    BY <1>1, <1>2, <2>1, <2>3, <2>4, ZeroCombined3
  <2>6. 1 * (q - r * i) + i * (r - e) + 1 * (e * i - 1) = q - 1
    BY <1>2, <2>3
  <2>7. q = 1
    <3>1. Vanishes(p, q - 1)
      BY <2>5, <2>6
    <3>2. 1 \in 0 .. p - 1
      BY <1>1
    <3> QED
      BY <1>1, <2>3, <3>1, <3>2, ZeroEqual
  <2>8. i \in I
    BY <2>7 DEF q
  <2>9. ModInverse(r, p) \in I
    BY <2>8 DEF ModInverse
  <2> QED
    BY <2>9
<1> QED
  BY <1>3, <1>4 DEF r

-----------------------------------------------------------------------------
(* The group law. The line y = s x + t meets the curve at three places.     *)

\* Those places, by the coefficients of a cubic with these roots.
MeetsAt(p, a, b, s, t, x1, x2, x3) ==
  /\ Vanishes(p, s * s - (x1 + x2 + x3))
  /\ Vanishes(p, a - 2 * s * t - (x1 * x2 + x1 * x3 + x2 * x3))
  /\ Vanishes(p, b - t * t + x1 * x2 * x3)

\* What the difference of the cubic and the square of the line is made of.
AtPlaces(a, b, s, t, x1, x2, x3) ==
  Cubic(a, b, x1) - (s * x1 + t) * (s * x1 + t)
    = (0 - x1 * x1) * (s * s - (x1 + x2 + x3))
      + x1 * (a - 2 * s * t - (x1 * x2 + x1 * x3 + x2 * x3))
      + 1 * (b - t * t + x1 * x2 * x3)

LEMMA MeetingSplits ==
  ASSUME NEW a \in Int, NEW b \in Int, NEW s \in Int, NEW t \in Int, NEW x1 \in Int,
         NEW x2 \in Int, NEW x3 \in Int
  PROVE  AtPlaces(a, b, s, t, x1, x2, x3)
  BY DEF Cubic, AtPlaces

\* A place of the line is one of the curve.
LEMMA MeetingOn ==
  ASSUME NEW p \in Int, NEW a \in Int, NEW b \in Int, NEW s \in Int, NEW t \in Int,
         NEW x1 \in Int, NEW x2 \in Int, NEW x3 \in Int, NEW y1 \in Int,
         MeetsAt(p, a, b, s, t, x1, x2, x3), Vanishes(p, y1 - (s * x1 + t))
  PROVE  Vanishes(p, Cubic(a, b, x1) - y1 * y1)
PROOF
<1> DEFINE e1 == s * s - (x1 + x2 + x3)
           e2 == a - 2 * s * t - (x1 * x2 + x1 * x3 + x2 * x3)
           e3 == b - t * t + x1 * x2 * x3
           l == s * x1 + t
           d == y1 - l
           C == Cubic(a, b, x1)
<1>1. /\ e1 \in Int /\ e2 \in Int /\ e3 \in Int /\ l \in Int /\ d \in Int /\ C \in Int
      /\ 0 - x1 * x1 \in Int /\ 1 \in Int /\ 0 - (y1 + l) \in Int
  BY DEF Cubic
<1>2. Vanishes(p, e1) /\ Vanishes(p, e2) /\ Vanishes(p, e3) /\ Vanishes(p, d)
  BY DEF MeetsAt
<1>3. C - l * l = (0 - x1 * x1) * e1 + x1 * e2 + 1 * e3
  <2>1. AtPlaces(a, b, s, t, x1, x2, x3)
    BY MeetingSplits
  <2> QED
    BY <2>1 DEF AtPlaces
<1> HIDE DEF e1, e2, e3, l, C
<1>4. Vanishes(p, (0 - x1 * x1) * e1 + x1 * e2 + 1 * e3 + (0 - (y1 + l)) * d)
  <2> HIDE DEF d
  <2> QED
    BY <1>1, <1>2, ZeroCombined4
<1>5. C - y1 * y1 = (C - l * l) + (0 - (y1 + l)) * d
  BY <1>1
<1>6. C - y1 * y1 = (0 - x1 * x1) * e1 + x1 * e2 + 1 * e3 + (0 - (y1 + l)) * d
  <2> DEFINE f == (0 - x1 * x1) * e1 + x1 * e2 + 1 * e3
             h == (0 - (y1 + l)) * d
  <2>1. f = C - l * l /\ C - y1 * y1 = (C - l * l) + h
    BY <1>3, <1>5
  <2> HIDE DEF f, h
  <2>2. C - y1 * y1 = f + h
    BY <2>1
  <2> QED
    BY <2>2 DEF f, h
<1>7. Vanishes(p, C - y1 * y1)
  BY <1>4, <1>6
<1> QED
  BY <1>7 DEF C

\* Two lines through one place, xB: what their other places have to do with each
\* other.
LEMMA TwoLines ==
  ASSUME NEW p \in Int, NEW a \in Int, NEW b \in Int,
         NEW s1 \in Int, NEW t1 \in Int, NEW s3 \in Int, NEW t3 \in Int,
         NEW xA \in Int, NEW xB \in Int, NEW xS \in Int, NEW xC \in Int, NEW xT \in Int,
         MeetsAt(p, a, b, s1, t1, xA, xB, xS), MeetsAt(p, a, b, s3, t3, xB, xC, xT),
         Vanishes(p, (s1 - s3) * xB + (t1 - t3))
  PROVE  Vanishes(p, (s1 - s3) * ((s3 + s1) * xC + (t3 + t1)) + (xC - xA) * (xC - xS))
PROOF
<1> DEFINE e1 == s1 * s1 - (xA + xB + xS)
           e2 == a - 2 * s1 * t1 - (xA * xB + xA * xS + xB * xS)
           f1 == s3 * s3 - (xB + xC + xT)
           f2 == a - 2 * s3 * t3 - (xB * xC + xB * xT + xC * xT)
           h == (s1 - s3) * xB + (t1 - t3)
           target == (s1 - s3) * ((s3 + s1) * xC + (t3 + t1)) + (xC - xA) * (xC - xS)
           j == xC + xB
           k == 0 - (s1 + s3)
<1>1. /\ e1 \in Int /\ e2 \in Int /\ f1 \in Int /\ f2 \in Int /\ h \in Int /\ target \in Int
      /\ j \in Int /\ k \in Int /\ 0 - j \in Int /\ 1 \in Int /\ -1 \in Int
  OBVIOUS
<1>2. Vanishes(p, e1) /\ Vanishes(p, e2) /\ Vanishes(p, f1) /\ Vanishes(p, f2) /\ Vanishes(p, h)
  BY DEF MeetsAt
<1>3. target = 1 * (j * e1 + (0 - j) * f1 + k * h) + 1 * ((-1) * e2 + 1 * f2)
  OBVIOUS
<1> HIDE DEF e1, e2, f1, f2, h, target, j, k
<1>4. Vanishes(p, j * e1 + (0 - j) * f1 + k * h) /\ Vanishes(p, (-1) * e2 + 1 * f2)
  BY <1>1, <1>2, ZeroCombined, ZeroCombined3
<1>5. j * e1 + (0 - j) * f1 + k * h \in Int /\ (-1) * e2 + 1 * f2 \in Int
  BY <1>1
<1>6. Vanishes(p, target)
  <2> DEFINE u == j * e1 + (0 - j) * f1 + k * h
             v == (-1) * e2 + 1 * f2
  <2>1. u \in Int /\ v \in Int /\ Vanishes(p, u) /\ Vanishes(p, v) /\ target = 1 * u + 1 * v
    BY <1>3, <1>4, <1>5
  <2> HIDE DEF u, v
  <2>2. Vanishes(p, 1 * u + 1 * v)
    BY <1>1, <2>1, ZeroCombined
  <2> QED
    BY <2>1, <2>2
<1> QED
  BY <1>6 DEF target

\* What makes k the right slope between the two lines, and the line on which the
\* third place of the one and the far place of the other are.
Between(p, s1, s3, xA, xC, k) == Vanishes(p, k * (s1 - s3) - (xC - xA))

LEMMA FarOnThird ==
  ASSUME NEW p, IsPrime(p), NEW a \in Int, NEW b \in Int,
         NEW s1 \in Int, NEW t1 \in Int, NEW s3 \in Int, NEW t3 \in Int,
         NEW xA \in Int, NEW xB \in Int, NEW xS \in Int, NEW xC \in Int, NEW xT \in Int,
         NEW k \in Int,
         MeetsAt(p, a, b, s1, t1, xA, xB, xS), MeetsAt(p, a, b, s3, t3, xB, xC, xT),
         Vanishes(p, (s1 - s3) * xB + (t1 - t3)), Between(p, s1, s3, xA, xC, k),
         ~Vanishes(p, s1 - s3)
  PROVE  Vanishes(p, (s1 * xC + t1) + k * (xC - xS) + (s3 * xC + t3))
PROOF
<1> DEFINE w == (s1 * xC + t1) + k * (xC - xS) + (s3 * xC + t3)
           r == k * (s1 - s3) - (xC - xA)
           d == s1 - s3
           e == (s1 - s3) * ((s3 + s1) * xC + (t3 + t1)) + (xC - xA) * (xC - xS)
<1>1. w \in Int /\ r \in Int /\ d \in Int /\ e \in Int /\ xC - xS \in Int /\ 1 \in Int /\ p \in Int
  BY DEF IsPrime
<1>2. Vanishes(p, e)
  BY <1>1, TwoLines
<1>3. Vanishes(p, r)
  BY DEF Between
<1>4. d * w = 1 * e + (xC - xS) * r
  OBVIOUS
<1>5. ~Vanishes(p, d)
  OBVIOUS
<1> HIDE DEF w, r, d, e
<1>6. Vanishes(p, 1 * e + (xC - xS) * r)
  BY <1>1, <1>2, <1>3, ZeroCombined
<1>7. Vanishes(p, d * w)
  BY <1>4, <1>6
<1>8. Vanishes(p, w)
  BY <1>1, <1>5, <1>7, ZeroFactor
<1> QED
  BY <1>8 DEF w

\* The place where the sums are: xS, xC and it are on one line.
Fourth(s1, s3, xB, k) == xB + k * (s1 + s3) + k * k

LEMMA ThirdMeets ==
  ASSUME NEW p, IsPrime(p), NEW a \in Int, NEW b \in Int,
         NEW s1 \in Int, NEW t1 \in Int, NEW s3 \in Int, NEW t3 \in Int,
         NEW xA \in Int, NEW xB \in Int, NEW xS \in Int, NEW xC \in Int, NEW k \in Int,
         MeetsAt(p, a, b, s1, t1, xA, xB, xS),
         Vanishes(p, (s1 - s3) * xB + (t1 - t3)), Between(p, s1, s3, xA, xC, k),
         Vanishes(p, (s1 * xC + t1) + k * (xC - xS) + (s3 * xC + t3))
  PROVE  MeetsAt(p, a, b, 0 - s1 - k, k * xS - t1, xS, xC, Fourth(s1, s3, xB, k))
PROOF
<1> DEFINE e1 == s1 * s1 - (xA + xB + xS)
           e2 == a - 2 * s1 * t1 - (xA * xB + xA * xS + xB * xS)
           e3 == b - t1 * t1 + xA * xB * xS
           h == (s1 - s3) * xB + (t1 - t3)
           r == k * (s1 - s3) - (xC - xA)
           w == (s1 * xC + t1) + k * (xC - xS) + (s3 * xC + t3)
           xD == xB + k * (s1 + s3) + k * k
           z == (0 - k) * w + (0 - k) * h + xB * r
           s2 == 0 - s1 - k
           t2 == k * xS - t1
           g1 == s2 * s2 - (xS + xC + xD)
           g2 == a - 2 * s2 * t2 - (xS * xC + xS * xD + xC * xD)
           g3 == b - t2 * t2 + xS * xC * xD
<1>1. /\ e1 \in Int /\ e2 \in Int /\ e3 \in Int /\ h \in Int /\ r \in Int /\ w \in Int
      /\ z \in Int /\ 1 \in Int /\ 0 - k \in Int /\ 0 - xS \in Int /\ p \in Int
  BY DEF IsPrime
<1>2. Vanishes(p, e1) /\ Vanishes(p, e2) /\ Vanishes(p, e3) /\ Vanishes(p, h) /\ Vanishes(p, r) /\ Vanishes(p, w)
  BY DEF MeetsAt, Between
<1>3. g1 = 1 * e1 + 1 * r
  OBVIOUS
<1>4. g2 = 1 * e2 + 1 * z + xS * r
  OBVIOUS
<1>5. g3 = 1 * e3 + (0 - xS) * z
  OBVIOUS
<1> HIDE DEF e1, e2, e3, h, r, w, xD, s2, t2, g1, g2, g3
<1>6. Vanishes(p, z)
  BY <1>1, <1>2, ZeroCombined3
<1> HIDE DEF z
<1>7. Vanishes(p, g1)
  BY <1>1, <1>2, <1>3, ZeroCombined
<1>8. Vanishes(p, g2)
  BY <1>1, <1>2, <1>4, <1>6, ZeroCombined3
<1>9. Vanishes(p, g3)
  BY <1>1, <1>2, <1>5, <1>6, ZeroCombined
<1>10. Fourth(s1, s3, xB, k) = xD
  BY DEF Fourth, xD
<1>11. MeetsAt(p, a, b, s2, t2, xS, xC, xD)
  BY <1>7, <1>8, <1>9 DEF MeetsAt, g1, g2, g3
<1> QED
  BY <1>10, <1>11 DEF s2, t2

\* The numbers there are modulo a prime.
LEMMA CurveNumbers ==
  ASSUME NEW p, IsPrime(p), NEW c \in Config(p)
  PROVE  /\ p \in Nat \ {0} /\ p \in Nat /\ p > 1 /\ p \in Int
         /\ c.m = p /\ c.a \in Int /\ c.b \in Int
         /\ \A P \in Pairs(c) : /\ P[1] \in 0 .. p - 1 /\ P[2] \in 0 .. p - 1
                                /\ P[1] \in Int /\ P[2] \in Int /\ P = <<P[1], P[2]>>
                                /\ P # None
PROOF
<1>1. p \in Nat /\ p > 1
  BY DEF IsPrime
<1>2. /\ c.m = p /\ c.a \in 1 .. p - 1 /\ c.b \in 1 .. p - 1 /\ None \notin Pairs(c)
      /\ \A P \in Pairs(c) : P[1] \in 0 .. p - 1 /\ P[2] \in 0 .. p - 1 /\ P = <<P[1], P[2]>>
  BY <1>1, PairsAre
<1> QED
  BY <1>1, <1>2

\* Points with the same numbers modulo the prime are the same.
LEMMA SamePoint ==
  ASSUME NEW p, IsPrime(p), NEW c \in Config(p), NEW P \in Pairs(c), NEW Q \in Pairs(c),
         Vanishes(p, P[1] - Q[1]), Vanishes(p, P[2] - Q[2])
  PROVE  P = Q
PROOF
<1>1. /\ p \in Nat \ {0} /\ P[1] \in 0 .. p - 1 /\ P[2] \in 0 .. p - 1
      /\ Q[1] \in 0 .. p - 1 /\ Q[2] \in 0 .. p - 1
      /\ P = <<P[1], P[2]>> /\ Q = <<Q[1], Q[2]>>
  BY CurveNumbers
<1>2. P[1] = Q[1] /\ P[2] = Q[2]
  BY <1>1, ZeroEqual
<1> QED
  BY <1>1, <1>2

\* The negative of a point.
LEMMA NegativeIs ==
  ASSUME NEW p, IsPrime(p), NEW c \in Config(p), NEW P \in Pairs(c)
  PROVE  /\ NegatePoint(c, P) \in Pairs(c) /\ NegatePoint(c, P)[1] = P[1]
         /\ Vanishes(p, NegatePoint(c, P)[2] + P[2])
PROOF
<1> DEFINE x == P[1]
           y == P[2]
           N == NegatePoint(c, <<x, y>>)
<1>1. /\ p \in Int /\ p \in Nat /\ p > 1 /\ x \in 0 .. p - 1 /\ y \in Int /\ P = <<x, y>>
  BY CurveNumbers
<1> HIDE DEF x, y
<1>2. N \in Pairs(c) /\ N[1] = x /\ Alike(p, N[2], 0 - y)
  BY <1>1, NegatePointIs
<1>3. N[2] \in Int
  BY <1>2, CurveNumbers
<1> HIDE DEF N
<1>4. N[2] - (0 - y) = N[2] + y /\ 0 - y \in Int
  BY <1>1, <1>3
<1>5. Vanishes(p, N[2] + y)
  BY <1>1, <1>2, <1>3, <1>4, AlikeIsZero
<1>6. N = NegatePoint(c, P)
  BY <1>1 DEF N
<1> QED
  BY <1>2, <1>5, <1>6 DEF x, y

\* Its negative is the point again.
LEMMA NegatedTwice ==
  ASSUME NEW p, IsPrime(p), NEW c \in Config(p), NEW P \in Pairs(c)
  PROVE  NegatePoint(c, NegatePoint(c, P)) = P
PROOF
<1> DEFINE N == NegatePoint(c, P)
           M == NegatePoint(c, N)
<1>1. N \in Pairs(c) /\ N[1] = P[1] /\ Vanishes(p, N[2] + P[2])
  BY NegativeIs
<1> HIDE DEF N
<1>2. M \in Pairs(c) /\ M[1] = N[1] /\ Vanishes(p, M[2] + N[2])
  BY <1>1, NegativeIs
<1> HIDE DEF M
<1>3. /\ p \in Int /\ P[1] \in Int /\ P[2] \in Int /\ N[2] \in Int /\ M[2] \in Int
      /\ M[2] + N[2] \in Int /\ N[2] + P[2] \in Int /\ 1 \in Int /\ -1 \in Int
  BY <1>1, <1>2, CurveNumbers
<1>4. Vanishes(p, 1 * (M[2] + N[2]) + (-1) * (N[2] + P[2]))
  BY <1>1, <1>2, <1>3, ZeroCombined
<1>5. 1 * (M[2] + N[2]) + (-1) * (N[2] + P[2]) = M[2] - P[2]
  BY <1>3
<1>6. Vanishes(p, M[2] - P[2])
  BY <1>4, <1>5
<1>7. Vanishes(p, M[1] - P[1])
  <2>1. M[1] - P[1] = p * 0 /\ 0 \in Int
    BY <1>1, <1>2, <1>3
  <2> QED
    BY <2>1 DEF Vanishes
<1>8. M = P
  BY <1>2, <1>6, <1>7, SamePoint
<1> QED
  BY <1>8 DEF M, N

\* Points with the same x are equal or opposite.
LEMMA SameOrOpposite ==
  ASSUME NEW p, IsPrime(p), NEW c \in Config(p), NEW P \in Pairs(c), NEW Q \in Pairs(c),
         On(c, P), On(c, Q), P[1] = Q[1]
  PROVE  P = Q \/ Q = NegatePoint(c, P)
PROOF
<1> DEFINE N == NegatePoint(c, P)
           x == P[1]
           y == P[2]
           z == Q[2]
           C == Cubic(c.a, c.b, x)
<1>1. N \in Pairs(c) /\ N[1] = x /\ Vanishes(p, N[2] + y)
  BY NegativeIs
<1> HIDE DEF N
<1>2. /\ p \in Int /\ x \in Int /\ y \in Int /\ z \in Int /\ N[2] \in Int
      /\ Q[1] = x /\ c.m = p /\ c.a \in Int /\ c.b \in Int
  BY <1>1, CurveNumbers
<1>3. C \in Int
  BY <1>2 DEF Cubic
<1>4. Vanishes(p, C - y * y) /\ Vanishes(p, C - z * z)
  BY <1>2 DEF On
<1> HIDE DEF x, y, z, C
<1>5. 1 \in Int /\ -1 \in Int /\ C - y * y \in Int /\ C - z * z \in Int /\ y - z \in Int /\ y + z \in Int
  BY <1>2, <1>3
<1>6. Vanishes(p, 1 * (C - z * z) + (-1) * (C - y * y))
  BY <1>2, <1>4, <1>5, ZeroCombined
<1>7. 1 * (C - z * z) + (-1) * (C - y * y) = (y - z) * (y + z)
  BY <1>2, <1>3
<1>8. Vanishes(p, y - z) \/ Vanishes(p, y + z)
  BY <1>5, <1>6, <1>7, ZeroFactor
<1>9. Vanishes(p, x - x)
  <2>1. x - x = p * 0 /\ 0 \in Int
    BY <1>2
  <2> QED
    BY <2>1 DEF Vanishes
<1>10. CASE Vanishes(p, y - z)
  <2>1. P = Q
    BY <1>2, <1>9, <1>10, SamePoint DEF x, y, z
  <2> QED
    BY <2>1
<1>11. CASE Vanishes(p, y + z)
  <2>1. N[2] + y \in Int
    BY <1>2
  <2>2. Vanishes(p, 1 * (y + z) + (-1) * (N[2] + y))
    BY <1>1, <1>2, <1>5, <1>11, <2>1, ZeroCombined
  <2>3. 1 * (y + z) + (-1) * (N[2] + y) = z - N[2]
    BY <1>2
  <2>4. Vanishes(p, Q[2] - N[2]) /\ Vanishes(p, Q[1] - N[1])
    BY <1>1, <1>2, <1>9, <2>2, <2>3 DEF z
  <2>5. Q = N
    BY <1>1, <2>4, SamePoint
  <2> QED
    BY <2>5 DEF N
<1> QED
  BY <1>8, <1>10, <1>11

\* A point is its own negative only if twice its y is zero.
LEMMA OwnNegative ==
  ASSUME NEW p, IsPrime(p), NEW c \in Config(p), NEW P \in Pairs(c)
  PROVE  Vanishes(p, 2 * P[2]) <=> P = NegatePoint(c, P)
PROOF
<1>1. ASSUME P = NegatePoint(c, P) PROVE Vanishes(p, 2 * P[2])
  <2>1. Vanishes(p, P[2] + P[2])
    BY <1>1, NegativeIs
  <2>2. P[2] + P[2] = 2 * P[2]
    BY CurveNumbers
  <2> QED
    BY <2>1, <2>2
<1> QED
  BY <1>1, NotOpposite

\* What the code takes for the infinite point is the sum of opposite points.
LEMMA SumIsNone ==
  ASSUME NEW p, IsPrime(p), NEW c \in Config(p), NEW P \in Pairs(c), NEW Q \in Pairs(c),
         On(c, P), On(c, Q)
  PROVE  AddPoints(c, P, Q) = None <=> Q = NegatePoint(c, P)
PROOF
<1> DEFINE d == Slope(c, P, Q)[2]
           i == ModInverse(d % p, p)
           x == (((Slope(c, P, Q)[1] % p) * i) % p) * (((Slope(c, P, Q)[1] % p) * i) % p) - P[1] - Q[1]
<1>1. /\ p \in Nat \ {0} /\ p \in Int /\ c.m = p /\ p \in Nat /\ p > 1
      /\ P[1] \in Int /\ P[2] \in Int /\ Q[1] \in Int /\ Q[2] \in Int
      /\ P = <<P[1], P[2]>> /\ Q = <<Q[1], Q[2]>>
      /\ P[1] \in 0 .. p - 1 /\ Q[1] \in 0 .. p - 1
  BY CurveNumbers
<1>2. d = IF P # Q THEN P[1] - Q[1] ELSE 2 * P[2]
  BY DEF Slope
<1>3. d \in Int
  BY <1>1, <1>2
<1>4. AddPoints(c, P, Q) = None <=> i = 0
  <2>1. i = 0 => AddPoints(c, P, Q) = None
    BY <1>1 DEF AddPoints
  <2>2. ASSUME i # 0 PROVE AddPoints(c, P, Q) # None
    <3>1. \E x1, y1 : AddPoints(c, P, Q) = NegatePoint(c, <<x1, y1>>)
      BY <1>1, <2>2 DEF AddPoints
    <3>2. PICK x1, y1 : AddPoints(c, P, Q) = NegatePoint(c, <<x1, y1>>)
      BY <3>1
    <3>3. AddPoints(c, P, Q) = <<x1, Negate(c, y1)>>
      BY <3>2 DEF NegatePoint
    <3> QED
      BY <3>3 DEF None
  <2> QED
    BY <2>1, <2>2
<1> HIDE DEF d
<1>5. i = 0 <=> Vanishes(p, d)
  BY <1>3, ModInverseFinds
<1>6. CASE P # Q
  <2>1. ASSUME Vanishes(p, d) PROVE Q = NegatePoint(c, P)
    <3>1. Vanishes(p, P[1] - Q[1])
      BY <1>2, <1>6, <2>1
    <3>2. P[1] = Q[1]
      BY <1>1, <3>1, ZeroEqual
    <3> QED
      BY <1>6, <3>2, SameOrOpposite
  <2>2. ASSUME Q = NegatePoint(c, P) PROVE Vanishes(p, d)
    <3>1. Q[1] = P[1]
      BY <2>2, NegativeIs
    <3>2. d = p * 0 /\ 0 \in Int
      BY <1>1, <1>2, <1>6, <3>1
    <3> QED
      BY <3>2 DEF Vanishes
  <2> QED
    BY <1>4, <1>5, <2>1, <2>2
<1>7. CASE P = Q
  BY <1>2, <1>4, <1>5, <1>7, OwnNegative
<1> QED
  BY <1>6, <1>7

\* The three points are on the line y = s x + t, where it meets the curve.
OnLine(c, s, t, P) == Vanishes(c.m, P[2] - (s * P[1] + t))

\* They are the three places, counted as often as the line touches there.
Triple(c, s, t, P, Q, N) ==
  /\ s \in Int /\ t \in Int
  /\ OnLine(c, s, t, P) /\ OnLine(c, s, t, Q) /\ OnLine(c, s, t, N)
  /\ MeetsAt(c.m, c.a, c.b, s, t, P[1], Q[1], N[1])

\* In any order.
LEMMA TripleTurns ==
  ASSUME NEW p, IsPrime(p), NEW c \in Config(p), NEW P \in Pairs(c), NEW Q \in Pairs(c),
         NEW N \in Pairs(c), NEW s, NEW t, Triple(c, s, t, P, Q, N)
  PROVE  Triple(c, s, t, Q, P, N) /\ Triple(c, s, t, P, N, Q)
PROOF
<1> DEFINE x1 == P[1]
           x2 == Q[1]
           x3 == N[1]
<1>1. /\ p \in Int /\ c.m = p /\ c.a \in Int /\ c.b \in Int
      /\ x1 \in Int /\ x2 \in Int /\ x3 \in Int /\ s \in Int /\ t \in Int
  BY CurveNumbers DEF Triple
<1>2. MeetsAt(p, c.a, c.b, s, t, x1, x2, x3)
  BY <1>1 DEF Triple
<1> HIDE DEF x1, x2, x3
<1>3. /\ x1 + x2 + x3 = x2 + x1 + x3 /\ x1 + x2 + x3 = x1 + x3 + x2
      /\ x1 * x2 + x1 * x3 + x2 * x3 = x2 * x1 + x2 * x3 + x1 * x3
      /\ x1 * x2 + x1 * x3 + x2 * x3 = x1 * x3 + x1 * x2 + x3 * x2
      /\ x1 * x2 * x3 = x2 * x1 * x3 /\ x1 * x2 * x3 = x1 * x3 * x2
  BY <1>1
<1>4. MeetsAt(p, c.a, c.b, s, t, x2, x1, x3) /\ MeetsAt(p, c.a, c.b, s, t, x1, x3, x2)
  BY <1>2, <1>3, Zenon DEF MeetsAt
<1> QED
  BY <1>1, <1>4 DEF Triple, x1, x2, x3

\* The negatives are on the mirrored line.
LEMMA TripleMirrored ==
  ASSUME NEW p, IsPrime(p), NEW c \in Config(p), NEW P \in Pairs(c), NEW Q \in Pairs(c),
         NEW N \in Pairs(c), NEW s, NEW t, Triple(c, s, t, P, Q, N)
  PROVE  Triple(c, 0 - s, 0 - t, NegatePoint(c, P), NegatePoint(c, Q), NegatePoint(c, N))
PROOF
<1>1. /\ p \in Int /\ c.m = p /\ s \in Int /\ t \in Int /\ 0 - s \in Int /\ 0 - t \in Int
  BY CurveNumbers DEF Triple
<1>2. ASSUME NEW R \in Pairs(c), OnLine(c, s, t, R)
      PROVE  OnLine(c, 0 - s, 0 - t, NegatePoint(c, R))
  <2> DEFINE M == NegatePoint(c, R)
             x == R[1]
             y == R[2]
             z == M[2]
  <2>1. M \in Pairs(c) /\ M[1] = x /\ Vanishes(p, z + y)
    BY NegativeIs
  <2> HIDE DEF M
  <2>2. x \in Int /\ y \in Int /\ z \in Int
    BY <2>1, CurveNumbers
  <2>3. Vanishes(p, y - (s * x + t))
    BY <1>1, <1>2 DEF OnLine
  <2> HIDE DEF x, y, z
  <2>4. z + y \in Int /\ y - (s * x + t) \in Int /\ 1 \in Int /\ -1 \in Int
    BY <1>1, <2>2
  <2>5. Vanishes(p, 1 * (z + y) + (-1) * (y - (s * x + t)))
    BY <1>1, <2>1, <2>3, <2>4, ZeroCombined
  <2>6. 1 * (z + y) + (-1) * (y - (s * x + t)) = z - ((0 - s) * x + (0 - t))
    BY <1>1, <2>2
  <2>7. Vanishes(p, z - ((0 - s) * x + (0 - t)))
    BY <2>5, <2>6
  <2>8. OnLine(c, 0 - s, 0 - t, M)
    BY <1>1, <2>1, <2>7 DEF OnLine, z
  <2> QED
    BY <2>8 DEF M
<1>3. MeetsAt(p, c.a, c.b, 0 - s, 0 - t, P[1], Q[1], N[1])
  <2>1. MeetsAt(p, c.a, c.b, s, t, P[1], Q[1], N[1])
    BY <1>1 DEF Triple
  <2>2. /\ (0 - s) * (0 - s) = s * s /\ (0 - t) * (0 - t) = t * t
        /\ 2 * (0 - s) * (0 - t) = 2 * s * t
    BY <1>1
  <2> QED
    BY <2>1, <2>2, Zenon DEF MeetsAt
<1>4. /\ NegatePoint(c, P)[1] = P[1] /\ NegatePoint(c, Q)[1] = Q[1]
      /\ NegatePoint(c, N)[1] = N[1]
  BY NegativeIs
<1>5. /\ OnLine(c, 0 - s, 0 - t, NegatePoint(c, P))
      /\ OnLine(c, 0 - s, 0 - t, NegatePoint(c, Q))
      /\ OnLine(c, 0 - s, 0 - t, NegatePoint(c, N))
  BY <1>2 DEF Triple
<1> QED
  BY <1>1, <1>3, <1>4, <1>5 DEF Triple

\* A point of a triple is on the curve.
LEMMA TripleOn ==
  ASSUME NEW p, IsPrime(p), NEW c \in Config(p), NEW P \in Pairs(c), NEW Q \in Pairs(c),
         NEW N \in Pairs(c), NEW s, NEW t, Triple(c, s, t, P, Q, N)
  PROVE  On(c, P) /\ On(c, Q) /\ On(c, N)
PROOF
<1>1. /\ p \in Int /\ c.m = p /\ c.a \in Int /\ c.b \in Int
  BY CurveNumbers
<1>2. ASSUME NEW R \in Pairs(c), NEW M \in Pairs(c), NEW L \in Pairs(c), Triple(c, s, t, R, M, L)
      PROVE  On(c, R)
  <2> DEFINE x1 == R[1]
             x2 == M[1]
             x3 == L[1]
             y1 == R[2]
  <2>1. x1 \in Int /\ x2 \in Int /\ x3 \in Int /\ y1 \in Int /\ s \in Int /\ t \in Int
    BY <1>2, CurveNumbers DEF Triple
  <2>2. MeetsAt(p, c.a, c.b, s, t, x1, x2, x3) /\ Vanishes(p, y1 - (s * x1 + t))
    BY <1>1, <1>2 DEF Triple, OnLine
  <2> HIDE DEF x1, x2, x3, y1
  <2>3. Vanishes(p, Cubic(c.a, c.b, x1) - y1 * y1)
    BY <1>1, <2>1, <2>2, MeetingOn
  <2> QED
    BY <1>1, <2>3 DEF On, x1, y1
<1>3. Triple(c, s, t, Q, P, N) /\ Triple(c, s, t, P, N, Q)
  BY TripleTurns
<1>4. Triple(c, s, t, N, P, Q)
  BY <1>3, TripleTurns
<1> QED
  BY <1>2, <1>3, <1>4

\* The negative of a sum is in a triple with the summands.
LEMMA SumTriple ==
  ASSUME NEW p, IsPrime(p), NEW c \in Config(p), NEW P \in Pairs(c), NEW Q \in Pairs(c),
         On(c, P), On(c, Q), AddPoints(c, P, Q) # None
  PROVE  /\ AddPoints(c, P, Q) \in Pairs(c)
         /\ \E s, t : Triple(c, s, t, P, Q, NegatePoint(c, AddPoints(c, P, Q)))
PROOF
<1> DEFINE R == AddPoints(c, P, Q)
           N == NegatePoint(c, R)
           x1 == P[1]
           y1 == P[2]
           x2 == Q[1]
           y2 == Q[2]
           x3 == R[1]
           y3 == R[2]
           n3 == N[2]
           a == c.a
           b == c.b
<1>1. PICK s \in Int : Collinear(c, P, Q, s, R)
  BY SumCollinear
<1>2. R \in Pairs(c)
  BY <1>1 DEF Collinear
<1>3. N \in Pairs(c) /\ N[1] = x3 /\ Vanishes(p, n3 + y3)
  BY <1>2, NegativeIs
<1> HIDE DEF N, R
<1>4. /\ p \in Int /\ c.m = p /\ a \in Int /\ b \in Int /\ n3 \in Int
      /\ x1 \in Int /\ y1 \in Int /\ x2 \in Int /\ y2 \in Int /\ x3 \in Int /\ y3 \in Int
  BY <1>2, <1>3, CurveNumbers
<1>5. /\ Vanishes(p, RestA(a, x1, y1, x2, s)) /\ Vanishes(p, RestB(b, x1, y1, x2, s))
      /\ Vanishes(p, LineAt(x1, y1, s, x2) - y2)
      /\ Vanishes(p, x3 - (s * s - x1 - x2))
      /\ Vanishes(p, y3 + LineAt(x1, y1, s, x3))
  BY <1>1, <1>4 DEF Collinear
<1> HIDE DEF x1, y1, x2, y2, x3, y3, n3, a, b
<1> DEFINE t == y1 - s * x1
           A == RestA(a, x1, y1, x2, s)
           B == RestB(b, x1, y1, x2, s)
           h == LineAt(x1, y1, s, x2) - y2
           z == x3 - (s * s - x1 - x2)
           l == y3 + LineAt(x1, y1, s, x3)
           n == n3 + y3
           e1 == s * s - (x1 + x2 + x3)
           e2 == a - 2 * s * t - (x1 * x2 + x1 * x3 + x2 * x3)
           e3 == b - t * t + x1 * x2 * x3
           l1 == y1 - (s * x1 + t)
           l2 == y2 - (s * x2 + t)
           l3 == n3 - (s * x3 + t)
<1>6. /\ A \in Int /\ B \in Int /\ h \in Int /\ z \in Int /\ l \in Int /\ n \in Int /\ t \in Int
      /\ 1 \in Int /\ -1 \in Int /\ 0 \in Int /\ 0 - (x1 + x2) \in Int /\ x1 * x2 \in Int
  BY <1>4 DEF RestA, RestB, LineAt
<1>7. e1 = (-1) * z /\ l2 = (-1) * h /\ l3 = 1 * n + (-1) * l /\ l1 = p * 0
  BY <1>4 DEF LineAt
<1>8. e2 = 1 * A + (0 - (x1 + x2)) * z
  BY <1>4 DEF RestA
<1>9. e3 = 1 * B + (x1 * x2) * z
  BY <1>4 DEF RestB
<1>10. Vanishes(p, A) /\ Vanishes(p, B) /\ Vanishes(p, h) /\ Vanishes(p, z) /\ Vanishes(p, l)
       /\ Vanishes(p, n)
  BY <1>3, <1>5
<1> HIDE DEF t, A, B, h, z, l, n, e1, e2, e3, l1, l2, l3
<1>11. Vanishes(p, e1) /\ Vanishes(p, l2)
  BY <1>4, <1>6, <1>7, <1>10, ZeroMultiple
<1>12. Vanishes(p, l3)
  BY <1>4, <1>6, <1>7, <1>10, ZeroCombined
<1>13. Vanishes(p, l1)
  BY <1>6, <1>7 DEF Vanishes
<1>14. Vanishes(p, e2)
  BY <1>4, <1>6, <1>8, <1>10, ZeroCombined
<1>15. Vanishes(p, e3)
  BY <1>4, <1>6, <1>9, <1>10, ZeroCombined
<1>16. MeetsAt(p, a, b, s, t, x1, x2, x3)
  BY <1>11, <1>14, <1>15 DEF MeetsAt, e1, e2, e3
<1>17. OnLine(c, s, t, P) /\ OnLine(c, s, t, Q) /\ OnLine(c, s, t, N)
  BY <1>3, <1>4, <1>11, <1>12, <1>13 DEF OnLine, l1, l2, l3, x1, y1, x2, y2, x3, n3
<1>18. Triple(c, s, t, P, Q, N)
  BY <1>3, <1>4, <1>6, <1>16, <1>17 DEF Triple, x1, x2, a, b
<1> QED
  BY <1>2, <1>18 DEF N, R

\* The slope AddPoints computes for two points of a triple is that of its line.
LEMMA SlopeIsTriple ==
  ASSUME NEW p, IsPrime(p), NEW c \in Config(p), NEW P \in Pairs(c), NEW Q \in Pairs(c),
         NEW N \in Pairs(c), NEW s, NEW t, Triple(c, s, t, P, Q, N),
         NEW z \in Int, Line(c, P, Q, z)
  PROVE  Vanishes(p, z - s)
PROOF
<1> DEFINE x1 == P[1]
           y1 == P[2]
           x2 == Q[1]
           y2 == Q[2]
           x3 == N[1]
           a == c.a
           l1 == y1 - (s * x1 + t)
           l2 == y2 - (s * x2 + t)
           e1 == s * s - (x1 + x2 + x3)
           e2 == a - 2 * s * t - (x1 * x2 + x1 * x3 + x2 * x3)
           d == z - s
<1>1. /\ p \in Nat \ {0} /\ p \in Int /\ c.m = p /\ a \in Int /\ s \in Int /\ t \in Int
      /\ x1 \in Int /\ y1 \in Int /\ x2 \in Int /\ y2 \in Int /\ x3 \in Int
      /\ x1 \in 0 .. p - 1 /\ x2 \in 0 .. p - 1
  BY CurveNumbers DEF Triple
<1>2. Vanishes(p, l1) /\ Vanishes(p, l2) /\ Vanishes(p, e1) /\ Vanishes(p, e2)
  BY <1>1 DEF Triple, OnLine, MeetsAt
<1>3. /\ l1 \in Int /\ l2 \in Int /\ e1 \in Int /\ e2 \in Int /\ d \in Int /\ 1 \in Int /\ -1 \in Int
      /\ 0 - 2 * s \in Int /\ 0 - 2 * x1 \in Int /\ x1 - x2 \in Int /\ 2 * y1 \in Int
  BY <1>1
<1>4. CASE P # Q
  <2> DEFINE f == z * (x1 - x2) - (y1 - y2)
  <2>1. x1 # x2 /\ Alike(p, z * (x1 - x2), y1 - y2)
    BY <1>1, <1>4 DEF Line
  <2>2. z * (x1 - x2) \in Int /\ y1 - y2 \in Int /\ f \in Int
    BY <1>1
  <2>3. Vanishes(p, f)
    BY <1>1, <2>1, <2>2, AlikeIsZero
  <2>4. ~Vanishes(p, x1 - x2)
    BY <1>1, <2>1, ZeroEqual
  <2> HIDE DEF x1, y1, x2, y2, x3, a
  <2>5. (x1 - x2) * d = 1 * f + 1 * l1 + (-1) * l2
    BY <1>1
  <2> HIDE DEF f, l1, l2, d
  <2>6. Vanishes(p, 1 * f + 1 * l1 + (-1) * l2)
    BY <1>1, <1>2, <1>3, <2>2, <2>3, ZeroCombined3
  <2>7. Vanishes(p, (x1 - x2) * d)
    BY <2>5, <2>6
  <2>8. Vanishes(p, d)
    BY <1>3, <2>4, <2>7, ZeroFactor
  <2> QED
    BY <2>8 DEF d
<1>5. CASE P = Q
  <2> DEFINE f == z * (2 * y1) - (3 * x1 * x1 + a)
  <2>1. ~Alike(p, 2 * y1, 0) /\ Alike(p, z * (2 * y1), 3 * x1 * x1 + a) /\ x2 = x1
    BY <1>1, <1>5 DEF Line
  <2>2. z * (2 * y1) \in Int /\ 3 * x1 * x1 + a \in Int /\ f \in Int /\ 2 * y1 - 0 = 2 * y1
    BY <1>1
  <2>3. Vanishes(p, f)
    BY <1>1, <2>1, <2>2, AlikeIsZero
  <2>4. ~Vanishes(p, 2 * y1)
    <3> DEFINE h == 2 * y1
    <3>1. h \in Int /\ h - 0 = h /\ ~Alike(p, h, 0) /\ 0 \in Int
      BY <1>1, <2>1
    <3> HIDE DEF h
    <3>2. ~Vanishes(p, h - 0)
      BY <1>1, <3>1, AlikeIsZero
    <3> QED
      BY <3>1, <3>2 DEF h
  <2> HIDE DEF x1, y1, x2, y2, x3, a
  <2>5. (2 * y1) * d = 1 * f + 1 * e2 + (0 - 2 * s) * l1 + (0 - 2 * x1) * e1
    BY <1>1, <2>1
  <2> HIDE DEF f, l1, e1, e2, d
  <2>6. Vanishes(p, 1 * f + 1 * e2 + (0 - 2 * s) * l1 + (0 - 2 * x1) * e1)
    BY <1>1, <1>2, <1>3, <2>2, <2>3, ZeroCombined4
  <2>7. Vanishes(p, (2 * y1) * d)
    BY <2>5, <2>6
  <2>8. Vanishes(p, d)
    BY <1>3, <2>4, <2>7, ZeroFactor
  <2> QED
    BY <2>8 DEF d
<1> QED
  BY <1>4, <1>5

\* So the sum is the negative of the third.
LEMMA TripleSum ==
  ASSUME NEW p, IsPrime(p), NEW c \in Config(p), NEW P \in Pairs(c), NEW Q \in Pairs(c),
         NEW N \in Pairs(c), NEW s, NEW t, Triple(c, s, t, P, Q, N),
         AddPoints(c, P, Q) # None
  PROVE  AddPoints(c, P, Q) = NegatePoint(c, N)
PROOF
<1> DEFINE R == AddPoints(c, P, Q)
           M == NegatePoint(c, N)
           x1 == P[1]
           y1 == P[2]
           x2 == Q[1]
           x3 == N[1]
           n == N[2]
           x == R[1]
           y == R[2]
           o == M[2]
<1>1. p \in Nat /\ p > 1
  BY CurveNumbers
<1>2. PICK z \in Int : Line(c, P, Q, z) /\ Meets(c, P, Q, z, R)
  BY <1>1, SumIs
<1>3. R \in Pairs(c)
  BY <1>2 DEF Meets
<1>4. M \in Pairs(c) /\ M[1] = x3 /\ Vanishes(p, o + n)
  BY NegativeIs
<1> HIDE DEF R, M
<1>5. /\ p \in Nat \ {0} /\ p \in Int /\ c.m = p /\ s \in Int /\ t \in Int
      /\ x1 \in Int /\ y1 \in Int /\ x2 \in Int /\ x3 \in Int /\ n \in Int
      /\ x \in Int /\ y \in Int /\ o \in Int /\ x3 \in 0 .. p - 1 /\ x \in 0 .. p - 1
  BY <1>3, <1>4, CurveNumbers DEF Triple
<1>6. Vanishes(p, z - s)
  BY <1>2, SlopeIsTriple
<1> DEFINE d == z - s
           u == x - (z * z - x1 - x2)
           v == y + y1 + z * (x - x1)
           e1 == s * s - (x1 + x2 + x3)
           l1 == y1 - (s * x1 + t)
           l3 == n - (s * x3 + t)
<1>7. Vanishes(p, e1) /\ Vanishes(p, l1) /\ Vanishes(p, l3)
  BY <1>5 DEF Triple, OnLine, MeetsAt
<1>8. Vanishes(p, u) /\ Vanishes(p, v)
  <2>1. Alike(p, x, z * z - x1 - x2) /\ Alike(p, y, 0 - (y1 + z * (x - x1)))
    BY <1>2, <1>5 DEF Meets
  <2>2. z * z - x1 - x2 \in Int /\ 0 - (y1 + z * (x - x1)) \in Int
    BY <1>5
  <2>3. Vanishes(p, x - (z * z - x1 - x2)) /\ Vanishes(p, y - (0 - (y1 + z * (x - x1))))
    BY <1>5, <2>1, <2>2, AlikeIsZero
  <2> HIDE DEF x, y, x1, y1, x2
  <2>4. y - (0 - (y1 + z * (x - x1))) = v
    BY <1>5
  <2> QED
    BY <2>3, <2>4
<1> HIDE DEF x1, y1, x2, x3, n, x, y, o
<1>9. /\ d \in Int /\ u \in Int /\ v \in Int /\ e1 \in Int /\ l1 \in Int /\ l3 \in Int
      /\ 1 \in Int /\ -1 \in Int /\ 0 - (s + z) \in Int /\ x1 - x3 \in Int /\ o + n \in Int
      /\ x3 - x \in Int
  BY <1>5
<1>10. x3 = x
  <2>1. x3 - x = (0 - (s + z)) * d + (-1) * e1 + (-1) * u
    BY <1>5
  <2> HIDE DEF d, e1, u
  <2>2. Vanishes(p, (0 - (s + z)) * d + (-1) * e1 + (-1) * u)
    BY <1>5, <1>6, <1>7, <1>8, <1>9, ZeroCombined3 DEF d
  <2>3. Vanishes(p, x3 - x)
    BY <2>1, <2>2
  <2> QED
    BY <1>5, <2>3, ZeroEqual
<1>11. Vanishes(p, y - o)
  <2> DEFINE f == 1 * v + 1 * l3 + (-1) * l1 + (x1 - x3) * d
             w == o + n
  <2>1. y - o = 1 * f + (-1) * w
    BY <1>5, <1>10
  <2>2. f \in Int /\ w \in Int
    BY <1>5
  <2> HIDE DEF d, v, l3, l1, w
  <2>3. Vanishes(p, f)
    BY <1>5, <1>6, <1>7, <1>8, <1>9, ZeroCombined4 DEF d
  <2> HIDE DEF f
  <2>4. Vanishes(p, w)
    BY <1>4 DEF w
  <2>5. Vanishes(p, 1 * f + (-1) * w)
    BY <1>5, <1>9, <2>2, <2>3, <2>4, ZeroCombined
  <2> QED
    BY <2>1, <2>5
<1>12. Vanishes(p, R[1] - M[1])
  <2>1. R[1] - M[1] = p * 0 /\ 0 \in Int
    BY <1>4, <1>5, <1>10 DEF x, x3
  <2> QED
    BY <2>1 DEF Vanishes
<1>13. R = M
  BY <1>3, <1>4, <1>11, <1>12, SamePoint DEF y, o
<1> QED
  BY <1>13 DEF R, M

-----------------------------------------------------------------------------
(* The laws of addition that need no third point. *)

\* The negative of a point of the curve is one.
LEMMA NegativeOn ==
  ASSUME NEW p, IsPrime(p), NEW c \in Config(p), NEW P \in Pairs(c), On(c, P)
  PROVE  On(c, NegatePoint(c, P))
PROOF
<1> DEFINE N == NegatePoint(c, P)
           x == P[1]
           y == P[2]
           z == N[2]
           C == Cubic(c.a, c.b, x)
<1>1. N \in Pairs(c) /\ N[1] = x /\ Vanishes(p, z + y)
  BY NegativeIs
<1> HIDE DEF N
<1>2. /\ p \in Int /\ x \in Int /\ y \in Int /\ z \in Int /\ c.m = p /\ c.a \in Int /\ c.b \in Int
  BY <1>1, CurveNumbers
<1>3. Vanishes(p, C - y * y) /\ C \in Int
  BY <1>2 DEF On, Cubic
<1> HIDE DEF x, y, z, C
<1>4. C - y * y \in Int /\ z + y \in Int /\ 1 \in Int /\ y - z \in Int
  BY <1>2, <1>3
<1>5. Vanishes(p, 1 * (C - y * y) + (y - z) * (z + y))
  BY <1>1, <1>2, <1>3, <1>4, ZeroCombined
<1>6. 1 * (C - y * y) + (y - z) * (z + y) = C - z * z
  BY <1>2, <1>3
<1>7. Vanishes(p, C - z * z)
  BY <1>5, <1>6
<1>8. On(c, N)
  BY <1>1, <1>2, <1>7 DEF On, C, z
<1> QED
  BY <1>8 DEF N

\* The order of the summands makes no difference.
LEMMA SumCommutes ==
  ASSUME NEW p, IsPrime(p), NEW c \in Config(p), NEW P \in Pairs(c), NEW Q \in Pairs(c),
         On(c, P), On(c, Q)
  PROVE  AddPoints(c, P, Q) = AddPoints(c, Q, P)
PROOF
<1>1. CASE Q = NegatePoint(c, P)
  <2>1. P = NegatePoint(c, Q)
    BY <1>1, NegatedTwice
  <2> QED
    BY <1>1, <2>1, SumIsNone
<1>2. CASE Q # NegatePoint(c, P)
  <2> DEFINE R == AddPoints(c, P, Q)
             N == NegatePoint(c, R)
  <2>1. R # None
    BY <1>2, SumIsNone
  <2>2. R \in Pairs(c) /\ \E s, t : Triple(c, s, t, P, Q, N)
    BY <2>1, SumTriple
  <2>3. PICK s, t : Triple(c, s, t, P, Q, N)
    BY <2>2
  <2>4. N \in Pairs(c) /\ NegatePoint(c, N) = R
    BY <2>2, NegativeIs, NegatedTwice
  <2> HIDE DEF R, N
  <2>5. Triple(c, s, t, Q, P, N)
    BY <2>3, <2>4, TripleTurns
  <2>6. P # NegatePoint(c, Q)
    BY <1>2, NegatedTwice
  <2>7. AddPoints(c, Q, P) # None
    BY <2>6, SumIsNone
  <2>8. AddPoints(c, Q, P) = R
    BY <2>4, <2>5, <2>7, TripleSum
  <2> QED
    BY <2>8 DEF R
<1> QED
  BY <1>1, <1>2

\* The negative of a sum is the sum of the negatives.
LEMMA SumNegated ==
  ASSUME NEW p, IsPrime(p), NEW c \in Config(p), NEW P \in Pairs(c), NEW Q \in Pairs(c),
         On(c, P), On(c, Q), Q # NegatePoint(c, P)
  PROVE  AddPoints(c, NegatePoint(c, P), NegatePoint(c, Q)) = NegatePoint(c, AddPoints(c, P, Q))
PROOF
<1> DEFINE R == AddPoints(c, P, Q)
           N == NegatePoint(c, R)
           P1 == NegatePoint(c, P)
           Q1 == NegatePoint(c, Q)
<1>1. R # None
  BY SumIsNone
<1>2. R \in Pairs(c) /\ \E s, t : Triple(c, s, t, P, Q, N)
  BY <1>1, SumTriple
<1>3. PICK s, t : Triple(c, s, t, P, Q, N)
  BY <1>2
<1>4. N \in Pairs(c) /\ NegatePoint(c, N) = R
  BY <1>2, NegativeIs, NegatedTwice
<1>5. /\ P1 \in Pairs(c) /\ Q1 \in Pairs(c) /\ On(c, P1) /\ On(c, Q1)
      /\ NegatePoint(c, P1) = P /\ NegatePoint(c, Q1) = Q
  BY NegativeIs, NegatedTwice, NegativeOn
<1>6. Triple(c, 0 - s, 0 - t, P1, Q1, R)
  <2> HIDE DEF R, N
  <2>1. Triple(c, 0 - s, 0 - t, P1, Q1, NegatePoint(c, N))
    BY <1>3, <1>4, TripleMirrored
  <2> QED
    BY <1>4, <2>1
<1> HIDE DEF R, N, P1, Q1
<1>7. Q1 # NegatePoint(c, P1)
  BY <1>5, NegatedTwice DEF P1, Q1
<1>8. AddPoints(c, P1, Q1) # None
  BY <1>5, <1>7, SumIsNone
<1>9. AddPoints(c, P1, Q1) = NegatePoint(c, R)
  BY <1>2, <1>5, <1>6, <1>8, TripleSum
<1> QED
  BY <1>9 DEF R, P1, Q1

\* What is zero modulo p has no remainder.
LEMMA VanishesIs ==
  ASSUME NEW p \in Nat \ {0}, NEW e \in Int
  PROVE  Vanishes(p, e) <=> e % p = 0
PROOF
<1> DEFINE r == e % p
<1>0. r \in 0 .. p - 1 /\ Vanishes(p, r - e)
  BY ZeroRemainder
<1> HIDE DEF r
<1>1. r \in 0 .. p - 1 /\ Vanishes(p, r - e) /\ r \in Int /\ p \in Int
  BY <1>0
<1>2. 1 \in Int /\ -1 \in Int /\ r - e \in Int
  BY <1>1
<1>3. ASSUME Vanishes(p, e) PROVE r = 0
  <2>1. Vanishes(p, 1 * (r - e) + 1 * e)
    BY <1>1, <1>2, <1>3, ZeroCombined
  <2>2. 1 * (r - e) + 1 * e = r - 0 /\ 0 \in 0 .. p - 1
    BY <1>1
  <2> QED
    BY <1>1, <2>1, <2>2, ZeroEqual
<1>4. ASSUME r = 0 PROVE Vanishes(p, e)
  <2>1. Vanishes(p, (-1) * (r - e))
    BY <1>1, <1>2, ZeroMultiple
  <2>2. (-1) * (r - e) = e
    BY <1>4
  <2> QED
    BY <2>1, <2>2
<1> QED
  BY <1>3, <1>4 DEF r

\* A point where the curve has two tangents: then it is singular.
Discriminant(a, b, x) ==
  4 * a * a * a + 27 * b * b =
    (4 * (3 * x * x + a) * (3 * x * x + a) - 9 * (3 * x * x + a) * x * x
       - 54 * (x * x * x + a * x + b) * x) * (3 * x * x + a)
    + (27 * (x * x * x + a * x + b) + 108 * x * x * x) * (x * x * x + a * x + b)

\* What RandomGenerate computes is made of the curve and its derivative.
LEMMA DiscriminantIs ==
  ASSUME NEW a \in Int, NEW b \in Int, NEW x \in Int
  PROVE  Discriminant(a, b, x)
PROOF
<1> DEFINE u == 3 * x * x + a
           v == x * x * x + a * x + b
<1>1. u \in Int /\ v \in Int /\ a = u - 3 * x * x /\ b = v + 2 * x * x * x - u * x
  OBVIOUS
<1> HIDE DEF u, v
<1>2. 4 * (u - 3 * x * x) * (u - 3 * x * x) * (u - 3 * x * x)
        = 4 * u * u * u - 36 * u * u * x * x + 108 * u * x * x * x * x
          - 108 * x * x * x * x * x * x
  BY <1>1
<1>3. 27 * (v + 2 * x * x * x - u * x) * (v + 2 * x * x * x - u * x)
        = 27 * v * v + 108 * x * x * x * x * x * x + 27 * u * u * x * x
          + 108 * v * x * x * x - 54 * u * v * x - 108 * u * x * x * x * x
  BY <1>1
<1>4. (4 * u * u - 9 * u * x * x - 54 * v * x) * u + (27 * v + 108 * x * x * x) * v
        = 4 * u * u * u - 9 * u * u * x * x - 54 * v * x * u + 27 * v * v + 108 * x * x * x * v
  BY <1>1
<1>5. 4 * (u - 3 * x * x) * (u - 3 * x * x) * (u - 3 * x * x)
      + 27 * (v + 2 * x * x * x - u * x) * (v + 2 * x * x * x - u * x)
        = (4 * u * u - 9 * u * x * x - 54 * v * x) * u + (27 * v + 108 * x * x * x) * v
  BY <1>1, <1>2, <1>3, <1>4
<1>6. 4 * a * a * a + 27 * b * b
        = (4 * u * u - 9 * u * x * x - 54 * v * x) * u + (27 * v + 108 * x * x * x) * v
  BY <1>1, <1>5
<1> QED
  BY <1>6 DEF Discriminant, u, v

\* A sum is neither of its summands: a curve that RandomGenerate lets pass has a
\* tangent at every point.
LEMMA SumIsNew ==
  ASSUME NEW p, IsPrime(p), p # 2, NEW c \in RandomGenerate(p), NEW P \in Pairs(c),
         NEW Q \in Pairs(c), On(c, P), On(c, Q), AddPoints(c, P, Q) = Q
  PROVE  FALSE
PROOF
<1>1. c \in Config(p) /\ (4 * c.a * c.a * c.a + 27 * c.b * c.b) % p # 0
  BY DEF RandomGenerate
<1> DEFINE x == Q[1]
           y == Q[2]
           a == c.a
           b == c.b
           C == Cubic(a, b, x)
<1>2. /\ p \in Nat \ {0} /\ p \in Int /\ p > 2 /\ c.m = p /\ a \in Int /\ b \in Int
      /\ x \in Int /\ y \in Int /\ Q # None
  BY <1>1, CurveNumbers
<1>3. PICK s \in Int : Collinear(c, P, Q, s, Q)
  BY <1>1, <1>2, SumCollinear
<1>4. Vanishes(p, (x - x) * s - (y + y)) /\ Vanishes(p, (2 * y) * s - (3 * x * x + a))
  BY <1>1, <1>2, <1>3, SlopeFound DEF SlopeOf
<1>5. Vanishes(p, C - y * y)
  BY <1>2 DEF On
<1> HIDE DEF x, y, a, b
<1> DEFINE d == (x - x) * s - (y + y)
           e == (2 * y) * s - (3 * x * x + a)
           u == 3 * x * x + a
           v == x * x * x + a * x + b
           f == C - y * y
           i == 4 * u * u - 9 * u * x * x - 54 * v * x
           j == 27 * v + 108 * x * x * x
           D == 4 * a * a * a + 27 * b * b
<1>6. /\ d \in Int /\ e \in Int /\ u \in Int /\ v \in Int /\ f \in Int /\ i \in Int /\ j \in Int
      /\ D \in Int /\ C \in Int /\ 1 \in Int /\ -1 \in Int /\ 0 - s \in Int /\ 2 \in Int
  BY <1>2 DEF Cubic
<1>7. 2 * y = (-1) * d /\ v = C /\ u = (-1) * e + s * (2 * y)
  BY <1>2 DEF Cubic
<1>8. D = i * u + j * v
  BY <1>2, DiscriminantIs DEF Discriminant
<1>9. ~Vanishes(p, D)
  BY <1>1, <1>2, <1>6, VanishesIs DEF a, b
<1>10. Vanishes(p, 2 * y) /\ 2 * y \in Int
  <2> HIDE DEF d
  <2>1. Vanishes(p, (-1) * d)
    BY <1>2, <1>4, <1>6, ZeroMultiple DEF d
  <2> QED
    BY <1>2, <1>7, <2>1
<1> HIDE DEF d, e, u, v, f, i, j, D, C
<1>11. Vanishes(p, y)
  <2>1. ~Vanishes(p, 2)
    <3>1. 2 \in 0 .. p - 1 /\ 0 \in 0 .. p - 1 /\ 2 - 0 = 2 /\ 2 # 0
      BY <1>2
    <3> QED
      BY <1>2, <3>1, ZeroEqual
  <2> QED
    BY <1>2, <1>6, <1>10, <2>1, ZeroFactor
<1>12. Vanishes(p, u)
  <2> DEFINE z == 2 * y
  <2>1. z \in Int /\ Vanishes(p, z) /\ u = (-1) * e + s * z
    BY <1>7, <1>10
  <2> HIDE DEF z
  <2>2. Vanishes(p, e)
    BY <1>4 DEF e
  <2>3. Vanishes(p, (-1) * e + s * z)
    BY <1>2, <1>6, <2>1, <2>2, ZeroCombined
  <2> QED
    BY <2>1, <2>3
<1>13. Vanishes(p, v)
  <2>1. Vanishes(p, 1 * f + y * y)
    BY <1>2, <1>5, <1>6, <1>11, ZeroCombined DEF f
  <2>2. 1 * f + y * y = v
    BY <1>2, <1>6, <1>7 DEF f
  <2> QED
    BY <2>1, <2>2
<1>14. Vanishes(p, i * u + j * v)
  BY <1>2, <1>6, <1>12, <1>13, ZeroCombined
<1> QED
  BY <1>8, <1>9, <1>14

\* What was added can be taken off again.
LEMMA SumCancels ==
  ASSUME NEW p, IsPrime(p), p # 2, NEW c \in RandomGenerate(p), NEW P \in Pairs(c),
         NEW Q \in Pairs(c), On(c, P), On(c, Q), Q # NegatePoint(c, P)
  PROVE  /\ AddPoints(c, P, Q) \in Pairs(c) /\ On(c, AddPoints(c, P, Q))
         /\ AddPoints(c, AddPoints(c, P, Q), NegatePoint(c, Q)) = P
PROOF
<1>1. c \in Config(p)
  BY DEF RandomGenerate
<1> DEFINE R == AddPoints(c, P, Q)
           N == NegatePoint(c, R)
           P1 == NegatePoint(c, P)
           Q1 == NegatePoint(c, Q)
<1>2. R # None /\ R # Q
  BY <1>1, SumIsNone, SumIsNew
<1>3. R \in Pairs(c) /\ \E s, t : Triple(c, s, t, P, Q, N)
  BY <1>1, <1>2, SumTriple
<1>4. PICK s, t : Triple(c, s, t, P, Q, N)
  BY <1>3
<1>5. /\ N \in Pairs(c) /\ NegatePoint(c, N) = R
      /\ P1 \in Pairs(c) /\ Q1 \in Pairs(c) /\ On(c, P1) /\ On(c, Q1)
      /\ NegatePoint(c, P1) = P /\ NegatePoint(c, Q1) = Q
  BY <1>1, <1>3, NegativeIs, NegatedTwice, NegativeOn
<1> HIDE DEF R, N, P1, Q1
<1>6. Triple(c, 0 - s, 0 - t, P1, Q1, R)
  BY <1>1, <1>4, <1>5, TripleMirrored DEF P1, Q1
<1>7. Triple(c, 0 - s, 0 - t, R, Q1, P1) /\ On(c, R)
  <2>1. Triple(c, 0 - s, 0 - t, P1, R, Q1)
    BY <1>1, <1>3, <1>5, <1>6, TripleTurns
  <2>2. Triple(c, 0 - s, 0 - t, R, P1, Q1)
    BY <1>1, <1>3, <1>5, <2>1, TripleTurns
  <2> QED
    BY <1>1, <1>3, <1>5, <1>6, <2>2, TripleTurns, TripleOn
<1>8. Q1 # NegatePoint(c, R)
  BY <1>1, <1>2, <1>3, <1>5, NegatedTwice
<1>9. AddPoints(c, R, Q1) # None
  BY <1>1, <1>3, <1>5, <1>7, <1>8, SumIsNone
<1>10. AddPoints(c, R, Q1) = P
  BY <1>1, <1>3, <1>5, <1>7, <1>9, TripleSum
<1> QED
  BY <1>3, <1>7, <1>10 DEF R, Q1

-----------------------------------------------------------------------------
(* The order of two additions makes no difference.                         *)

\* Zero modulo p where something zero is added.
LEMMA MeetsLike ==
  ASSUME NEW p \in Int, NEW a \in Int, NEW b \in Int, NEW s \in Int, NEW t \in Int,
         NEW x1 \in Int, NEW x2 \in Int, NEW x3 \in Int, NEW z \in Int,
         MeetsAt(p, a, b, s, t, x1, x2, x3), Vanishes(p, z - x3)
  PROVE  MeetsAt(p, a, b, s, t, x1, x2, z)
PROOF
<1> DEFINE e1 == s * s - (x1 + x2 + x3)
           e2 == a - 2 * s * t - (x1 * x2 + x1 * x3 + x2 * x3)
           e3 == b - t * t + x1 * x2 * x3
           d == z - x3
           g1 == s * s - (x1 + x2 + z)
           g2 == a - 2 * s * t - (x1 * x2 + x1 * z + x2 * z)
           g3 == b - t * t + x1 * x2 * z
<1>1. /\ e1 \in Int /\ e2 \in Int /\ e3 \in Int /\ d \in Int /\ 1 \in Int /\ -1 \in Int
      /\ 0 - (x1 + x2) \in Int /\ x1 * x2 \in Int
  OBVIOUS
<1>2. Vanishes(p, e1) /\ Vanishes(p, e2) /\ Vanishes(p, e3) /\ Vanishes(p, d)
  BY DEF MeetsAt
<1>3. g1 = 1 * e1 + (-1) * d /\ g2 = 1 * e2 + (0 - (x1 + x2)) * d /\ g3 = 1 * e3 + (x1 * x2) * d
  OBVIOUS
<1> HIDE DEF e1, e2, e3, d, g1, g2, g3
<1>4. Vanishes(p, 1 * e1 + (-1) * d)
  BY <1>1, <1>2, ZeroCombined
<1>5. Vanishes(p, 1 * e2 + (0 - (x1 + x2)) * d)
  BY <1>1, <1>2, ZeroCombined
<1>6. Vanishes(p, 1 * e3 + (x1 * x2) * d)
  BY <1>1, <1>2, ZeroCombined
<1>7. Vanishes(p, g1) /\ Vanishes(p, g2) /\ Vanishes(p, g3)
  BY <1>3, <1>4, <1>5, <1>6
<1> QED
  BY <1>7 DEF MeetsAt, g1, g2, g3

\* Two lines through B, the one also through A and the negative of S, the other
\* also through C and a third point.
Crossing(c, s1, t1, s3, t3, A, B, C, S, M) ==
  /\ A \in Pairs(c) /\ B \in Pairs(c) /\ C \in Pairs(c) /\ S \in Pairs(c) /\ M \in Pairs(c)
  /\ Triple(c, s1, t1, A, B, NegatePoint(c, S))
  /\ Triple(c, s3, t3, B, C, M)

\* They have B in common.
LEMMA LinesCross ==
  ASSUME NEW p, IsPrime(p), NEW c \in Config(p), NEW B \in Pairs(c), NEW s1 \in Int,
         NEW t1 \in Int, NEW s3 \in Int, NEW t3 \in Int,
         OnLine(c, s1, t1, B), OnLine(c, s3, t3, B)
  PROVE  Vanishes(p, (s1 - s3) * B[1] + (t1 - t3))
PROOF
<1> DEFINE x == B[1]
           y == B[2]
           f == y - (s1 * x + t1)
           h == y - (s3 * x + t3)
<1>1. p \in Int /\ c.m = p /\ x \in Int /\ y \in Int
  BY CurveNumbers
<1>2. Vanishes(p, f) /\ Vanishes(p, h)
  BY <1>1 DEF OnLine
<1> HIDE DEF x, y
<1>3. f \in Int /\ h \in Int /\ 1 \in Int /\ -1 \in Int
  BY <1>1
<1>4. (s1 - s3) * x + (t1 - t3) = 1 * h + (-1) * f
  BY <1>1
<1> HIDE DEF f, h
<1>5. Vanishes(p, 1 * h + (-1) * f)
  BY <1>1, <1>2, <1>3, ZeroCombined
<1>6. Vanishes(p, (s1 - s3) * x + (t1 - t3))
  BY <1>4, <1>5
<1> QED
  BY <1>6 DEF x

\* The line through S and C.
LEMMA ThirdLine ==
  ASSUME NEW p, IsPrime(p), NEW c \in Config(p), NEW A, NEW B, NEW C, NEW S, NEW M,
         NEW s1, NEW t1, NEW s3, NEW t3, NEW k \in Int,
         Crossing(c, s1, t1, s3, t3, A, B, C, S, M),
         Between(p, s1, s3, A[1], C[1], k), ~Vanishes(p, s1 - s3)
  PROVE  LET s2 == 0 - s1 - k
             t2 == k * S[1] - t1
         IN  /\ s2 \in Int /\ t2 \in Int
             /\ OnLine(c, s2, t2, S) /\ OnLine(c, s2, t2, C)
             /\ MeetsAt(p, c.a, c.b, s2, t2, S[1], C[1], Fourth(s1, s3, B[1], k))
PROOF
<1> DEFINE N == NegatePoint(c, S)
           a == c.a
           b == c.b
           xA == A[1]
           xB == B[1]
           xC == C[1]
           yC == C[2]
           xS == S[1]
           yS == S[2]
           xT == M[1]
           n == N[2]
           s2 == 0 - s1 - k
           t2 == k * xS - t1
<1>1. /\ A \in Pairs(c) /\ B \in Pairs(c) /\ C \in Pairs(c) /\ S \in Pairs(c) /\ M \in Pairs(c)
      /\ Triple(c, s1, t1, A, B, N) /\ Triple(c, s3, t3, B, C, M)
  BY DEF Crossing
<1>2. N \in Pairs(c) /\ N[1] = xS /\ Vanishes(p, n + yS)
  BY <1>1, NegativeIs
<1> HIDE DEF N
<1>3. /\ p \in Int /\ c.m = p /\ a \in Int /\ b \in Int
      /\ s1 \in Int /\ t1 \in Int /\ s3 \in Int /\ t3 \in Int
      /\ xA \in Int /\ xB \in Int /\ xC \in Int /\ yC \in Int /\ xS \in Int /\ yS \in Int
      /\ xT \in Int /\ n \in Int
  BY <1>1, <1>2, CurveNumbers DEF Triple
<1>4. /\ MeetsAt(p, a, b, s1, t1, xA, xB, xS) /\ MeetsAt(p, a, b, s3, t3, xB, xC, xT)
      /\ Vanishes(p, n - (s1 * xS + t1)) /\ Vanishes(p, yC - (s3 * xC + t3))
  BY <1>1, <1>2, <1>3 DEF Triple, OnLine
<1>5. Vanishes(p, (s1 - s3) * xB + (t1 - t3))
  BY <1>1, <1>3, LinesCross DEF Triple
<1> HIDE DEF xA, xB, xC, yC, xS, yS, xT, n, a, b
<1>6. Between(p, s1, s3, xA, xC, k)
  BY DEF xA, xC
<1>7. Vanishes(p, (s1 * xC + t1) + k * (xC - xS) + (s3 * xC + t3))
  BY <1>3, <1>4, <1>5, <1>6, FarOnThird
<1>8. MeetsAt(p, a, b, s2, t2, xS, xC, Fourth(s1, s3, xB, k))
  BY <1>3, <1>4, <1>5, <1>6, <1>7, ThirdMeets
<1>9. s2 \in Int /\ t2 \in Int /\ 1 \in Int /\ -1 \in Int
  BY <1>3
<1>10. Vanishes(p, yS - (s2 * xS + t2))
  <2> DEFINE f == n + yS
             h == n - (s1 * xS + t1)
  <2>1. f \in Int /\ h \in Int /\ Vanishes(p, f) /\ Vanishes(p, h)
    BY <1>2, <1>3, <1>4
  <2>2. yS - (s2 * xS + t2) = 1 * f + (-1) * h
    BY <1>3
  <2> HIDE DEF f, h, s2, t2
  <2>3. Vanishes(p, 1 * f + (-1) * h)
    BY <1>3, <1>9, <2>1, ZeroCombined
  <2> QED
    BY <2>2, <2>3
<1>11. Vanishes(p, yC - (s2 * xC + t2))
  <2> DEFINE f == (s1 * xC + t1) + k * (xC - xS) + (s3 * xC + t3)
             h == yC - (s3 * xC + t3)
  <2>1. f \in Int /\ h \in Int /\ Vanishes(p, f) /\ Vanishes(p, h)
    BY <1>3, <1>4, <1>7
  <2>2. yC - (s2 * xC + t2) = 1 * f + 1 * h
    BY <1>3
  <2> HIDE DEF f, h, s2, t2
  <2>3. Vanishes(p, 1 * f + 1 * h)
    BY <1>3, <1>9, <2>1, ZeroCombined
  <2> QED
    BY <2>2, <2>3
<1> HIDE DEF s2, t2
<1>12. OnLine(c, s2, t2, S) /\ OnLine(c, s2, t2, C)
  BY <1>3, <1>10, <1>11 DEF OnLine, xS, yS, xC, yC
<1> QED
  BY <1>8, <1>9, <1>12 DEF s2, t2, xS, xC, xB, a, b

\* The line through S and C and the line through T and A meet at a point.
LEMMA FourthPoint ==
  ASSUME NEW p, IsPrime(p), NEW c \in Config(p), NEW A, NEW B, NEW C, NEW S,
         NEW T \in Pairs(c), NEW s1, NEW t1, NEW s3, NEW t3,
         Crossing(c, s1, t1, s3, t3, A, B, C, S, NegatePoint(c, T)), ~Vanishes(p, s1 - s3)
  PROVE  \E N \in Pairs(c) : \E s2, t2, s4, t4 :
           Triple(c, s2, t2, S, C, N) /\ Triple(c, s4, t4, T, A, N)
PROOF
<1> DEFINE xA == A[1]
           xB == B[1]
           xC == C[1]
           xS == S[1]
           xT == T[1]
           a == c.a
           b == c.b
<1>1. /\ A \in Pairs(c) /\ B \in Pairs(c) /\ C \in Pairs(c) /\ S \in Pairs(c)
      /\ Triple(c, s1, t1, A, B, NegatePoint(c, S)) /\ Triple(c, s3, t3, B, C, NegatePoint(c, T))
  BY DEF Crossing
<1>2. /\ NegatePoint(c, S) \in Pairs(c) /\ NegatePoint(c, S)[1] = xS
      /\ NegatePoint(c, T) \in Pairs(c) /\ NegatePoint(c, T)[1] = xT
  BY <1>1, NegativeIs
<1>3. /\ p \in Nat \ {0} /\ p \in Int /\ c.m = p /\ a \in Int /\ b \in Int
      /\ s1 \in Int /\ t1 \in Int /\ s3 \in Int /\ t3 \in Int
      /\ xA \in Int /\ xB \in Int /\ xC \in Int /\ xS \in Int /\ xT \in Int
  BY <1>1, CurveNumbers DEF Triple
<1>4. /\ Vanishes(p, s1 * s1 - (xA + xB + xS)) /\ Vanishes(p, s3 * s3 - (xB + xC + xT))
  <2>1. MeetsAt(p, a, b, s1, t1, xA, xB, xS) /\ MeetsAt(p, a, b, s3, t3, xB, xC, xT)
    BY <1>1, <1>2, <1>3 DEF Triple
  <2> QED
    BY <2>1 DEF MeetsAt
<1>5. Vanishes(p, (s1 - s3) * xB + (t1 - t3))
  BY <1>1, <1>3, LinesCross DEF Triple
<1>6. \E k \in Int : Vanishes(p, k * (s1 - s3) - (xC - xA))
  <2> DEFINE d == s1 - s3
  <2>1. d \in Int /\ ~Vanishes(p, d)
    BY <1>3
  <2> HIDE DEF d
  <2>2. PICK i \in 1 .. p - 1 : Vanishes(p, d * i - 1)
    BY <2>1, InverseExists
  <2> DEFINE k == (xC - xA) * i
             e == d * i - 1
  <2> HIDE DEF xA, xB, xC, xS, xT
  <2>3. k \in Int /\ e \in Int /\ xC - xA \in Int /\ i \in Int
    BY <1>3, <2>1
  <2>4. k * d - (xC - xA) = (xC - xA) * e
    BY <1>3, <2>1, <2>3
  <2> HIDE DEF k, e
  <2>5. Vanishes(p, (xC - xA) * e)
    BY <1>3, <2>2, <2>3, ZeroMultiple DEF e
  <2>6. Vanishes(p, k * d - (xC - xA))
    BY <2>4, <2>5
  <2> QED
    BY <2>3, <2>6 DEF d
<1> HIDE DEF xA, xB, xC, xS, xT, a, b
<1>7. PICK k \in Int : Vanishes(p, k * (s1 - s3) - (xC - xA))
  BY <1>6
<1> DEFINE d == s1 - s3
           e1 == s1 * s1 - (xA + xB + xS)
           f1 == s3 * s3 - (xB + xC + xT)
           h == (s1 - s3) * xB + (t1 - t3)
           r == k * (s1 - s3) - (xC - xA)
           q == k * (s3 - s1) - (xA - xC)
           s2 == 0 - s1 - k
           t2 == k * xS - t1
           s4 == 0 - s3 - k
           t4 == k * xT - t3
           xD == Fourth(s1, s3, xB, k)
           x == xD % p
           y == (s2 * xD + t2) % p
           N == <<x, y>>
<1>8. /\ e1 \in Int /\ f1 \in Int /\ h \in Int /\ r \in Int /\ 1 \in Int /\ -1 \in Int /\ 0 - k \in Int
      /\ s2 \in Int /\ t2 \in Int /\ s4 \in Int /\ t4 \in Int /\ xD \in Int
      /\ s2 * xD + t2 \in Int
  BY <1>3 DEF Fourth
<1>9. Vanishes(p, e1) /\ Vanishes(p, f1) /\ Vanishes(p, h) /\ Vanishes(p, r)
  BY <1>4, <1>5, <1>7
<1>10. Vanishes(p, q) /\ ~Vanishes(p, s3 - s1)
  <2>1. q = (-1) * r /\ s1 - s3 = (-1) * (s3 - s1) /\ s3 - s1 \in Int
    BY <1>3
  <2> HIDE DEF q, r
  <2>2. Vanishes(p, (-1) * r)
    BY <1>3, <1>8, <1>9, ZeroMultiple
  <2>3. Vanishes(p, s3 - s1) => Vanishes(p, (-1) * (s3 - s1))
    BY <1>3, <1>8, <2>1, ZeroMultiple
  <2> QED
    BY <2>1, <2>2, <2>3
<1>11. /\ OnLine(c, s2, t2, S) /\ OnLine(c, s2, t2, C)
       /\ MeetsAt(p, a, b, s2, t2, xS, xC, xD)
  <2>1. Between(p, s1, s3, A[1], C[1], k)
    BY <1>7 DEF Between, xA, xC
  <2> QED
    BY <1>2, <2>1, ThirdLine DEF xS, xC, xB, a, b
<1>12. /\ OnLine(c, s4, t4, T) /\ OnLine(c, s4, t4, A)
       /\ MeetsAt(p, a, b, s4, t4, xT, xA, xD)
  <2>1. Crossing(c, s3, t3, s1, t1, C, B, A, T, NegatePoint(c, S))
    <3>1. Triple(c, s3, t3, C, B, NegatePoint(c, T)) /\ Triple(c, s1, t1, B, A, NegatePoint(c, S))
      BY <1>1, <1>2, TripleTurns
    <3> QED
      BY <1>1, <1>2, <3>1 DEF Crossing
  <2>2. Between(p, s3, s1, C[1], A[1], k)
    BY <1>10 DEF Between, xA, xC
  <2>3. Fourth(s3, s1, B[1], k) = xD
    BY <1>3 DEF Fourth, xB
  <2>4. MeetsAt(p, a, b, s4, t4, xT, xA, Fourth(s3, s1, B[1], k))
    BY <1>10, <2>1, <2>2, ThirdLine DEF xT, xA, a, b
  <2>5. OnLine(c, s4, t4, T) /\ OnLine(c, s4, t4, A)
    BY <1>10, <2>1, <2>2, ThirdLine DEF xT, xA, a, b
  <2> HIDE DEF xD
  <2> QED
    BY <2>3, <2>4, <2>5
<1>13. s2 * xD + t2 = s4 * xD + t4 + ((-1) * h + (0 - k) * e1 + k * f1 + (0 - k) * r)
  BY <1>3 DEF Fourth
<1> HIDE DEF d, e1, f1, h, r, q, s2, t2, s4, t4, xD
<1>14. x \in 0 .. p - 1 /\ y \in 0 .. p - 1 /\ Vanishes(p, x - xD)
       /\ Vanishes(p, y - (s2 * xD + t2))
  <2>1. x \in 0 .. p - 1 /\ Vanishes(p, x - xD)
    BY <1>3, <1>8, ZeroRemainder
  <2> DEFINE e == s2 * xD + t2
  <2>2. e \in Int
    BY <1>8
  <2> HIDE DEF e
  <2>3. e % p \in 0 .. p - 1 /\ Vanishes(p, (e % p) - e)
    BY <1>3, <2>2, ZeroRemainder
  <2> QED
    BY <2>1, <2>3 DEF e
<1>15. N \in Pairs(c) /\ N[1] = x /\ N[2] = y
  BY <1>3, <1>14 DEF Pairs
<1> HIDE DEF x, y, N
<1>16. x \in Int /\ y \in Int
  BY <1>14
<1>17. MeetsAt(p, a, b, s2, t2, xS, xC, x) /\ MeetsAt(p, a, b, s4, t4, xT, xA, x)
  BY <1>3, <1>8, <1>11, <1>12, <1>14, <1>16, MeetsLike
<1>18. OnLine(c, s2, t2, N)
  <2> DEFINE u == x - xD
             v == y - (s2 * xD + t2)
  <2>1. u \in Int /\ v \in Int /\ 0 - s2 \in Int /\ y - (s2 * x + t2) = 1 * v + (0 - s2) * u
    BY <1>8, <1>16
  <2> HIDE DEF u, v
  <2>2. Vanishes(p, 1 * v + (0 - s2) * u)
    BY <1>3, <1>8, <1>14, <2>1, ZeroCombined DEF u, v
  <2>3. Vanishes(p, y - (s2 * x + t2))
    BY <2>1, <2>2
  <2> QED
    BY <1>3, <1>15, <2>3 DEF OnLine
<1>19. OnLine(c, s4, t4, N)
  <2> DEFINE u == x - xD
             v == y - (s2 * xD + t2)
             w == (-1) * h + (0 - k) * e1 + k * f1 + (0 - k) * r
  <2>1. u \in Int /\ v \in Int /\ w \in Int /\ 0 - s4 \in Int
    BY <1>8, <1>16
  <2>2. Vanishes(p, w)
    BY <1>3, <1>8, <1>9, ZeroCombined4
  <2>3. s2 * xD + t2 = s4 * xD + t4 + w
    BY <1>13
  <2> HIDE DEF w
  <2>4. y - (s4 * x + t4) = 1 * v + 1 * w + (0 - s4) * u
    BY <1>8, <1>16, <2>1, <2>3
  <2> HIDE DEF u, v
  <2>5. Vanishes(p, 1 * v + 1 * w + (0 - s4) * u)
    BY <1>3, <1>8, <1>14, <2>1, <2>2, ZeroCombined3 DEF u, v
  <2>6. Vanishes(p, y - (s4 * x + t4))
    BY <2>4, <2>5
  <2> QED
    BY <1>3, <1>15, <2>6 DEF OnLine
<1>20. Triple(c, s2, t2, S, C, N) /\ Triple(c, s4, t4, T, A, N)
  BY <1>3, <1>8, <1>11, <1>12, <1>15, <1>17, <1>18, <1>19 DEF Triple, xS, xC, xT, xA, a, b
<1> QED
  BY <1>15, <1>20

\* Where the two lines are the same, points of one x are the same.
LEMMA SameLine ==
  ASSUME NEW p, IsPrime(p), NEW c \in Config(p), NEW s1 \in Int, NEW t1 \in Int,
         NEW s3 \in Int, NEW t3 \in Int, NEW x \in Int,
         Vanishes(p, (s1 - s3) * x + (t1 - t3)), Vanishes(p, s1 - s3),
         NEW P \in Pairs(c), NEW Q \in Pairs(c), OnLine(c, s1, t1, P), OnLine(c, s3, t3, Q),
         Vanishes(p, Q[1] - P[1])
  PROVE  Q = P
PROOF
<1> DEFINE x1 == P[1]
           y1 == P[2]
           x2 == Q[1]
           y2 == Q[2]
           l1 == y1 - (s1 * x1 + t1)
           l2 == y2 - (s3 * x2 + t3)
           d == s1 - s3
           e == x2 - x1
           h == (s1 - s3) * x + (t1 - t3)
<1>1. /\ p \in Nat \ {0} /\ p \in Int /\ c.m = p
      /\ x1 \in Int /\ y1 \in Int /\ x2 \in Int /\ y2 \in Int
      /\ x1 \in 0 .. p - 1 /\ x2 \in 0 .. p - 1
  BY CurveNumbers
<1>2. /\ Vanishes(p, l1) /\ Vanishes(p, l2) /\ Vanishes(p, d) /\ Vanishes(p, e) /\ Vanishes(p, h)
  BY <1>1 DEF OnLine
<1>3. x2 = x1
  BY <1>1, <1>2, ZeroEqual
<1> HIDE DEF x1, y1, x2, y2
<1>4. /\ l1 \in Int /\ l2 \in Int /\ d \in Int /\ h \in Int /\ 1 \in Int /\ -1 \in Int
      /\ x - x1 \in Int
  BY <1>1
<1>5. y2 - y1 = 1 * l2 + (-1) * l1 + (-1) * h + (x - x1) * d
  BY <1>1, <1>3
<1> HIDE DEF l1, l2, d, h
<1>6. Vanishes(p, 1 * l2 + (-1) * l1 + (-1) * h + (x - x1) * d)
  BY <1>1, <1>2, <1>4, ZeroCombined4
<1>7. Vanishes(p, y2 - y1)
  BY <1>5, <1>6
<1> QED
  BY <1>2, <1>7, SamePoint DEF x1, y1, x2, y2

\* The two lines through B are the same.
LEMMA OneLine ==
  ASSUME NEW p, IsPrime(p), NEW c \in Config(p), NEW A, NEW B, NEW C, NEW S, NEW M,
         NEW s1, NEW t1, NEW s3, NEW t3,
         Crossing(c, s1, t1, s3, t3, A, B, C, S, M), Vanishes(p, s1 - s3)
  PROVE  C = A \/ C = NegatePoint(c, S)
PROOF
<1> DEFINE N == NegatePoint(c, S)
           xA == A[1]
           xB == B[1]
           xC == C[1]
           xS == S[1]
           xT == M[1]
<1>1. /\ A \in Pairs(c) /\ B \in Pairs(c) /\ C \in Pairs(c) /\ S \in Pairs(c) /\ M \in Pairs(c)
      /\ Triple(c, s1, t1, A, B, N) /\ Triple(c, s3, t3, B, C, M)
  BY DEF Crossing
<1>2. N \in Pairs(c) /\ N[1] = xS
  BY <1>1, NegativeIs
<1> HIDE DEF N
<1>3. /\ p \in Int /\ c.m = p /\ c.a \in Int /\ c.b \in Int
      /\ s1 \in Int /\ t1 \in Int /\ s3 \in Int /\ t3 \in Int
      /\ xA \in Int /\ xB \in Int /\ xC \in Int /\ xS \in Int /\ xT \in Int
  BY <1>1, <1>2, CurveNumbers DEF Triple
<1>4. /\ MeetsAt(p, c.a, c.b, s1, t1, xA, xB, xS) /\ MeetsAt(p, c.a, c.b, s3, t3, xB, xC, xT)
      /\ OnLine(c, s1, t1, A) /\ OnLine(c, s1, t1, N) /\ OnLine(c, s3, t3, C)
  BY <1>1, <1>2, <1>3 DEF Triple
<1>5. Vanishes(p, (s1 - s3) * xB + (t1 - t3))
  BY <1>1, <1>3, LinesCross DEF Triple
<1> HIDE DEF xA, xB, xC, xS, xT
<1> DEFINE d == s1 - s3
           i == (s3 + s1) * xC + (t3 + t1)
           f == (xC - xA) * (xC - xS)
           e == d * i + f
<1>6. /\ d \in Int /\ i \in Int /\ f \in Int /\ e \in Int /\ 1 \in Int /\ 0 - i \in Int
      /\ xC - xA \in Int /\ xC - xS \in Int
  BY <1>3
<1>7. Vanishes(p, e) /\ Vanishes(p, d)
  BY <1>3, <1>4, <1>5, TwoLines
<1> HIDE DEF d, i, f
<1>8. f = 1 * e + (0 - i) * d
  BY <1>6
<1> HIDE DEF e
<1>9. Vanishes(p, f)
  BY <1>3, <1>6, <1>7, <1>8, ZeroCombined
<1>10. Vanishes(p, xC - xA) \/ Vanishes(p, xC - xS)
  BY <1>6, <1>9, ZeroFactor DEF f
<1>11. CASE Vanishes(p, xC - xA)
  <2>1. C = A
    BY <1>1, <1>3, <1>4, <1>5, <1>11, SameLine DEF xC, xA
  <2> QED
    BY <2>1
<1>12. CASE Vanishes(p, xC - xS)
  <2>1. Vanishes(p, C[1] - N[1])
    BY <1>2, <1>12 DEF xC
  <2>2. C = N
    BY <1>1, <1>2, <1>3, <1>4, <1>5, <2>1, SameLine
  <2> QED
    BY <2>2 DEF N
<1> QED
  BY <1>10, <1>11, <1>12

\* Three points, none of whose sums is none.
LEMMA FiniteAssociates ==
  ASSUME NEW p, IsPrime(p), NEW c \in Config(p),
         NEW A \in Pairs(c), NEW B \in Pairs(c), NEW C \in Pairs(c),
         On(c, A), On(c, B), On(c, C), NEW S, NEW T,
         S = AddPoints(c, A, B), T = AddPoints(c, B, C), S # None, T # None,
         AddPoints(c, S, C) # None, AddPoints(c, A, T) # None
  PROVE  AddPoints(c, S, C) = AddPoints(c, A, T)
PROOF
<1>1. /\ S \in Pairs(c) /\ \E s, t : Triple(c, s, t, A, B, NegatePoint(c, S))
      /\ T \in Pairs(c) /\ \E s, t : Triple(c, s, t, B, C, NegatePoint(c, T))
  BY SumTriple
<1>2. PICK s1, t1 : Triple(c, s1, t1, A, B, NegatePoint(c, S))
  BY <1>1
<1>3. PICK s3, t3 : Triple(c, s3, t3, B, C, NegatePoint(c, T))
  BY <1>1
<1>4. NegatePoint(c, S) \in Pairs(c) /\ NegatePoint(c, T) \in Pairs(c)
  BY <1>1, NegativeIs
<1>5. On(c, S) /\ On(c, T)
  <2>1. On(c, NegatePoint(c, S)) /\ On(c, NegatePoint(c, T))
    BY <1>2, <1>3, <1>4, TripleOn
  <2> QED
    BY <1>1, <1>4, <2>1, NegativeOn, NegatedTwice
<1>6. Crossing(c, s1, t1, s3, t3, A, B, C, S, NegatePoint(c, T))
  BY <1>1, <1>2, <1>3, <1>4 DEF Crossing
<1>7. CASE Vanishes(p, s1 - s3)
  <2>1. C = A \/ C = NegatePoint(c, S)
    BY <1>6, <1>7, OneLine
  <2>2. C # NegatePoint(c, S)
    BY <1>1, <1>5, SumIsNone
  <2>3. C = A
    BY <2>1, <2>2
  <2>4. T = S
    BY <2>3, SumCommutes
  <2> QED
    BY <1>1, <1>5, <2>3, <2>4, SumCommutes
<1>8. CASE ~Vanishes(p, s1 - s3)
  <2>1. PICK N \in Pairs(c) : \E s2, t2, s4, t4 :
          Triple(c, s2, t2, S, C, N) /\ Triple(c, s4, t4, T, A, N)
    BY <1>1, <1>6, <1>8, FourthPoint
  <2>2. PICK s2, t2, s4, t4 : Triple(c, s2, t2, S, C, N) /\ Triple(c, s4, t4, T, A, N)
    BY <2>1
  <2>3. AddPoints(c, T, A) = AddPoints(c, A, T)
    BY <1>1, <1>5, SumCommutes
  <2>4. AddPoints(c, S, C) = NegatePoint(c, N)
    BY <1>1, <2>2, TripleSum
  <2>5. AddPoints(c, T, A) = NegatePoint(c, N)
    BY <1>1, <2>2, <2>3, TripleSum
  <2> QED
    BY <2>3, <2>4, <2>5
<1> QED
  BY <1>7, <1>8

-----------------------------------------------------------------------------
(* The group, with none for the infinite point.                            *)

Elements(c) == {P \in Pairs(c) : On(c, P)} \cup {None}

Add(c, P, Q) == CASE P = None -> Q
                  [] Q = None -> P
                  [] OTHER    -> AddPoints(c, P, Q)

LEMMA AddIs ==
  ASSUME NEW c, NEW P, NEW Q
  PROVE  /\ P = None => Add(c, P, Q) = Q
         /\ Q = None => Add(c, P, Q) = P
         /\ P # None /\ Q # None => Add(c, P, Q) = AddPoints(c, P, Q)
  BY DEF Add

LEMMA ElementsAre ==
  ASSUME NEW p, IsPrime(p), NEW c \in Config(p), NEW P
  PROVE  /\ P \in Elements(c) /\ P # None <=> P \in Pairs(c) /\ On(c, P)
         /\ None \in Elements(c)
  BY CurveNumbers DEF Elements

\* Sums are elements, and the order of the summands makes no difference.
LEMMA AddTypes ==
  ASSUME NEW p, IsPrime(p), NEW c \in Config(p), NEW P \in Elements(c), NEW Q \in Elements(c)
  PROVE  Add(c, P, Q) \in Elements(c) /\ Add(c, P, Q) = Add(c, Q, P)
PROOF
<1>1. CASE P = None \/ Q = None
  BY <1>1, AddIs
<1>2. CASE P # None /\ Q # None
  <2>1. P \in Pairs(c) /\ On(c, P) /\ Q \in Pairs(c) /\ On(c, Q)
    BY <1>2, ElementsAre
  <2> DEFINE R == AddPoints(c, P, Q)
  <2>2. Add(c, P, Q) = R /\ Add(c, Q, P) = R
    BY <1>2, <2>1, AddIs, SumCommutes
  <2>3. ASSUME R # None PROVE R \in Pairs(c) /\ On(c, R)
    <3>1. \E s \in Int : Collinear(c, P, Q, s, R)
      BY <2>1, <2>3, SumCollinear
    <3> QED
      BY <2>1, <3>1, SumOnCurve
  <2> HIDE DEF R
  <2>4. R \in Elements(c)
    BY <2>3, ElementsAre
  <2> QED
    BY <2>2, <2>4
<1> QED
  BY <1>1, <1>2

\* The same, where a sum on the way may be none.
LEMMA PointsAssociate ==
  ASSUME NEW p, IsPrime(p), p # 2, NEW c \in RandomGenerate(p),
         NEW A \in Pairs(c), NEW B \in Pairs(c), NEW C \in Pairs(c),
         On(c, A), On(c, B), On(c, C)
  PROVE  Add(c, Add(c, A, B), C) = Add(c, A, Add(c, B, C))
PROOF
<1>1. c \in Config(p) /\ A # None /\ B # None /\ C # None
  BY CurveNumbers DEF RandomGenerate
<1> DEFINE S == AddPoints(c, A, B)
           T == AddPoints(c, B, C)
           A1 == NegatePoint(c, A)
           B1 == NegatePoint(c, B)
<1>2. Add(c, A, B) = S /\ Add(c, B, C) = T
  BY <1>1, AddIs
<1>3. /\ A1 \in Pairs(c) /\ B1 \in Pairs(c) /\ On(c, A1) /\ On(c, B1)
      /\ NegatePoint(c, A1) = A /\ NegatePoint(c, B1) = B
  BY <1>1, NegativeIs, NegativeOn, NegatedTwice
<1>4. (S = None <=> B = A1) /\ (T = None <=> C = B1)
  BY <1>1, SumIsNone
<1>5. CASE B = A1
  <2>1. Add(c, S, C) = C
    BY <1>4, <1>5, AddIs
  <2>2. CASE C = A
    <3>1. T = None
      BY <1>3, <1>4, <1>5, <2>2
    <3> QED
      BY <1>2, <2>1, <2>2, <3>1, AddIs
  <2>3. CASE C # A
    <3> DEFINE X == AddPoints(c, C, A1)
    <3>1. A1 # NegatePoint(c, C)
      BY <1>1, <1>3, <2>3, NegatedTwice
    <3>2. X \in Pairs(c) /\ On(c, X) /\ AddPoints(c, X, A) = C
      BY <1>3, <3>1, SumCancels
    <3>3. T = X
      BY <1>1, <1>3, <1>5, SumCommutes
    <3>4. X # None
      BY <1>1, <3>2, CurveNumbers
    <3> HIDE DEF X, S, T
    <3>5. Add(c, A, T) = AddPoints(c, A, X)
      BY <1>1, <3>3, <3>4, AddIs
    <3>6. AddPoints(c, A, X) = C
      BY <1>1, <3>2, SumCommutes
    <3> QED
      BY <1>2, <2>1, <3>5, <3>6
  <2> QED
    BY <2>2, <2>3
<1>6. CASE B # A1 /\ C = B1
  <2>1. S \in Pairs(c) /\ AddPoints(c, S, B1) = A
    BY <1>6, SumCancels
  <2>2. S # None /\ T = None
    BY <1>4, <1>6
  <2> HIDE DEF S, T
  <2>3. Add(c, S, C) = A /\ Add(c, A, T) = A
    BY <1>1, <1>6, <2>1, <2>2, AddIs
  <2> QED
    BY <1>2, <2>3
<1>7. CASE B # A1 /\ C # B1
  <2>1. S # None /\ T # None
    BY <1>4, <1>7
  <2>2. S \in Pairs(c) /\ On(c, S)
    BY <1>7, SumCancels
  <2>3. T \in Pairs(c) /\ On(c, T) /\ AddPoints(c, C, B) = T /\ AddPoints(c, T, B1) = C
    <3>1. B # NegatePoint(c, C)
      BY <1>1, <1>7, NegatedTwice
    <3>2. AddPoints(c, C, B) = T
      BY <1>1, SumCommutes
    <3> QED
      BY <3>1, <3>2, SumCancels
  <2>4. Add(c, S, C) = AddPoints(c, S, C) /\ Add(c, A, T) = AddPoints(c, A, T)
    BY <1>1, <2>1, AddIs
  <2>5. AddPoints(c, S, C) = None <=> C = NegatePoint(c, S)
    BY <1>1, <2>2, SumIsNone
  <2>6. AddPoints(c, A, T) = None <=> T = A1
    BY <1>1, <2>3, SumIsNone
  <2>7. AddPoints(c, A1, B1) = NegatePoint(c, S)
    BY <1>1, <1>7, SumNegated
  <2>8. ASSUME C = NegatePoint(c, S) PROVE T = A1
    <3>1. B1 # NegatePoint(c, A1)
      BY <1>3, <1>7
    <3>2. AddPoints(c, C, B) = A1
      BY <1>3, <2>7, <2>8, <3>1, SumCancels
    <3> QED
      BY <2>3, <3>2
  <2>9. ASSUME T = A1 PROVE C = NegatePoint(c, S)
    BY <2>3, <2>7, <2>9
  <2>10. ASSUME C # NegatePoint(c, S) PROVE AddPoints(c, S, C) = AddPoints(c, A, T)
    <3>1. AddPoints(c, S, C) # None /\ AddPoints(c, A, T) # None
      BY <2>5, <2>6, <2>9, <2>10
    <3> HIDE DEF S, T, A1
    <3>2. S = AddPoints(c, A, B) /\ T = AddPoints(c, B, C)
      BY DEF S, T
    <3> QED
      BY <1>1, <2>1, <3>1, <3>2, FiniteAssociates
  <2> QED
    BY <1>2, <2>4, <2>5, <2>6, <2>8, <2>10
<1> QED
  BY <1>5, <1>6, <1>7

\* The order of two additions makes no difference.
LEMMA AddAssociates ==
  ASSUME NEW p, IsPrime(p), p # 2, NEW c \in RandomGenerate(p), NEW A \in Elements(c),
         NEW B \in Elements(c), NEW C \in Elements(c)
  PROVE  Add(c, Add(c, A, B), C) = Add(c, A, Add(c, B, C))
PROOF
<1>1. c \in Config(p)
  BY DEF RandomGenerate
<1>2. CASE A = None \/ B = None \/ C = None
  BY <1>2, AddIs
<1>3. CASE A # None /\ B # None /\ C # None
  BY <1>1, <1>3, ElementsAre, PointsAssociate
<1> QED
  BY <1>2, <1>3

-----------------------------------------------------------------------------
(* The group of the curve that is drawn.                                   *)

\* The curve of a test is one that RandomGenerate lets pass.
CurveDrawn == phase # "generate" => group \in RandomGenerate(m)

LEMMA CurveDrawnNext == CurveDrawn /\ [Next]_vars => CurveDrawn'
PROOF
<1> SUFFICES ASSUME CurveDrawn, [Next]_vars PROVE CurveDrawn'
  OBVIOUS
<1>1. ASSUME phase' = "generate" PROVE CurveDrawn'
  BY <1>1 DEF CurveDrawn
<1>2. ASSUME phase # "generate", m' = m, group' = group PROVE CurveDrawn'
  BY <1>2 DEF CurveDrawn, RandomGenerate
<1>3. CASE Generate
  <2>1. m' = m /\ group' \in RandomGenerate(m)
    BY <1>3 DEF Generate
  <2> QED
    BY <2>1 DEF CurveDrawn
<1>4. CASE Iterate
  BY <1>2, <1>4 DEF Iterate
<1>5. CASE UnableToPick
  BY <1>1, <1>5 DEF UnableToPick, Count
<1>6. CASE TooLow
  BY <1>1, <1>6 DEF TooLow
<1>7. CASE Pick
  BY <1>2, <1>7 DEF Pick
<1>8. CASE Exchange
  <2>1. phase' = "generate" \/ group' = group
    BY <1>8 DEF Exchange, Count
  <2> QED
    BY <1>1, <1>2, <1>8, <2>1 DEF Exchange
<1>9. CASE SignMessage
  <2>1. phase' = "generate" \/ group' = group
    BY <1>9 DEF SignMessage, Count
  <2> QED
    BY <1>1, <1>2, <1>9, <2>1 DEF SignMessage
<1>10. CASE CheckSignature
  BY <1>1, <1>10 DEF CheckSignature, Count
<1>11. CASE UNCHANGED vars
  <2>1. phase' = phase /\ m' = m /\ group' = group
    BY <1>11 DEF vars, test
  <2> QED
    BY <1>1, <1>2, <2>1
<1> QED
  BY <1>3, <1>4, <1>5, <1>6, <1>7, <1>8, <1>9, <1>10, <1>11 DEF Next

\* It has a prime for its modulus, and its curve is the one of addition.
LEMMA CurveOfTest ==
  ASSUME TypeInv, CurveDrawn, phase # "generate"
  PROVE  /\ IsPrime(m) /\ group \in RandomGenerate(m) /\ group \in Config(m)
         /\ Pairs(group) = Point
         /\ Curve = {P \in Pairs(group) : On(group, P)}
         /\ Curve \cup {None} = Elements(group)
PROOF
<1>1. m \in Nat /\ m > 1 /\ BruteForceIsPrime(m)
  BY ModulusIsPrime DEF TypeInv, DataOK
<1>2. group \in RandomGenerate(m) /\ group \in Config(m) /\ IsPrime(m)
  BY <1>1, TrialProvesPrime DEF CurveDrawn, RandomGenerate
<1>3. Pairs(group) = Point /\ group.m = m
  BY <1>1, <1>2, PairsAre DEF Point
<1>4. ASSUME NEW P \in Point PROVE P \in Curve <=> On(group, P)
  <2>1. OnCurve(group, P[1], P[2]) <=> On(group, P)
    BY <1>1, <1>2, <1>3, OnCurveIs
  <2> QED
    BY <1>3, <2>1 DEF Curve, OnCurve
<1>5. Curve = {P \in Pairs(group) : On(group, P)}
  BY <1>3, <1>4 DEF Curve
<1> QED
  BY <1>2, <1>3, <1>5 DEF Elements

\* Plus is the addition of that group.
LEMMA PlusIsAdd ==
  ASSUME NEW P, NEW Q
  PROVE  Plus(P, Q) = Add(group, P, Q)
  BY DEF Plus, Add

LEMMA GroupFormed ==
  ASSUME TypeInv, CurveDrawn, m # 2
  PROVE  PointsFormAGroup
PROOF
<1> SUFFICES ASSUME Iterated PROVE PointsFormAGroup
  BY DEF PointsFormAGroup
<1> DEFINE All == Elements(group)
<1>1. phase # "generate"
  BY DEF Iterated
<1>2. /\ IsPrime(m) /\ group \in RandomGenerate(m) /\ group \in Config(m)
      /\ Curve = {P \in Pairs(group) : On(group, P)}
      /\ Curve \cup {None} = All
  BY <1>1, CurveOfTest
<1> HIDE DEF All
<1>3. \A P, Q \in All : Plus(P, Q) \in All /\ Plus(P, Q) = Plus(Q, P)
  BY <1>2, PlusIsAdd, AddTypes DEF All
<1>4. \A P, Q, R \in All : Plus(Plus(P, Q), R) = Plus(P, Plus(Q, R))
  BY <1>2, PlusIsAdd, AddAssociates DEF All
<1>5. ASSUME NEW P \in Curve PROVE Plus(P, NegatePoint(group, P)) = None
  <2>1. P \in Pairs(group) /\ On(group, P)
    BY <1>2
  <2>2. NegatePoint(group, P) \in Pairs(group) /\ On(group, NegatePoint(group, P))
    BY <1>2, <2>1, NegativeIs, NegativeOn
  <2>3. AddPoints(group, P, NegatePoint(group, P)) = None
    BY <1>2, <2>1, <2>2, SumIsNone
  <2>4. P # None /\ NegatePoint(group, P) # None
    BY <1>2, <2>1, <2>2, CurveNumbers
  <2> QED
    BY <2>3, <2>4, PlusIsAdd, AddIs
<1> QED
  BY <1>2, <1>3, <1>4, <1>5 DEF PointsFormAGroup

\* For every odd prime and every curve that RandomGenerate lets pass, the
\* addition of points (Lab4/EM.cpp:183), with an empty optional for the infinite
\* point, is that of a commutative group. Its test for a singular curve says
\* nothing modulo 2, and there the addition is not associative.
THEOREM GroupOfPoints == Spec => [](m # 2 => PointsFormAGroup)
PROOF
<1>1. Spec => []IterInv
  <2>1. Init => IterInv
    BY DEF Init, IterInv
  <2> QED
    BY <2>1, IterNext, PTL DEF Spec
<1>2. Spec => []TypeInv
  BY <1>1, TypeInit, TypeNext, PTL DEF Spec
<1>3. Spec => []CurveDrawn
  <2>1. Init => CurveDrawn
    BY DEF Init, CurveDrawn
  <2> QED
    BY <2>1, CurveDrawnNext, PTL DEF Spec
<1>4. TypeInv /\ CurveDrawn => (m # 2 => PointsFormAGroup)
  BY GroupFormed
<1> QED
  BY <1>2, <1>3, <1>4, PTL

-----------------------------------------------------------------------------
(* Multiples of a point.                                                   *)

\* A curve that RandomGenerate lets pass, modulo an odd prime.
OddCurve(p, c) == IsPrime(p) /\ p # 2 /\ c \in RandomGenerate(p)

\* What the lemmas on curves ask for.
LEMMA OddCurveIs ==
  ASSUME NEW p, NEW c, OddCurve(p, c)
  PROVE  /\ IsPrime(p) /\ p # 2 /\ c \in RandomGenerate(p) /\ c \in Config(p)
         /\ p \in Nat /\ p > 1
  BY DEF OddCurve, RandomGenerate, IsPrime

\* f is what adding v to none again and again gives.
IsMultiple(c, v, f) ==
  /\ f \in [Nat -> Elements(c)] /\ f[0] = None
  /\ \A n \in Nat : f[n + 1] = Add(c, f[n], v)

\* The multiples of v, of 0 and on.
Multiple(c, v) == CHOOSE f : IsMultiple(c, v, f)

\* They exist, since sums are elements.
LEMMA MultipleIs ==
  ASSUME NEW p, NEW c, OddCurve(p, c), NEW v \in Elements(c)
  PROVE  IsMultiple(c, v, Multiple(c, v))
PROOF
<1> DEFINE E == Elements(c)
           next == [t \in E |-> Add(c, t, v)]
<1>1. \A t \in E : Add(c, t, v) \in E
  BY OddCurveIs, AddTypes
<1>2. next \in [E -> E] /\ None \in E
  BY <1>1 DEF Elements
<1>3. \A t \in E : next[t] = Add(c, t, v)
  OBVIOUS
<1> HIDE DEF next, E
<1>4. PICK f \in [Nat -> E] : f[0] = None /\ \A n \in Nat : f[n + 1] = next[f[n]]
  BY <1>2, NaturalRecursionExists
<1>5. \A n \in Nat : f[n + 1] = Add(c, f[n], v)
  BY <1>3, <1>4
<1>6. IsMultiple(c, v, f)
  BY <1>4, <1>5 DEF IsMultiple, E
<1> QED
  BY <1>6 DEF Multiple

\* The first of them, and the one after each.
LEMMA MultipleOne ==
  ASSUME NEW p, NEW c, OddCurve(p, c), NEW v \in Elements(c)
  PROVE  /\ Multiple(c, v)[0] = None /\ Multiple(c, v)[1] = v
         /\ \A n \in Nat : /\ Multiple(c, v)[n] \in Elements(c)
                           /\ Multiple(c, v)[n + 1] = Add(c, Multiple(c, v)[n], v)
PROOF
<1>1. IsMultiple(c, v, Multiple(c, v))
  BY MultipleIs
<1> DEFINE f == Multiple(c, v)
<1>2. IsMultiple(c, v, f)
  BY <1>1
<1> HIDE DEF f
<1>3. f[0] = None /\ f[0 + 1] = Add(c, f[0], v) /\ 0 + 1 = 1
  BY <1>2 DEF IsMultiple
<1>4. Add(c, None, v) = v
  BY AddIs
<1>5. \A n \in Nat : f[n] \in Elements(c) /\ f[n + 1] = Add(c, f[n], v)
  BY <1>2 DEF IsMultiple
<1> QED
  BY <1>3, <1>4, <1>5 DEF f

\* The laws of addition, for a curve like that.
LEMMA AddLaws ==
  ASSUME NEW p, NEW c, OddCurve(p, c)
  PROVE  /\ None \in Elements(c)
         /\ \A P \in Elements(c) : Add(c, P, None) = P /\ Add(c, None, P) = P
         /\ \A P, Q \in Elements(c) : Add(c, P, Q) \in Elements(c) /\ Add(c, P, Q) = Add(c, Q, P)
         /\ \A P, Q, R \in Elements(c) : Add(c, Add(c, P, Q), R) = Add(c, P, Add(c, Q, R))
PROOF
<1>1. None \in Elements(c)
  BY DEF Elements
<1>2. \A P, Q \in Elements(c) : Add(c, P, Q) \in Elements(c) /\ Add(c, P, Q) = Add(c, Q, P)
  BY OddCurveIs, AddTypes
<1>3. \A P, Q, R \in Elements(c) : Add(c, Add(c, P, Q), R) = Add(c, P, Add(c, Q, R))
  BY OddCurveIs, AddAssociates
<1> QED
  BY <1>1, <1>2, <1>3, AddIs

\* What was added can be taken off.
LEMMA AddCancels ==
  ASSUME NEW p, NEW c, OddCurve(p, c), NEW P \in Elements(c), NEW Q \in Elements(c),
         NEW R \in Elements(c), Add(c, P, R) = Add(c, Q, R)
  PROVE  P = Q
PROOF
<1>1. PICK N \in Elements(c) : Add(c, R, N) = None
  <2>1. CASE R = None
    BY <2>1, AddLaws
  <2>2. CASE R # None
    <3> DEFINE M == NegatePoint(c, R)
    <3>1. IsPrime(p) /\ c \in Config(p)
      BY OddCurveIs
    <3>2. R \in Pairs(c) /\ On(c, R)
      BY <2>2, <3>1, ElementsAre
    <3>3. M \in Pairs(c) /\ On(c, M)
      BY <3>1, <3>2, NegativeIs, NegativeOn
    <3>4. AddPoints(c, R, M) = None
      BY <3>1, <3>2, <3>3, SumIsNone
    <3>5. M # None /\ M \in Elements(c)
      BY <3>1, <3>3, CurveNumbers DEF Elements
    <3> HIDE DEF M
    <3>6. Add(c, R, M) = None
      BY <2>2, <3>4, <3>5, AddIs
    <3> QED
      BY <3>5, <3>6
  <2> QED
    BY <2>1, <2>2
<1>2. Add(c, Add(c, P, R), N) = P /\ Add(c, Add(c, Q, R), N) = Q
  BY <1>1, AddLaws
<1> QED
  BY <1>2

\* The multiple of a sum is the sum of the multiples.
LEMMA MultipleSum ==
  ASSUME NEW p, NEW c, OddCurve(p, c), NEW v \in Elements(c), NEW a \in Nat
  PROVE  \A b \in Nat : Multiple(c, v)[a + b] = Add(c, Multiple(c, v)[a], Multiple(c, v)[b])
PROOF
<1> DEFINE f == Multiple(c, v)
           S == {b \in Nat : f[a + b] = Add(c, f[a], f[b])}
<1>1. /\ f[0] = None /\ \A n \in Nat : f[n] \in Elements(c) /\ f[n + 1] = Add(c, f[n], v)
  BY MultipleOne
<1> HIDE DEF f
<1>2. 0 \in S
  BY <1>1, AddLaws
<1>3. ASSUME NEW b \in S PROVE b + 1 \in S
  <2>1. a + b \in Nat /\ b + 1 \in Nat /\ a + b + 1 = a + (b + 1)
    OBVIOUS
  <2>2. f[a + (b + 1)] = Add(c, Add(c, f[a], f[b]), v)
    BY <1>1, <2>1
  <2>3. Add(c, Add(c, f[a], f[b]), v) = Add(c, f[a], f[b + 1])
    BY <1>1, AddLaws
  <2> QED
    BY <2>1, <2>2, <2>3
<1>4. S = Nat
  <2> HIDE DEF S
  <2>1. S \in SUBSET Nat
    BY DEF S
  <2> QED
    BY <1>2, <1>3, <2>1, SetInduction
<1> QED
  BY <1>4 DEF f

\* The multiple of a multiple is that of the product.
LEMMA MultipleProduct ==
  ASSUME NEW p, NEW c, OddCurve(p, c), NEW v \in Elements(c), NEW a \in Nat
  PROVE  \A b \in Nat : Multiple(c, Multiple(c, v)[a])[b] = Multiple(c, v)[a * b]
PROOF
<1> DEFINE f == Multiple(c, v)
           w == f[a]
           h == Multiple(c, w)
           S == {b \in Nat : h[b] = f[a * b]}
<1>1. f[0] = None /\ w \in Elements(c)
  BY MultipleOne
<1>2. h[0] = None /\ \A n \in Nat : h[n] \in Elements(c) /\ h[n + 1] = Add(c, h[n], w)
  <2> HIDE DEF w
  <2> QED
    BY <1>1, MultipleOne
<1>3. \A k \in Nat : f[k + a] = Add(c, f[k], w)
  BY MultipleSum
<1> HIDE DEF f, w, h
<1>4. 0 \in S
  BY <1>1, <1>2
<1>5. ASSUME NEW b \in S PROVE b + 1 \in S
  <2>1. a * b \in Nat /\ b + 1 \in Nat /\ a * b + a = a * (b + 1)
    OBVIOUS
  <2>2. f[a * (b + 1)] = Add(c, f[a * b], w)
    BY <1>3, <2>1
  <2>3. h[b + 1] = Add(c, h[b], w)
    BY <1>2
  <2> QED
    BY <2>1, <2>2, <2>3
<1>6. S = Nat
  <2> HIDE DEF S
  <2>1. S \in SUBSET Nat
    BY DEF S
  <2> QED
    BY <1>4, <1>5, <2>1, SetInduction
<1> QED
  BY <1>6 DEF f, w, h

-----------------------------------------------------------------------------
(* The order of a point.                                                   *)

\* The least multiple that is none.
IsOrder(c, v, n) ==
  /\ n \in Nat \ {0} /\ Multiple(c, v)[n] = None
  /\ \A k \in 1 .. n - 1 : Multiple(c, v)[k] # None

\* What the trial division has to let pass.
LEMMA PrimePassesTrial ==
  ASSUME NEW p, IsPrime(p)
  PROVE  BruteForceIsPrime(p)
PROOF
<1> SUFFICES ASSUME NEW d \in 2 .. p, d * d <= p PROVE p % d # 0
  BY DEF BruteForceIsPrime
<1>1. p \in Nat /\ p > 1
  BY DEF IsPrime
<1>2. d # p
  <2>1. p * p > p
    BY <1>1
  <2> QED
    BY <1>1, <2>1
<1>3. d \in 2 .. p - 1
  BY <1>1, <1>2
<1> QED
  BY <1>3 DEF IsPrime

\* There are no more elements than twice the modulus and one.
ElementPlace(p, P) == IF P = None THEN 2 * p ELSE PlaceOf(p, P)

\* Every element has a place of its own below that.
LEMMA ElementPlaces ==
  ASSUME NEW p, IsPrime(p), NEW c \in Config(p), NEW P \in Elements(c), NEW Q \in Elements(c)
  PROVE  /\ ElementPlace(p, P) \in 0 .. 2 * p
         /\ ElementPlace(p, P) = ElementPlace(p, Q) => P = Q
PROOF
<1>1. p \in Nat /\ p > 1 /\ BruteForceIsPrime(p)
  BY PrimePassesTrial DEF IsPrime
<1>2. ASSUME NEW R \in Elements(c), R # None
      PROVE  R \in Pairs(c) /\ On(c, R) /\ PlaceOf(p, R) \in 0 .. 2 * p - 1
  <2>1. R \in Pairs(c) /\ On(c, R)
    BY <1>2, ElementsAre
  <2>2. R[1] \in 0 .. p - 1 /\ R[2] \in 0 .. p - 1
    BY <2>1, CurveNumbers
  <2> QED
    BY <1>1, <2>1, <2>2 DEF PlaceOf
<1>3. CASE P = None /\ Q = None
  BY <1>1, <1>3 DEF ElementPlace
<1>4. CASE P # None /\ Q # None
  <2>1. P \in Pairs(c) /\ On(c, P) /\ PlaceOf(p, P) \in 0 .. 2 * p - 1
    BY <1>2, <1>4
  <2>2. Q \in Pairs(c) /\ On(c, Q)
    BY <1>2, <1>4
  <2>3. PlaceOf(p, P) = PlaceOf(p, Q) => P = Q
    BY <1>1, <2>1, <2>2, PlacesDiffer
  <2> QED
    BY <1>1, <1>4, <2>1, <2>3 DEF ElementPlace
<1>5. CASE P = None /\ Q # None
  <2>1. PlaceOf(p, Q) \in 0 .. 2 * p - 1
    BY <1>2, <1>5
  <2>2. PlaceOf(p, Q) # 2 * p
    BY <1>1, <2>1
  <2> QED
    BY <1>1, <1>5, <2>2 DEF ElementPlace
<1>6. CASE P # None /\ Q = None
  <2>1. PlaceOf(p, P) \in 0 .. 2 * p - 1
    BY <1>2, <1>6
  <2>2. PlaceOf(p, P) # 2 * p /\ PlaceOf(p, P) \in 0 .. 2 * p
    BY <1>1, <2>1
  <2> QED
    BY <1>6, <2>2 DEF ElementPlace
<1> QED
  BY <1>3, <1>4, <1>5, <1>6

\* A multiple that repeats gives one that is none.
LEMMA MultipleRepeats ==
  ASSUME NEW p, NEW c, OddCurve(p, c), NEW v \in Elements(c), NEW a \in Nat, NEW b \in Nat,
         Multiple(c, v)[a + b] = Multiple(c, v)[b]
  PROVE  Multiple(c, v)[a] = None
PROOF
<1> DEFINE f == Multiple(c, v)
<1>1. f[a] \in Elements(c) /\ f[b] \in Elements(c) /\ None \in Elements(c)
  BY MultipleOne, AddLaws
<1>2. f[a + b] = Add(c, f[a], f[b])
  BY MultipleSum
<1>3. Add(c, None, f[b]) = f[b]
  BY <1>1, AddLaws
<1>4. f[a + b] = f[b]
  OBVIOUS
<1> HIDE DEF f
<1>5. f[a] = None
  BY <1>1, <1>2, <1>3, <1>4, AddCancels
<1> QED
  BY <1>5 DEF f

\* Every point has an order.
LEMMA OrderExists ==
  ASSUME NEW p, NEW c, OddCurve(p, c), NEW v \in Elements(c)
  PROVE  \E n \in 1 .. 2 * p + 1 : IsOrder(c, v, n)
PROOF
<1> DEFINE f == Multiple(c, v)
           D == 0 .. 2 * p + 1
           T == 0 .. 2 * p
           place == [k \in D |-> ElementPlace(p, f[k])]
           Z == {k \in D : k # 0 /\ f[k] = None}
<1>1. p \in Nat /\ p > 1 /\ IsPrime(p) /\ c \in Config(p)
  BY OddCurveIs
<1>2. \A k \in D : k \in Nat /\ f[k] \in Elements(c)
  BY MultipleOne
<1>3. place \in [D -> T]
  BY <1>1, <1>2, ElementPlaces
<1>4. IsFiniteSet(D) /\ IsFiniteSet(T) /\ Cardinality(T) < Cardinality(D)
  <2>1. 0 <= 2 * p + 1 /\ 2 * p + 1 \in Int /\ 2 * p + 1 - 0 + 1 = 2 * p + 2
    BY <1>1
  <2>2. 0 <= 2 * p /\ 2 * p \in Int /\ 2 * p - 0 + 1 = 2 * p + 1
    BY <1>1
  <2>3. IsFiniteSet(D) /\ Cardinality(D) = 2 * p + 2
    BY <2>1, FS_Interval
  <2>4. IsFiniteSet(T) /\ Cardinality(T) = 2 * p + 1
    BY <2>2, FS_Interval
  <2> QED
    BY <1>1, <2>3, <2>4
<1>5. PICK i, j \in D : i # j /\ place[i] = place[j]
  <2> HIDE DEF D, T, place
  <2> QED
    BY <1>3, <1>4, Pigeons
<1>6. f[i] = f[j]
  <2>1. ElementPlace(p, f[i]) = ElementPlace(p, f[j])
    BY <1>5
  <2> HIDE DEF f
  <2> QED
    BY <1>1, <1>2, <2>1, ElementPlaces
<1>7. Z # {}
  <2>1. ASSUME NEW k \in D, NEW l \in D, k < l, f[k] = f[l] PROVE l - k \in Z
    <3>1. l - k \in Nat /\ l - k # 0 /\ l - k \in D /\ k \in Nat /\ l - k + k = l
      BY <1>1, <2>1
    <3>2. f[l - k] = None
      BY <2>1, <3>1, MultipleRepeats
    <3> QED
      BY <3>1, <3>2
  <2>2. i < j \/ j < i
    BY <1>1, <1>5
  <2> HIDE DEF Z
  <2> QED
    BY <1>6, <2>1, <2>2
<1>8. PICK n \in Z : \A k \in Z : n <= k
  <2>1. Z \in SUBSET (0 .. 2 * p + 1) /\ 2 * p + 1 \in Nat
    BY <1>1
  <2> HIDE DEF Z
  <2> QED
    BY <1>7, <2>1, Least
<1>9. n \in 1 .. 2 * p + 1 /\ f[n] = None
  BY <1>1
<1>10. ASSUME NEW k \in 1 .. n - 1 PROVE f[k] # None
  <2>1. k \in D /\ k # 0 /\ ~(n <= k)
    BY <1>1, <1>9
  <2> QED
    BY <1>8, <2>1
<1>11. IsOrder(c, v, n)
  BY <1>9, <1>10 DEF IsOrder
<1> QED
  BY <1>9, <1>11

\* The multiples of the multiples of the order are none.
LEMMA MultipleOfOrder ==
  ASSUME NEW p, NEW c, OddCurve(p, c), NEW v \in Elements(c), NEW n \in Nat,
         Multiple(c, v)[n] = None
  PROVE  \A k \in Nat : Multiple(c, v)[n * k] = None
PROOF
<1> DEFINE f == Multiple(c, v)
           S == {k \in Nat : f[n * k] = None}
<1>1. f[0] = None /\ n * 0 = 0 /\ f[n] = None
  BY MultipleOne
<1>2. 0 \in S
  BY <1>1
<1>3. ASSUME NEW k \in S PROVE k + 1 \in S
  <2>1. n * k \in Nat /\ n * k + n = n * (k + 1) /\ k + 1 \in Nat
    OBVIOUS
  <2>2. f[n * k + n] = Add(c, f[n * k], f[n])
    BY <2>1, MultipleSum
  <2> HIDE DEF f
  <2>3. f[n * (k + 1)] = Add(c, None, None)
    BY <1>1, <2>1, <2>2
  <2> QED
    BY <2>1, <2>3, AddLaws
<1>4. S = Nat
  <2> HIDE DEF S
  <2>1. S \in SUBSET Nat
    BY DEF S
  <2> QED
    BY <1>2, <1>3, <2>1, SetInduction
<1> QED
  BY <1>4

\* A multiple is that of the remainder by the order.
LEMMA MultipleRemains ==
  ASSUME NEW p, NEW c, OddCurve(p, c), NEW v \in Elements(c), NEW n, IsOrder(c, v, n),
         NEW a \in Nat
  PROVE  a % n \in 0 .. n - 1 /\ Multiple(c, v)[a] = Multiple(c, v)[a % n]
PROOF
<1> DEFINE f == Multiple(c, v)
           k == a \div n
           r == a % n
<1>1. n \in Nat \ {0} /\ f[n] = None
  BY DEF IsOrder
<1>2. k \in Nat /\ r \in 0 .. n - 1 /\ a = n * k + r
  BY <1>1, Remainders
<1> HIDE DEF k, r
<1>3. n * k \in Nat /\ r \in Nat
  BY <1>1, <1>2
<1>4. f[n * k] = None
  BY <1>1, <1>2, MultipleOfOrder
<1>5. f[n * k + r] = Add(c, f[n * k], f[r])
  BY <1>3, MultipleSum
<1>6. f[r] \in Elements(c)
  BY <1>3, MultipleOne
<1> HIDE DEF f
<1>7. f[a] = f[r]
  BY <1>2, <1>4, <1>5, <1>6, AddLaws
<1> QED
  BY <1>2, <1>7 DEF f, r

\* Which multiples are none, and which are equal.
LEMMA OrderDivides ==
  ASSUME NEW p, NEW c, OddCurve(p, c), NEW v \in Elements(c), NEW n, IsOrder(c, v, n),
         NEW a \in Nat
  PROVE  Multiple(c, v)[a] = None <=> Vanishes(n, a)
PROOF
<1> DEFINE f == Multiple(c, v)
           r == a % n
<1>1. n \in Nat \ {0} /\ \A k \in 1 .. n - 1 : f[k] # None
  BY DEF IsOrder
<1>2. r \in 0 .. n - 1 /\ f[a] = f[r]
  BY MultipleRemains
<1>3. Vanishes(n, r - a)
  <2>1. a \in Int
    OBVIOUS
  <2> QED
    BY <1>1, <2>1, ZeroRemainder
<1>4. f[0] = None
  BY MultipleOne
<1> HIDE DEF f, r
<1>5. f[r] = None <=> r = 0
  <2>1. r = 0 \/ r \in 1 .. n - 1
    BY <1>1, <1>2
  <2> QED
    BY <1>1, <1>4, <2>1
<1>6. Vanishes(n, a) <=> Vanishes(n, r)
  <2>1. n \in Int /\ r \in Int /\ a \in Int /\ r - a \in Int /\ 1 \in Int /\ -1 \in Int
    BY <1>1, <1>2
  <2>2. ASSUME Vanishes(n, a) PROVE Vanishes(n, r)
    <3>1. Vanishes(n, 1 * (r - a) + 1 * a)
      BY <1>3, <2>1, <2>2, ZeroCombined
    <3>2. 1 * (r - a) + 1 * a = r
      BY <2>1
    <3> QED
      BY <3>1, <3>2
  <2>3. ASSUME Vanishes(n, r) PROVE Vanishes(n, a)
    <3>1. Vanishes(n, 1 * r + (-1) * (r - a))
      BY <1>3, <2>1, <2>3, ZeroCombined
    <3>2. 1 * r + (-1) * (r - a) = a
      BY <2>1
    <3> QED
      BY <3>1, <3>2
  <2> QED
    BY <2>2, <2>3
<1>7. Vanishes(n, r) <=> r = 0
  <2>1. ASSUME Vanishes(n, r) PROVE r = 0
    <3>1. r \in Int /\ r < n /\ 0 - r < n
      BY <1>1, <1>2
    <3> QED
      BY <1>1, <2>1, <3>1, ZeroSmall
  <2>2. Vanishes(n, 0)
    <3>1. 0 = n * 0 /\ 0 \in Int
      BY <1>1
    <3> QED
      BY <3>1 DEF Vanishes
  <2> QED
    BY <2>1, <2>2
<1> QED
  BY <1>2, <1>5, <1>6, <1>7 DEF f

\* Numbers that differ by a multiple of the order give the same multiple.
LEMMA MultiplesAlike ==
  ASSUME NEW p, NEW c, OddCurve(p, c), NEW v \in Elements(c), NEW n, IsOrder(c, v, n),
         NEW a \in Nat, NEW b \in Nat, Vanishes(n, a - b)
  PROVE  Multiple(c, v)[a] = Multiple(c, v)[b]
PROOF
<1> DEFINE r == a % n
           s == b % n
<1>1. n \in Nat \ {0}
  BY DEF IsOrder
<1>2. r \in 0 .. n - 1 /\ s \in 0 .. n - 1 /\ Vanishes(n, r - a) /\ Vanishes(n, s - b)
  <2>1. a \in Int /\ b \in Int
    OBVIOUS
  <2> QED
    BY <1>1, <2>1, ZeroRemainder
<1>3. Multiple(c, v)[a] = Multiple(c, v)[r] /\ Multiple(c, v)[b] = Multiple(c, v)[s]
  BY MultipleRemains
<1> HIDE DEF r, s
<1>4. /\ n \in Int /\ r - a \in Int /\ s - b \in Int /\ a - b \in Int /\ r \in Int /\ s \in Int
      /\ 1 \in Int /\ -1 \in Int
  BY <1>1, <1>2
<1>5. Vanishes(n, 1 * (r - a) + (-1) * (s - b) + 1 * (a - b))
  BY <1>2, <1>4, ZeroCombined3
<1>6. 1 * (r - a) + (-1) * (s - b) + 1 * (a - b) = r - s
  BY <1>4
<1>7. r = s
  <2>1. Vanishes(n, r - s)
    BY <1>5, <1>6
  <2> QED
    BY <1>1, <1>2, <2>1, ZeroEqual
<1> QED
  BY <1>3, <1>7

-----------------------------------------------------------------------------
(* What CountOrder has to do with the order.                               *)

\* The count stops where twice the multiple is none.
LEMMA StopsTwice ==
  ASSUME NEW p, NEW c, OddCurve(p, c), NEW P \in Elements(c)
  PROVE  Stops(c, P) <=> Add(c, P, P) = None
PROOF
<1>1. IsPrime(p) /\ c \in Config(p)
  BY OddCurveIs
<1>2. CASE P = None
  BY <1>2, AddIs DEF Stops
<1>3. CASE P # None
  <2>1. P \in Pairs(c) /\ On(c, P)
    BY <1>1, <1>3, ElementsAre
  <2>2. AddPoints(c, P, P) = None <=> P = NegatePoint(c, P)
    BY <1>1, <2>1, SumIsNone
  <2>3. Add(c, P, P) = AddPoints(c, P, P)
    BY <1>3, AddIs
  <2> QED
    BY <1>3, <2>2, <2>3 DEF Stops
<1> QED
  BY <1>2, <1>3

\* It counts multiples.
LEMMA CountIsFirst ==
  ASSUME NEW p, NEW c, OddCurve(p, c), NEW v \in Pairs(c), On(c, v)
  PROVE  /\ CountOrder(c, v) \in 1 .. 2 * p + 1
         /\ Stops(c, Multiple(c, v)[CountOrder(c, v)])
         /\ \A i \in 1 .. CountOrder(c, v) - 1 : ~Stops(c, Multiple(c, v)[i])
PROOF
<1> DEFINE f == Multiple(c, v)
<1>1. /\ IsPrime(p) /\ p \in Nat /\ p > 1 /\ c \in Config(p) /\ BruteForceIsPrime(p)
      /\ v \in Elements(c) /\ v \in Element(c) /\ v # None
  <2>1. IsPrime(p) /\ p \in Nat /\ p > 1 /\ c \in Config(p) /\ BruteForceIsPrime(p)
    BY OddCurveIs, PrimePassesTrial
  <2> QED
    BY <2>1, ElementsAre, CurveNumbers DEF Element
<1>2. PICK k \in 0 .. 2 * p : Ends(c, v, v, k)
  BY <1>1, CountEndsSoon
<1>3. CountOrder(c, v) = 1 + k
  <2>1. k \in Nat /\ 1 \in Nat
    BY <1>1
  <2>2. Counts(c, v)[1][v] = 1 + k
    BY <1>1, <1>2, <2>1, CountedSteps
  <2> QED
    BY <2>2 DEF CountOrder, Counts, CountBody
<1>4. PICK h \in [0 .. k -> Element(c)] :
        /\ h[0] = v /\ Stops(c, h[k])
        /\ \A i \in 0 .. k - 1 : ~Stops(c, h[i]) /\ h[i + 1] = AddPoints(c, h[i], v)
  BY <1>2 DEF Ends
<1>5. f[1] = v /\ \A n \in Nat : f[n + 1] = Add(c, f[n], v)
  BY <1>1, MultipleOne
<1> HIDE DEF f
<1> DEFINE S == {i \in 0 .. k : h[i] = f[i + 1]}
<1>6. 0 \in S
  BY <1>4, <1>5
<1>7. ASSUME NEW i \in S, i \in 0 .. k - 1 PROVE i + 1 \in S
  <2>1. i + 1 \in Nat /\ i + 1 \in 0 .. k
    BY <1>7
  <2>2. h[i] = f[i + 1] /\ ~Stops(c, h[i]) /\ h[i + 1] = AddPoints(c, h[i], v)
    BY <1>4, <1>7
  <2>3. h[i] # None
    BY <2>2 DEF Stops
  <2>4. Add(c, h[i], v) = AddPoints(c, h[i], v)
    BY <1>1, <2>3, AddIs
  <2>5. f[i + 1 + 1] = Add(c, f[i + 1], v)
    BY <1>5, <2>1
  <2> QED
    BY <2>1, <2>2, <2>4, <2>5
<1>8. \A i \in 0 .. k : h[i] = f[i + 1]
  <2>1. 0 .. k \subseteq S
    <3> HIDE DEF S
    <3>1. k \in Nat
      BY <1>1
    <3> QED
      BY <1>6, <1>7, <3>1, BoundedInduction
  <2> QED
    BY <2>1
<1>9. Stops(c, f[1 + k])
  <2>1. k \in 0 .. k /\ k + 1 = 1 + k
    BY <1>1
  <2> QED
    BY <1>4, <1>8, <2>1
<1>10. ASSUME NEW i \in 1 .. (1 + k) - 1 PROVE ~Stops(c, f[i])
  <2>1. i - 1 \in 0 .. k - 1 /\ i - 1 \in 0 .. k /\ i - 1 + 1 = i
    BY <1>1
  <2>2. ~Stops(c, h[i - 1]) /\ h[i - 1] = f[i - 1 + 1]
    BY <1>4, <1>8, <2>1
  <2> QED
    BY <2>1, <2>2
<1> QED
  BY <1>1, <1>3, <1>9, <1>10 DEF f

\* The first number whose double n divides is n or half of it.
LEMMA Halves ==
  ASSUME NEW n \in Nat \ {0}, NEW k \in Nat \ {0}, Vanishes(n, 2 * k),
         \A i \in 1 .. k - 1 : ~Vanishes(n, 2 * i)
  PROVE  n = k \/ n = 2 * k
PROOF
<1>1. n >= k
  <2>1. 2 * n = n * 2 /\ 2 \in Int
    OBVIOUS
  <2>2. Vanishes(n, 2 * n)
    BY <2>1 DEF Vanishes
  <2>3. ~(n \in 1 .. k - 1)
    BY <2>2
  <2> QED
    BY <2>3
<1>2. PICK j \in Int : 2 * k = n * j
  BY DEF Vanishes
<1>3. j >= 1
  <2>1. j <= 0 => n * j <= 0
    OBVIOUS
  <2> QED
    BY <1>2, <2>1
<1>4. j >= 2 => n * j >= 2 * n
  OBVIOUS
<1>5. j = 1 => n = 2 * k
  BY <1>2
<1> QED
  BY <1>1, <1>2, <1>3, <1>4, <1>5

\* The order counted is the order or half of it; a prime order above 2 is
\* counted in full.
LEMMA CountedOrder ==
  ASSUME NEW p, NEW c, OddCurve(p, c), NEW v \in Pairs(c), On(c, v), NEW n, IsOrder(c, v, n)
  PROVE  /\ n = CountOrder(c, v) \/ n = 2 * CountOrder(c, v)
         /\ IsPrime(n) /\ n # 2 => n = CountOrder(c, v)
PROOF
<1> DEFINE f == Multiple(c, v)
           k == CountOrder(c, v)
<1>1. k \in 1 .. 2 * p + 1 /\ Stops(c, f[k]) /\ \A i \in 1 .. k - 1 : ~Stops(c, f[i])
  BY CountIsFirst
<1>2. v \in Elements(c) /\ p \in Nat /\ n \in Nat \ {0}
  BY OddCurveIs, ElementsAre DEF IsOrder
<1> HIDE DEF k
<1>3. ASSUME NEW i \in Nat PROVE Stops(c, f[i]) <=> Vanishes(n, 2 * i)
  <2>1. f[i] \in Elements(c)
    BY <1>2, MultipleOne
  <2>2. Stops(c, f[i]) <=> Add(c, f[i], f[i]) = None
    BY <2>1, StopsTwice
  <2>3. f[i + i] = Add(c, f[i], f[i])
    BY <1>2, MultipleSum
  <2>4. i + i = 2 * i /\ i + i \in Nat
    OBVIOUS
  <2>5. f[2 * i] = None <=> Vanishes(n, 2 * i)
    BY <1>2, <2>4, OrderDivides
  <2> HIDE DEF f
  <2> QED
    BY <2>2, <2>3, <2>4, <2>5
<1>4. k \in Nat \ {0} /\ \A i \in 1 .. k - 1 : i \in Nat
  BY <1>1, <1>2
<1>5. Vanishes(n, 2 * k) /\ \A i \in 1 .. k - 1 : ~Vanishes(n, 2 * i)
  <2> HIDE DEF f
  <2> QED
    BY <1>1, <1>3, <1>4
<1>6. n = k \/ n = 2 * k
  BY <1>2, <1>4, <1>5, Halves
<1>7. IsPrime(n) /\ n # 2 => n # 2 * k
  <2>1. n = 2 * k => n % 2 = 0
    BY <1>4
  <2>2. IsPrime(n) /\ n # 2 => 2 \in 2 .. n - 1
    BY DEF IsPrime
  <2> QED
    BY <2>1, <2>2 DEF IsPrime
<1> QED
  BY <1>6, <1>7 DEF k

\* PickRandomG takes the greatest prime counted, and points it counted for.
LEMMA PickedOrder ==
  ASSUME NEW p \in Nat, p > 1, BruteForceIsPrime(p), NEW c \in Config(p),
         NEW seen \in Seq(Pairs(c)), \A i \in 1 .. Len(seen) : On(c, seen[i])
  PROVE  /\ BruteForceIsPrime(PickRandomG(c, seen).order)
         /\ PickRandomG(c, seen).order \in 1 .. 2 * p + 1
         /\ \A P \in PickRandomG(c, seen).suitable :
              \E i \in 1 .. Len(seen) : P = seen[i] /\ CountOrder(c, P) = PickRandomG(c, seen).order
         /\ \A i \in 1 .. Len(seen) :
              BruteForceIsPrime(CountOrder(c, seen[i])) =>
                CountOrder(c, seen[i]) <= PickRandomG(c, seen).order
PROOF
<1> DEFINE last == Len(seen)
           O(i) == CountOrder(c, seen[i])
           picked == PickRandomG(c, seen)
<1>1. PICK best : IsBest(c, seen, best) /\ \A i \in 0 .. last : best[i] \in 1 .. 2 * p + 1
  BY BestExists
<1>2. ASSUME NEW i \in 1 .. last PROVE O(i) \in 1 .. 2 * p + 1
  <2>1. seen[i] \in Pairs(c) /\ On(c, seen[i])
    OBVIOUS
  <2> QED
    BY <2>1, OrderCounted
<1>3. last \in Nat /\ DOMAIN seen = 1 .. last
  OBVIOUS
<1>4. /\ best[0] = 1 /\ picked.order = best[last]
      /\ \A i \in 1 .. last : best[i] = IF BetterOrder(O(i), best[i - 1]) THEN O(i) ELSE best[i - 1]
  BY <1>1 DEF IsBest
<1>5. \A P \in picked.suitable : \E i \in 1 .. last : P = seen[i] /\ O(i) = picked.order
  BY <1>3 DEF PickRandomG
<1> HIDE DEF picked, O, last
<1> DEFINE S == {k \in 0 .. last : /\ BruteForceIsPrime(best[k])
                                   /\ \A i \in 1 .. k : BruteForceIsPrime(O(i)) => O(i) <= best[k]}
<1>6. 0 \in S
  <2>1. BruteForceIsPrime(1)
    BY DEF BruteForceIsPrime
  <2>2. 0 \in 0 .. last /\ 1 .. 0 = {}
    BY <1>3
  <2> QED
    BY <1>4, <2>1, <2>2
<1>7. ASSUME NEW k \in S, k \in 0 .. last - 1 PROVE k + 1 \in S
  <2>1. k + 1 \in 1 .. last /\ k + 1 - 1 = k /\ k + 1 \in 0 .. last /\ k \in 0 .. last
    BY <1>3, <1>7
  <2>2. best[k] \in Int /\ best[k + 1] \in Int /\ O(k + 1) \in Int
    BY <1>1, <1>2, <2>1
  <2>3. best[k + 1] = IF BetterOrder(O(k + 1), best[k]) THEN O(k + 1) ELSE best[k]
    BY <1>4, <2>1
  <2>4. BruteForceIsPrime(best[k + 1])
    BY <2>3 DEF BetterOrder
  <2>5. best[k] <= best[k + 1]
    BY <2>2, <2>3 DEF BetterOrder
  <2>6. BruteForceIsPrime(O(k + 1)) => O(k + 1) <= best[k + 1]
    BY <2>2, <2>3 DEF BetterOrder
  <2>7. ASSUME NEW i \in 1 .. k + 1, BruteForceIsPrime(O(i)) PROVE O(i) <= best[k + 1]
    <3>1. CASE i = k + 1
      BY <2>6, <2>7, <3>1
    <3>2. CASE i # k + 1
      <4>1. i \in 1 .. k /\ i \in 1 .. last
        BY <1>3, <1>7, <3>2
      <4>2. O(i) <= best[k] /\ O(i) \in Int
        BY <1>2, <2>7, <4>1
      <4> QED
        BY <2>2, <2>5, <4>2
    <3> QED
      BY <3>1, <3>2
  <2> QED
    BY <2>1, <2>4, <2>7
<1>8. last \in S
  <2> HIDE DEF S
  <2>1. 0 .. last \subseteq S
    BY <1>3, <1>6, <1>7, BoundedInduction
  <2> QED
    BY <1>3, <2>1
<1>9. last \in 0 .. last
  BY <1>3
<1>10. \A P \in picked.suitable : \E i \in 1 .. last : P = seen[i] /\ CountOrder(c, P) = picked.order
  BY <1>5 DEF O
<1> QED
  BY <1>1, <1>4, <1>8, <1>9, <1>10 DEF picked, O, last

-----------------------------------------------------------------------------
(* The order of a point divides the number of elements.                    *)

\* There are finitely many elements.
LEMMA ElementsFinite ==
  ASSUME NEW p, IsPrime(p), NEW c \in Config(p)
  PROVE  IsFiniteSet(Elements(c))
PROOF
<1> DEFINE E == Elements(c)
           T == 0 .. 2 * p
           place == [P \in E |-> ElementPlace(p, P)]
<1>1. \A P, Q \in E : /\ ElementPlace(p, P) \in T
                      /\ ElementPlace(p, P) = ElementPlace(p, Q) => P = Q
  BY ElementPlaces
<1>2. place \in Injection(E, T)
  <2> HIDE DEF E, T
  <2> QED
    BY <1>1 DEF Injection, IsInjective
<1>3. IsFiniteSet(T)
  <2>1. 0 \in Int /\ 2 * p \in Int
    BY DEF IsPrime
  <2> QED
    BY <2>1, FS_Interval
<1> HIDE DEF E, T, place
<1>4. IsFiniteSet(E)
  BY <1>2, <1>3, FS_Injection
<1> QED
  BY <1>4 DEF E

\* What adding v again and again makes of P.
Orbit(c, v, n, P) == {Add(c, P, Multiple(c, v)[k]) : k \in 0 .. n - 1}

\* It has as many elements as the order of v says.
LEMMA OrbitSize ==
  ASSUME NEW p, NEW c, OddCurve(p, c), NEW v \in Elements(c), NEW n, IsOrder(c, v, n),
         NEW P \in Elements(c)
  PROVE  IsFiniteSet(Orbit(c, v, n, P)) /\ Cardinality(Orbit(c, v, n, P)) = n
PROOF
<1> DEFINE f == Multiple(c, v)
           D == 0 .. n - 1
           O == Orbit(c, v, n, P)
           turn == [k \in D |-> Add(c, P, f[k])]
<1>1. n \in Nat \ {0} /\ \A k \in 1 .. n - 1 : f[k] # None
  BY DEF IsOrder
<1>2. \A k \in D : k \in Nat /\ f[k] \in Elements(c)
  BY <1>1, MultipleOne
<1>3. ASSUME NEW k \in D, NEW l \in D, Add(c, P, f[k]) = Add(c, P, f[l]) PROVE k = l
  <2>1. k \in Nat /\ l \in Nat /\ f[k] \in Elements(c) /\ f[l] \in Elements(c)
    BY <1>2
  <2>2. Add(c, f[k], P) = Add(c, f[l], P)
    <3> HIDE DEF f
    <3> QED
      BY <1>3, <2>1, AddLaws
  <2>3. f[k] = f[l]
    <3> HIDE DEF f
    <3> QED
      BY <2>1, <2>2, AddCancels
  <2>4. ASSUME NEW i \in D, NEW j \in D, i < j PROVE f[i] # f[j]
    <3>1. j - i \in 1 .. n - 1 /\ i \in Nat /\ j - i \in Nat /\ j - i + i = j
      BY <1>1, <2>4
    <3>2. f[j] = f[i] => f[j - i] = None
      BY <3>1, MultipleRepeats
    <3> QED
      BY <1>1, <3>1, <3>2
  <2>5. ~(k < l) /\ ~(l < k)
    BY <2>3, <2>4
  <2> QED
    BY <1>1, <2>5
<1>4. turn \in Bijection(D, O)
  <2>1. turn \in [D -> O] /\ \A P1 \in O : \E k \in D : turn[k] = P1
    BY DEF Orbit
  <2>2. \A k, l \in D : turn[k] = turn[l] => k = l
    BY <1>3
  <2> HIDE DEF D, O, turn
  <2> QED
    BY <2>1, <2>2 DEF Bijection, Injection, Surjection, IsInjective
<1>5. IsFiniteSet(D) /\ Cardinality(D) = n
  <2>1. 0 \in Int /\ n - 1 \in Int /\ 0 <= n - 1 /\ n - 1 - 0 + 1 = n
    BY <1>1
  <2> QED
    BY <2>1, FS_Interval
<1> HIDE DEF D, O, turn
<1>6. IsFiniteSet(O) /\ Cardinality(O) = n
  <2>1. ExistsBijection(D, O)
    BY <1>4 DEF ExistsBijection
  <2> QED
    BY <1>5, <2>1, FS_Bijection
<1> QED
  BY <1>6 DEF O

\* Nothing leaves the set when v is added.
Closed(c, v, S) == \A P \in S : Add(c, P, v) \in S

\* It has the orbits of its elements in it.
LEMMA OrbitInside ==
  ASSUME NEW p, NEW c, OddCurve(p, c), NEW v \in Elements(c), NEW n, IsOrder(c, v, n),
         NEW S \in SUBSET Elements(c), Closed(c, v, S), NEW P \in S
  PROVE  P \in Orbit(c, v, n, P) /\ Orbit(c, v, n, P) \subseteq S
PROOF
<1> DEFINE f == Multiple(c, v)
<1>1. n \in Nat \ {0} /\ n - 1 \in Nat /\ 0 \in 0 .. n - 1
  BY DEF IsOrder
<1>2. f[0] = None /\ \A k \in Nat : f[k] \in Elements(c) /\ f[k + 1] = Add(c, f[k], v)
  BY MultipleOne
<1>3. P \in Elements(c)
  OBVIOUS
<1>4. Orbit(c, v, n, P) = {Add(c, P, f[k]) : k \in 0 .. n - 1}
  BY DEF Orbit
<1> HIDE DEF f
<1> DEFINE T == {k \in 0 .. n - 1 : Add(c, P, f[k]) \in S}
<1>5. Add(c, P, f[0]) = P
  BY <1>2, AddIs
<1>6. 0 \in T
  BY <1>1, <1>5
<1>7. ASSUME NEW k \in T, k \in 0 .. n - 1 - 1 PROVE k + 1 \in T
  <2>1. k \in Nat /\ k + 1 \in 0 .. n - 1
    BY <1>1, <1>7
  <2> DEFINE R == f[k]
  <2>4. R \in Elements(c) /\ f[k + 1] = Add(c, R, v)
    BY <1>2, <2>1
  <2> HIDE DEF R
  <2>5. Add(c, Add(c, P, R), v) = Add(c, P, Add(c, R, v))
    BY <1>3, <2>4, AddLaws
  <2>2. Add(c, P, f[k + 1]) = Add(c, Add(c, P, f[k]), v)
    BY <2>4, <2>5 DEF R
  <2>3. Add(c, Add(c, P, f[k]), v) \in S
    BY <1>7 DEF Closed
  <2> QED
    BY <2>1, <2>2, <2>3
<1>8. 0 .. n - 1 \subseteq T
  <2> HIDE DEF T
  <2> QED
    BY <1>1, <1>6, <1>7, BoundedInduction
<1>9. \A k \in 0 .. n - 1 : Add(c, P, f[k]) \in S
  BY <1>8
<1> QED
  BY <1>1, <1>4, <1>5, <1>9

\* Nor does anything come into an orbit.
LEMMA RestClosed ==
  ASSUME NEW p, NEW c, OddCurve(p, c), NEW v \in Elements(c), NEW n, IsOrder(c, v, n),
         NEW S \in SUBSET Elements(c), Closed(c, v, S), NEW P \in S
  PROVE  Closed(c, v, S \ Orbit(c, v, n, P))
PROOF
<1> DEFINE f == Multiple(c, v)
           O == Orbit(c, v, n, P)
<1>1. n \in Nat \ {0} /\ f[n] = None
  BY DEF IsOrder
<1>2. f[0] = None /\ \A k \in Nat : f[k] \in Elements(c) /\ f[k + 1] = Add(c, f[k], v)
  BY MultipleOne
<1>3. O = {Add(c, P, f[k]) : k \in 0 .. n - 1}
  BY DEF Orbit
<1> HIDE DEF f, O
<1> SUFFICES ASSUME NEW Q \in S \ O PROVE Add(c, Q, v) \in S \ O
  BY DEF Closed, O
<1>4. Add(c, Q, v) \in S /\ Q \in Elements(c) /\ P \in Elements(c)
  BY DEF Closed
<1>5. ASSUME NEW k \in Nat, k \in 0 .. n - 1, Add(c, Q, v) = Add(c, P, f[k + 1]) PROVE FALSE
  <2> DEFINE R == f[k]
  <2>3. R \in Elements(c) /\ f[k + 1] = Add(c, R, v)
    BY <1>2
  <2> HIDE DEF R
  <2>4. Add(c, Add(c, P, R), v) = Add(c, P, Add(c, R, v)) /\ Add(c, P, R) \in Elements(c)
    BY <1>4, <2>3, AddLaws
  <2>1. Add(c, P, f[k + 1]) = Add(c, Add(c, P, f[k]), v) /\ Add(c, P, f[k]) \in Elements(c)
    BY <2>3, <2>4 DEF R
  <2>2. Q = Add(c, P, f[k])
    BY <1>4, <1>5, <2>1, AddCancels
  <2> QED
    BY <1>3, <1>5, <2>2
<1>6. ASSUME Add(c, Q, v) \in O PROVE FALSE
  <2>1. PICK k \in 0 .. n - 1 : Add(c, Q, v) = Add(c, P, f[k])
    BY <1>3, <1>6
  <2>2. CASE k = 0
    <3>1. n - 1 \in Nat /\ n - 1 \in 0 .. n - 1 /\ n - 1 + 1 = n
      BY <1>1
    <3>2. f[n - 1 + 1] = f[k]
      BY <1>1, <1>2, <2>2, <3>1
    <3> QED
      BY <1>5, <2>1, <3>1, <3>2
  <2>3. CASE k # 0
    <3>1. k - 1 \in Nat /\ k - 1 \in 0 .. n - 1 /\ k - 1 + 1 = k
      BY <1>1, <2>3
    <3> QED
      BY <1>5, <2>1, <3>1
  <2> QED
    BY <2>2, <2>3
<1> QED
  BY <1>4, <1>6

\* So a set like that falls into orbits.
LEMMA OrbitsFill ==
  ASSUME NEW p, NEW c, OddCurve(p, c), NEW v \in Elements(c), NEW n, IsOrder(c, v, n)
  PROVE  \A s \in Nat : \A S \in SUBSET Elements(c) :
           Closed(c, v, S) /\ Cardinality(S) <= s => Vanishes(n, Cardinality(S))
PROOF
<1> DEFINE E == Elements(c)
           T == {s \in Nat : \A S \in SUBSET E :
                   Closed(c, v, S) /\ Cardinality(S) <= s => Vanishes(n, Cardinality(S))}
<1>1. n \in Nat \ {0}
  BY DEF IsOrder
<1>2. ASSUME NEW S \in SUBSET E PROVE IsFiniteSet(S) /\ Cardinality(S) \in Nat
  <2>1. IsFiniteSet(E)
    BY OddCurveIs, ElementsFinite
  <2>2. IsFiniteSet(S)
    <3> HIDE DEF E
    <3> QED
      BY <2>1, FS_Subset
  <2> QED
    BY <2>2, FS_CardinalityType
<1>3. Vanishes(n, 0)
  <2>1. 0 = n * 0 /\ 0 \in Int
    BY <1>1
  <2> QED
    BY <2>1 DEF Vanishes
<1>4. 0 \in T
  <2> SUFFICES ASSUME NEW S \in SUBSET E, Cardinality(S) <= 0 PROVE Vanishes(n, Cardinality(S))
    OBVIOUS
  <2>1. Cardinality(S) = 0
    BY <1>2
  <2> QED
    BY <1>3, <2>1
<1>5. ASSUME NEW s \in T PROVE s + 1 \in T
  <2> SUFFICES ASSUME NEW S \in SUBSET E, Closed(c, v, S), Cardinality(S) <= s + 1
               PROVE  Vanishes(n, Cardinality(S))
    OBVIOUS
  <2>1. IsFiniteSet(S) /\ Cardinality(S) \in Nat
    BY <1>2
  <2>2. CASE S = {}
    BY <1>3, <2>2, FS_EmptySet
  <2>3. CASE S # {}
    <3>1. PICK P \in S : TRUE
      BY <2>3
    <3> DEFINE O == Orbit(c, v, n, P)
               R == S \ O
    <3>2. O \subseteq S /\ Closed(c, v, R)
      BY <3>1, OrbitInside, RestClosed
    <3>3. Cardinality(O) = n
      BY <3>1, OrbitSize
    <3> HIDE DEF O
    <3>4. Cardinality(R) = Cardinality(S) - n
      <4>1. S \cap O = O
        BY <3>2
      <4> QED
        BY <2>1, <3>3, <4>1, FS_Difference
    <3>5. R \in SUBSET E /\ Cardinality(R) \in Nat
      BY <1>2
    <3>6. Cardinality(R) <= s
      BY <1>1, <2>1, <3>4, <3>5
    <3>7. Vanishes(n, Cardinality(R))
      BY <3>2, <3>5, <3>6
    <3> HIDE DEF R
    <3>8. PICK k \in Int : Cardinality(R) = n * k
      BY <3>7 DEF Vanishes
    <3>9. Cardinality(S) = n * (k + 1) /\ k + 1 \in Int
      BY <1>1, <2>1, <3>4, <3>5, <3>8
    <3> QED
      BY <3>9 DEF Vanishes
  <2> QED
    BY <2>2, <2>3
<1>6. T = Nat
  <2> HIDE DEF T
  <2>1. T \in SUBSET Nat
    BY DEF T
  <2> QED
    BY <1>4, <1>5, <2>1, SetInduction
<1> QED
  BY <1>6

\* All elements are a set like that: the order divides their number.
LEMMA OrderDividesCount ==
  ASSUME NEW p, NEW c, OddCurve(p, c), NEW v \in Elements(c), NEW n, IsOrder(c, v, n)
  PROVE  /\ IsFiniteSet(Elements(c)) /\ Cardinality(Elements(c)) \in Nat
         /\ Vanishes(n, Cardinality(Elements(c)))
PROOF
<1>1. IsFiniteSet(Elements(c)) /\ Cardinality(Elements(c)) \in Nat
  BY OddCurveIs, ElementsFinite, FS_CardinalityType
<1>2. Closed(c, v, Elements(c))
  BY AddLaws DEF Closed
<1>3. Elements(c) \in SUBSET Elements(c) /\ Cardinality(Elements(c)) <= Cardinality(Elements(c))
  BY <1>1
<1> QED
  BY <1>1, <1>2, <1>3, OrbitsFill

-----------------------------------------------------------------------------
(* What MultiplyPoint computes.                                            *)

\* A prime above 2 that divides the order of v.
DividesOrder(c, v, q) ==
  /\ IsPrime(q) /\ q # 2
  /\ \A k \in Nat : Multiple(c, v)[k] = None => Vanishes(q, k)

\* It divides no number below it, and 2 k only if it divides k.
LEMMA OddPrime ==
  ASSUME NEW q, IsPrime(q), q # 2
  PROVE  /\ q \in Nat \ {0} /\ q \in Int /\ q \in Nat /\ q > 2
         /\ \A k \in 1 .. q - 1 : ~Vanishes(q, k)
         /\ \A k \in Nat : ~Vanishes(q, k) => ~Vanishes(q, 2 * k)
PROOF
<1>1. q \in Nat \ {0} /\ q > 2
  BY DEF IsPrime
<1>2. ASSUME NEW k \in 1 .. q - 1 PROVE ~Vanishes(q, k)
  <2>1. k \in Int /\ k < q /\ 0 - k < q /\ k # 0
    BY <1>1
  <2> QED
    BY <1>1, <2>1, ZeroSmall
<1>3. ASSUME NEW k \in Nat, ~Vanishes(q, k) PROVE ~Vanishes(q, 2 * k)
  <2>1. 2 \in Int /\ k \in Int /\ 2 \in 1 .. q - 1
    BY <1>1
  <2>2. ~Vanishes(q, 2)
    BY <1>2, <2>1
  <2> QED
    BY <1>3, <2>1, <2>2, ZeroFactor
<1> QED
  BY <1>1, <1>2, <1>3

\* A multiple that q does not divide is a point.
LEMMA MultipleIsPoint ==
  ASSUME NEW p, NEW c, OddCurve(p, c), NEW v \in Elements(c), NEW q, DividesOrder(c, v, q),
         NEW k \in Nat, ~Vanishes(q, k)
  PROVE  /\ Multiple(c, v)[k] # None /\ Multiple(c, v)[k] \in Elements(c)
         /\ Multiple(c, v)[k] \in Pairs(c) /\ On(c, Multiple(c, v)[k])
         /\ DividesOrder(c, Multiple(c, v)[k], q)
PROOF
<1> DEFINE w == Multiple(c, v)[k]
<1>1. IsPrime(q) /\ q # 2 /\ \A l \in Nat : Multiple(c, v)[l] = None => Vanishes(q, l)
  BY DEF DividesOrder
<1>2. w # None
  BY <1>1
<1>3. w \in Elements(c)
  BY MultipleOne
<1>4. w \in Pairs(c) /\ On(c, w)
  <2> HIDE DEF w
  <2> QED
    BY <1>2, <1>3, OddCurveIs, ElementsAre
<1>5. ASSUME NEW l \in Nat, Multiple(c, w)[l] = None PROVE Vanishes(q, l)
  <2>1. Multiple(c, w)[l] = Multiple(c, v)[k * l] /\ k * l \in Nat
    BY MultipleProduct
  <2>2. Vanishes(q, k * l)
    BY <1>1, <1>5, <2>1
  <2>3. k \in Int /\ l \in Int
    OBVIOUS
  <2> QED
    BY <1>1, <2>2, <2>3, ZeroFactor
<1> QED
  BY <1>1, <1>2, <1>3, <1>4, <1>5 DEF DividesOrder

\* A turn of MultiplyPoint.
LEMMA TurnIs ==
  ASSUME NEW p \in Nat, p > 1, NEW c \in Config(p), NEW times \in Nat,
         NEW left \in 0 .. times, NEW result \in Element(c), NEW temp \in Pairs(c)
  PROVE  Multiples(c, times)[left][result][temp] =
           IF left = 0 THEN result
           ELSE IF GivesUp(c, left, result, temp) THEN None
           ELSE Multiples(c, times)[left \div 2][SumOf(c, left, result, temp)][AddPoints(c, temp, temp)]
PROOF
<1> DEFINE M == Multiples(c, times)
<1>1. M = MultiplyBody(c, times, M)
  BY MultiplesExist
<1> HIDE DEF M
<1>2. MultiplyBody(c, times, M)[left][result][temp] =
        IF left = 0 THEN result
        ELSE IF GivesUp(c, left, result, temp) THEN None
        ELSE M[left \div 2][SumOf(c, left, result, temp)][AddPoints(c, temp, temp)]
  BY DEF MultiplyBody, GivesUp, SumOf
<1> QED
  BY <1>1, <1>2 DEF M

\* It goes on with this sum and this double.
GoesOn(c, left, result, temp, sum, double) ==
  /\ ~GivesUp(c, left, result, temp)
  /\ AddPoints(c, temp, temp) = double /\ SumOf(c, left, result, temp) = sum

\* They are multiples, for a number below a prime that divides the order.
LEMMA TurnMultiplies ==
  ASSUME NEW p, NEW c, OddCurve(p, c), NEW v \in Elements(c), NEW q, DividesOrder(c, v, q),
         NEW times \in 0 .. q - 1, NEW left \in 1 .. times, NEW t \in Nat, NEW r \in Nat,
         ~Vanishes(q, t), left * t + r = times
  PROVE  GoesOn(c, left, Multiple(c, v)[r], Multiple(c, v)[t],
                Multiple(c, v)[IF left % 2 = 0 THEN r ELSE r + t], Multiple(c, v)[2 * t])
PROOF
<1> DEFINE f == Multiple(c, v)
           result == f[r]
           temp == f[t]
<1>1. IsPrime(q) /\ q # 2
  BY DEF DividesOrder
<1>2. /\ q \in Nat \ {0} /\ q > 2 /\ \A k \in 1 .. q - 1 : ~Vanishes(q, k)
      /\ ~Vanishes(q, 2 * t)
  BY <1>1, OddPrime
<1>3. temp # None /\ temp \in Elements(c)
  BY MultipleIsPoint
<1>4. result \in Elements(c)
  BY MultipleOne
<1>5. f[2 * t] = Add(c, temp, temp) /\ f[2 * t] # None
  <2>1. 2 * t \in Nat /\ t + t = 2 * t
    OBVIOUS
  <2>2. f[t + t] = Add(c, temp, temp)
    BY MultipleSum
  <2>3. f[2 * t] # None
    BY <1>2, <2>1, MultipleIsPoint
  <2> QED
    BY <2>1, <2>2, <2>3
<1>6. f[r + t] = Add(c, result, temp) /\ f[r + t] # None
  <2>1. t # 0
    <3>1. 0 = q * 0 /\ 0 \in Int
      BY <1>2
    <3> QED
      BY <3>1 DEF Vanishes
  <2>2. left * t >= t
    <3>1. left - 1 \in Nat /\ (left - 1) * t \in Nat /\ left * t = (left - 1) * t + t
      OBVIOUS
    <3> QED
      BY <3>1
  <2>3. r + t \in 1 .. q - 1
    <3>1. left * t \in Nat
      OBVIOUS
    <3> QED
      BY <1>2, <2>1, <2>2, <3>1
  <2>4. f[r + t] # None
    BY <1>2, <2>3, MultipleIsPoint
  <2> QED
    BY <2>4, MultipleSum
<1> HIDE DEF f, result, temp
<1>7. AddPoints(c, temp, temp) = f[2 * t]
  BY <1>3, <1>5, AddIs
<1>8. result # None => AddPoints(c, result, temp) = f[r + t]
  BY <1>3, <1>6, AddIs
<1>9. result = None => temp = f[r + t]
  BY <1>6, AddIs
<1>10. SumOf(c, left, result, temp) = IF left % 2 = 0 THEN result ELSE f[r + t]
  BY <1>8, <1>9 DEF SumOf
<1>11. ~GivesUp(c, left, result, temp)
  BY <1>5, <1>6, <1>7, <1>10 DEF GivesUp
<1> QED
  BY <1>7, <1>10, <1>11 DEF GoesOn, result, temp, f

\* So MultiplyPoint computes the multiple.
LEMMA ProductIs ==
  ASSUME NEW p, NEW c, OddCurve(p, c), NEW v \in Elements(c), NEW q, DividesOrder(c, v, q),
         NEW times \in 0 .. q - 1
  PROVE  MultiplyPoint(c, times, v) = Multiple(c, v)[times]
PROOF
<1> DEFINE f == Multiple(c, v)
           M == Multiples(c, times)
           Right(left) == \A t, r \in Nat : ~Vanishes(q, t) /\ left * t + r = times =>
                                           M[left][f[r]][f[t]] = f[times]
           S == {k \in 0 .. times : \A left \in 0 .. k : Right(left)}
<1>1. IsPrime(q) /\ q # 2
  BY DEF DividesOrder
<1>2. q \in Nat \ {0} /\ q > 2 /\ (\A k \in 1 .. q - 1 : ~Vanishes(q, k)) /\ times \in Nat
  BY <1>1, OddPrime
<1>3. p \in Nat /\ p > 1 /\ c \in Config(p)
  BY OddCurveIs
<1>4. \A r \in Nat : f[r] \in Element(c)
  <2>1. \A r \in Nat : f[r] \in Elements(c)
    BY MultipleOne
  <2> QED
    BY <2>1 DEF Elements, Element
<1>5. \A t \in Nat : ~Vanishes(q, t) => f[t] \in Pairs(c)
  BY MultipleIsPoint
<1>6. Right(0)
  <2> SUFFICES ASSUME NEW t \in Nat, NEW r \in Nat, ~Vanishes(q, t), 0 * t + r = times
               PROVE  M[0][f[r]][f[t]] = f[times]
    OBVIOUS
  <2>1. r = times /\ 0 \in 0 .. times
    BY <1>2
  <2>2. f[r] \in Element(c) /\ f[t] \in Pairs(c)
    BY <1>4, <1>5
  <2> HIDE DEF f
  <2>3. M[0][f[r]][f[t]] = f[r]
    BY <1>2, <1>3, <2>1, <2>2, TurnIs
  <2> QED
    BY <2>1, <2>3
<1>7. ASSUME NEW left \in 1 .. times, Right(left \div 2) PROVE Right(left)
  <2> SUFFICES ASSUME NEW t \in Nat, NEW r \in Nat, ~Vanishes(q, t), left * t + r = times
               PROVE  M[left][f[r]][f[t]] = f[times]
    OBVIOUS
  <2> DEFINE h == left \div 2
             s == IF left % 2 = 0 THEN r ELSE r + t
  <2>1. /\ ~GivesUp(c, left, f[r], f[t]) /\ AddPoints(c, f[t], f[t]) = f[2 * t]
        /\ SumOf(c, left, f[r], f[t]) = f[s]
    <3> HIDE DEF M, Right, S
    <3>1. GoesOn(c, left, f[r], f[t], f[s], f[2 * t])
      BY TurnMultiplies
    <3> HIDE DEF f, s
    <3> QED
      BY <3>1 DEF GoesOn
  <2>2. f[r] \in Element(c) /\ f[t] \in Pairs(c)
    BY <1>4, <1>5
  <2>3. 2 * t \in Nat /\ s \in Nat /\ ~Vanishes(q, 2 * t)
    BY <1>1, OddPrime
  <2>4. h * (2 * t) + s = times
    <3>1. left \in Nat /\ h \in Nat /\ left % 2 \in 0 .. 1 /\ left = 2 * h + (left % 2)
      OBVIOUS
    <3> HIDE DEF h
    <3>2. CASE left % 2 = 0
      <4>1. left * t = h * (2 * t)
        BY <3>1, <3>2
      <4> QED
        BY <3>2, <4>1
    <3>3. CASE left % 2 # 0
      <4>1. left = 2 * h + 1
        BY <3>1, <3>3
      <4>2. left * t = h * (2 * t) + t
        BY <3>1, <4>1
      <4>3. h * (2 * t) \in Int /\ left * t \in Int
        BY <3>1
      <4>4. h * (2 * t) + (r + t) = left * t + r
        BY <4>2, <4>3
      <4>5. s = r + t
        BY <3>3
      <4> QED
        BY <4>4, <4>5
    <3> QED
      BY <3>2, <3>3
  <2> HIDE DEF s, f
  <2>5. M[left][f[r]][f[t]] = M[h][f[s]][f[2 * t]]
    <3>1. left \in 0 .. times /\ left # 0
      OBVIOUS
    <3> QED
      BY <1>2, <1>3, <2>1, <2>2, <3>1, TurnIs
  <2>6. M[h][f[s]][f[2 * t]] = f[times]
    BY <1>7, <2>3, <2>4
  <2> QED
    BY <2>5, <2>6
<1> HIDE DEF Right
<1>8. 0 \in S
  <2>1. \A left \in 0 .. 0 : left = 0
    OBVIOUS
  <2> QED
    BY <1>2, <1>6, <2>1
<1>9. ASSUME NEW k \in S, k \in 0 .. times - 1 PROVE k + 1 \in S
  <2>1. k + 1 \in 1 .. times /\ (k + 1) \div 2 \in 0 .. k /\ k + 1 \in 0 .. times
    BY <1>2, <1>9
  <2>2. Right(k + 1)
    BY <1>7, <2>1
  <2>3. \A left \in 0 .. k + 1 : left \in 0 .. k \/ left = k + 1
    BY <1>9
  <2> QED
    BY <2>1, <2>2, <2>3
<1>10. Right(times)
  <2>1. 0 .. times \subseteq S
    <3> HIDE DEF S
    <3> QED
      BY <1>2, <1>8, <1>9, BoundedInduction
  <2>2. times \in S /\ times \in 0 .. times
    BY <1>2, <2>1
  <2> QED
    BY <2>2
<1>11. M[times][f[0]][f[1]] = f[times]
  <2>1. 1 \in Nat /\ 0 \in Nat /\ times * 1 + 0 = times
    BY <1>2
  <2>2. ~Vanishes(q, 1)
    BY <1>2
  <2> QED
    BY <1>10, <2>1, <2>2 DEF Right
<1>12. f[0] = None /\ f[1] = v
  BY MultipleOne
<1>13. MultiplyPoint(c, times, v) = M[times][None][v]
  BY DEF MultiplyPoint, Multiples, MultiplyBody
<1> QED
  BY <1>11, <1>12, <1>13

-----------------------------------------------------------------------------
(* What the check of a signature adds.                                     *)

\* The inverse modulo a prime.
LEMMA InverseIs ==
  ASSUME NEW q, IsPrime(q), NEW e \in 1 .. q - 1
  PROVE  ModInverse(e, q) \in 1 .. q - 1 /\ Vanishes(q, e * ModInverse(e, q) - 1)
PROOF
<1> DEFINE i == ModInverse(e, q)
<1>1. q \in Nat \ {0} /\ q \in Nat /\ q > 1 /\ q \in Int /\ e \in Int /\ e % q = e
  BY DEF IsPrime
<1>2. e < q /\ 0 - e < q /\ e # 0
  BY <1>1
<1>3. ~Vanishes(q, e)
  BY <1>1, <1>2, ZeroSmall
<1>4. i # 0
  BY <1>1, <1>3, ModInverseFinds
<1>5. i \in 0 .. q - 1 /\ (i # 0 => Alike(q, e * i, 1))
  BY <1>1, InverseFound
<1> HIDE DEF i
<1>6. i \in 1 .. q - 1 /\ e * i \in Int /\ 1 \in Int
  BY <1>1, <1>4, <1>5
<1>7. Vanishes(q, e * i - 1)
  BY <1>1, <1>4, <1>5, <1>6, AlikeIsZero
<1> QED
  BY <1>6, <1>7 DEF i

\* What is no multiple of a prime has a remainder.
LEMMA NoRemainder ==
  ASSUME NEW q, IsPrime(q), NEW e \in Nat, e % q # 0
  PROVE  ~Vanishes(q, e) /\ e % q \in 1 .. q - 1 /\ Vanishes(q, (e % q) - e)
PROOF
<1>1. q \in Nat \ {0} /\ e \in Int
  BY DEF IsPrime
<1>2. Vanishes(q, e) <=> e % q = 0
  BY <1>1, VanishesIs
<1>3. e % q \in 0 .. q - 1 /\ Vanishes(q, (e % q) - e)
  BY <1>1, ZeroRemainder
<1>4. e % q \in 1 .. q - 1
  BY <1>1, <1>3
<1> QED
  BY <1>2, <1>3, <1>4

\* A product with a factor that has an inverse.
LEMMA ProductRemains ==
  ASSUME NEW q, IsPrime(q), NEW s \in Nat, NEW w \in Nat, NEW e \in Nat,
         Vanishes(q, s * w - 1), ~Vanishes(q, e)
  PROVE  (w * e) % q \in 1 .. q - 1 /\ Vanishes(q, ((w * e) % q) - w * e)
PROOF
<1>1. q \in Nat \ {0} /\ q \in Int /\ q > 1 /\ w \in Int /\ s \in Int /\ e \in Int
  BY DEF IsPrime
<1>2. ~Vanishes(q, w)
  <2> SUFFICES ASSUME Vanishes(q, w) PROVE FALSE
    OBVIOUS
  <2>1. s * w - 1 \in Int /\ -1 \in Int /\ s \in Int
    BY <1>1
  <2>2. Vanishes(q, s * w + (-1) * (s * w - 1))
    BY <1>1, <2>1, ZeroCombined
  <2>3. s * w + (-1) * (s * w - 1) = 1
    BY <1>1
  <2>4. Vanishes(q, 1)
    BY <2>2, <2>3
  <2>5. 1 \in Int /\ 1 < q /\ 0 - 1 < q
    BY <1>1
  <2> QED
    BY <1>1, <2>4, <2>5, ZeroSmall
<1>3. ~Vanishes(q, w * e)
  BY <1>1, <1>2, ZeroFactor
<1>4. w * e \in Nat /\ w * e \in Int
  OBVIOUS
<1>5. (w * e) % q # 0
  BY <1>1, <1>3, <1>4, VanishesIs
<1> QED
  BY <1>4, <1>5, NoRemainder

\* The two factors make the key of the signature again.
LEMMA FactorsMakeKey ==
  ASSUME NEW q \in Int, NEW h \in Nat, NEW r \in Nat, NEW a \in Nat, NEW key \in Nat,
         NEW i \in Nat, NEW s \in Nat, NEW w \in Nat, NEW u1 \in Nat, NEW u2 \in Nat,
         Vanishes(q, key * i - 1), Vanishes(q, s - i * (h + r * a)), Vanishes(q, s * w - 1),
         Vanishes(q, u1 - w * h), Vanishes(q, u2 - w * r)
  PROVE  Vanishes(q, (u1 + a * u2) - key)
PROOF
<1> DEFINE x == h + r * a
           e1 == u1 - w * h
           e2 == u2 - w * r
           e3 == key * i - 1
           e4 == s - i * x
           e5 == s * w - 1
           d1 == 1 * e1 + a * e2
           d2 == (0 - w * x) * e3 + (0 - w * key) * e4 + key * e5
<1>1. x \in Nat /\ w * h \in Int /\ w * r \in Int /\ key * i \in Int /\ i * x \in Int /\ s * w \in Int
  OBVIOUS
<1>2. e1 \in Int /\ e2 \in Int /\ e3 \in Int /\ e4 \in Int /\ e5 \in Int /\ 1 \in Int /\ a \in Int
      /\ 0 - w * x \in Int /\ 0 - w * key \in Int /\ key \in Int
  BY <1>1
<1>3. d1 = (u1 + a * u2) - w * x
  <2>1. w * x = w * h + a * (w * r)
    OBVIOUS
  <2>2. a * e2 = a * u2 - a * (w * r)
    OBVIOUS
  <2> HIDE DEF x
  <2> QED
    BY <1>1, <2>1, <2>2
<1>4. d2 = w * x - key
  <2> HIDE DEF x
  <2>1. (0 - w * x) * e3 = w * x - w * x * key * i
    BY <1>1
  <2>2. (0 - w * key) * e4 = w * x * key * i - key * (s * w)
    BY <1>1
  <2>3. key * e5 = key * (s * w) - key
    BY <1>1
  <2>4. w * x * key * i \in Int /\ key * (s * w) \in Int /\ w * x \in Int
    BY <1>1
  <2> HIDE DEF e3, e4, e5
  <2> QED
    BY <2>1, <2>2, <2>3, <2>4
<1>5. Vanishes(q, e1) /\ Vanishes(q, e2) /\ Vanishes(q, e3) /\ Vanishes(q, e4) /\ Vanishes(q, e5)
  OBVIOUS
<1>6. (u1 + a * u2) - key = 1 * d1 + 1 * d2
  <2>1. w * x \in Int
    BY <1>1
  <2> HIDE DEF d1, d2, x
  <2> QED
    BY <1>3, <1>4, <2>1
<1> HIDE DEF x, e1, e2, e3, e4, e5
<1>7. Vanishes(q, d1)
  BY <1>2, <1>5, ZeroCombined
<1>8. Vanishes(q, d2)
  BY <1>2, <1>5, ZeroCombined3
<1>9. d1 \in Int /\ d2 \in Int
  BY <1>2
<1> HIDE DEF d1, d2
<1>10. Vanishes(q, 1 * d1 + 1 * d2)
  BY <1>2, <1>7, <1>8, <1>9, ZeroCombined
<1> QED
  BY <1>6, <1>10

\* A signature that an attempt with this key makes.
SignedWith(c, h, a, v, q, key, made) ==
  /\ key \in 1 .. q - 1 /\ made = Attempt(c, h, a, v, q, key) /\ made # None

\* What the check of such a signature computes.
LEMMA SignatureIs ==
  ASSUME NEW p, NEW c, OddCurve(p, c), NEW v \in Elements(c), NEW q, DividesOrder(c, v, q),
         NEW h \in Nat, h % q # 0, NEW a \in 1 .. q - 1, NEW key, NEW made,
         SignedWith(c, h, a, v, q, key, made)
  PROVE  LET u == Factors(made, h, q) IN
         /\ u[1] \in 1 .. q - 1 /\ u[2] \in 1 .. q - 1
         /\ Vanishes(q, (u[1] + a * u[2]) - key)
         /\ made[1] = Multiple(c, v)[key][1] % q
PROOF
<1> DEFINE temp == MultiplyPoint(c, key, v)
           r == temp[1] % q
           i == ModInverse(key, q)
           s == (i * (h + r * a)) % q
           w == ModInverse(s, q)
           u1 == (w * h) % q
           u2 == (w * r) % q
<1>1. IsPrime(q) /\ q # 2
  BY DEF DividesOrder
<1>2. q \in Nat \ {0} /\ q \in Nat /\ q \in Int /\ q > 2
  BY <1>1, OddPrime
<1>3. key \in 1 .. q - 1 /\ made = <<r, s>> /\ temp # None /\ r # 0 /\ s # 0
  BY DEF SignedWith, Attempt
<1>4. temp = Multiple(c, v)[key]
  <2>1. key \in 0 .. q - 1
    BY <1>3
  <2> QED
    BY <2>1, ProductIs
<1>5. temp \in Pairs(c) /\ temp[1] \in Nat
  <2>1. key \in Nat /\ ~Vanishes(q, key)
    BY <1>1, <1>3, OddPrime
  <2>2. Multiple(c, v)[key] \in Pairs(c)
    BY <2>1, MultipleIsPoint
  <2>3. Multiple(c, v)[key][1] \in 0 .. p - 1
    BY <2>2, OddCurveIs, CurveNumbers
  <2> QED
    BY <1>4, <2>2, <2>3
<1> DEFINE z == temp[1]
<1>6. r \in 1 .. q - 1 /\ ~Vanishes(q, r)
  <2>1. z \in Nat /\ z % q # 0
    BY <1>3, <1>5
  <2> HIDE DEF z
  <2>2. z % q \in 1 .. q - 1
    BY <1>1, <2>1, NoRemainder
  <2>3. ~Vanishes(q, z % q)
    BY <1>1, <2>2, OddPrime
  <2> QED
    BY <2>2, <2>3 DEF z
<1> HIDE DEF temp, r
<1>7. i \in 1 .. q - 1 /\ Vanishes(q, key * i - 1)
  BY <1>1, <1>3, InverseIs
<1> HIDE DEF i
<1>8. s \in 1 .. q - 1 /\ Vanishes(q, s - i * (h + r * a))
  <2> DEFINE t == i * (h + r * a)
  <2>1. t \in Nat
    BY <1>2, <1>6, <1>7
  <2>2. t % q # 0
    BY <1>3
  <2> HIDE DEF t
  <2>3. t % q \in 1 .. q - 1 /\ Vanishes(q, (t % q) - t)
    BY <1>1, <2>1, <2>2, NoRemainder
  <2> QED
    BY <2>3 DEF t
<1> HIDE DEF s
<1>9. w \in 1 .. q - 1 /\ Vanishes(q, s * w - 1)
  BY <1>1, <1>8, InverseIs
<1> HIDE DEF w
<1>10. ~Vanishes(q, h)
  BY <1>1, NoRemainder
<1>11. /\ s \in Nat /\ w \in Nat /\ r \in Nat /\ i \in Nat /\ key \in Nat /\ a \in Nat
  BY <1>2, <1>3, <1>6, <1>7, <1>8, <1>9
<1>12. u1 \in 1 .. q - 1 /\ Vanishes(q, u1 - w * h)
  BY <1>1, <1>9, <1>10, <1>11, ProductRemains
<1>13. u2 \in 1 .. q - 1 /\ Vanishes(q, u2 - w * r)
  BY <1>1, <1>6, <1>9, <1>11, ProductRemains
<1> HIDE DEF u1, u2
<1>14. u1 \in Nat /\ u2 \in Nat
  BY <1>2, <1>12, <1>13
<1>15. Vanishes(q, (u1 + a * u2) - key)
  BY <1>2, <1>7, <1>8, <1>9, <1>11, <1>12, <1>13, <1>14, FactorsMakeKey
<1>16. Factors(made, h, q) = <<u1, u2>>
  BY <1>3 DEF Factors, u1, u2, w
<1>17. made[1] = Multiple(c, v)[key][1] % q
  <2>1. made[1] = r
    BY <1>3
  <2> QED
    BY <1>4, <2>1 DEF r
<1> QED
  BY <1>12, <1>13, <1>15, <1>16, <1>17

\* The check meets points only, and the order being right, the one that signed.
LEMMA CheckIs ==
  ASSUME NEW p, NEW c, OddCurve(p, c), NEW v \in Elements(c), NEW q, DividesOrder(c, v, q),
         NEW messageHash \in Nat, NEW a \in 1 .. q - 1, NEW key, NEW made,
         StripMessageHash(messageHash, q) % q # 0,
         SignedWith(c, StripMessageHash(messageHash, q), a, v, q, key, made)
  PROVE  LET verdict == Check(c, made, messageHash, MultiplyPoint(c, a, v), v, q) IN
         /\ verdict # "MATH_ERROR"
         /\ IsOrder(c, v, q) => verdict = "SUCCESSFUL"
PROOF
<1> DEFINE f == Multiple(c, v)
           h == StripMessageHash(messageHash, q)
           b == MultiplyPoint(c, a, v)
           u == Factors(made, h, q)
           u1 == u[1]
           u2 == u[2]
           P1 == MultiplyPoint(c, u1, v)
           P2 == MultiplyPoint(c, u2, b)
           R == AddPoints(c, P1, P2)
<1>1. IsPrime(q) /\ q # 2
  BY DEF DividesOrder
<1>2. q \in Nat \ {0} /\ q \in Nat /\ q > 2 /\ q \in Int /\ \A k \in 1 .. q - 1 : ~Vanishes(q, k)
  BY <1>1, OddPrime
<1>3. h \in Nat
  BY <1>2, StrippedIsNatural
<1> HIDE DEF h
<1>4. /\ u1 \in 1 .. q - 1 /\ u2 \in 1 .. q - 1 /\ Vanishes(q, (u1 + a * u2) - key)
      /\ made[1] = f[key][1] % q
  <2>1. h % q # 0 /\ SignedWith(c, h, a, v, q, key, made)
    BY DEF h
  <2> QED
    BY <1>3, <2>1, SignatureIs
<1>5. key \in 1 .. q - 1
  BY DEF SignedWith
<1> HIDE DEF u1, u2
<1>6. /\ a \in Nat /\ u1 \in Nat /\ u2 \in Nat /\ key \in Nat /\ a * u2 \in Nat
      /\ a \in 0 .. q - 1 /\ u1 \in 0 .. q - 1 /\ u2 \in 0 .. q - 1
  BY <1>2, <1>4, <1>5
<1>7. b = f[a] /\ b \in Elements(c) /\ DividesOrder(c, b, q)
  <2>1. b = f[a]
    BY <1>6, ProductIs
  <2>2. f[a] \in Elements(c) /\ DividesOrder(c, f[a], q)
    BY <1>2, <1>6, MultipleIsPoint
  <2> QED
    BY <2>1, <2>2
<1>8. P1 = f[u1] /\ P1 # None
  BY <1>2, <1>4, <1>6, ProductIs, MultipleIsPoint
<1> HIDE DEF b
<1>9. P2 = f[a * u2] /\ P2 # None
  <2>1. P2 = Multiple(c, b)[u2]
    BY <1>6, <1>7, ProductIs
  <2>2. Multiple(c, b)[u2] # None
    BY <1>2, <1>4, <1>6, <1>7, MultipleIsPoint
  <2>3. Multiple(c, f[a])[u2] = f[a * u2]
    BY <1>6, MultipleProduct
  <2> QED
    BY <1>7, <2>1, <2>2, <2>3
<1>10. f[u1 + a * u2] = Add(c, f[u1], f[a * u2])
  BY <1>6, MultipleSum
<1>11. f[u1 + a * u2] # None
  <2>1. ~Vanishes(q, u1 + a * u2)
    <3> SUFFICES ASSUME Vanishes(q, u1 + a * u2) PROVE FALSE
      OBVIOUS
    <3> DEFINE n == u1 + a * u2
    <3>1. n \in Int /\ n - key \in Int /\ 1 \in Int /\ -1 \in Int
      BY <1>6
    <3>2. Vanishes(q, n) /\ Vanishes(q, n - key)
      BY <1>4
    <3> HIDE DEF n
    <3>3. Vanishes(q, 1 * n + (-1) * (n - key))
      BY <1>2, <3>1, <3>2, ZeroCombined
    <3>4. 1 * n + (-1) * (n - key) = key
      BY <1>6, <3>1
    <3> QED
      BY <1>2, <1>5, <3>3, <3>4
  <2>2. u1 + a * u2 \in Nat
    BY <1>6
  <2> QED
    BY <2>1, <2>2, MultipleIsPoint
<1> HIDE DEF f, P1, P2
<1>12. R = f[u1 + a * u2] /\ R # None
  <2>1. Add(c, P1, P2) = R
    BY <1>8, <1>9, AddIs
  <2> QED
    BY <1>8, <1>9, <1>10, <1>11, <2>1
<1>13. IsOrder(c, v, q) => f[u1 + a * u2] = f[key]
  <2>1. u1 + a * u2 \in Nat
    BY <1>6
  <2> QED
    BY <1>4, <1>6, <2>1, MultiplesAlike DEF f
<1>14. u1 # 0 /\ u2 # 0
  BY <1>2, <1>4
<1>15. Check(c, made, messageHash, b, v, q) =
         IF made[1] = R[1] % q THEN "SUCCESSFUL" ELSE "FAILED"
  <2>1. P1 = MultiplyPoint(c, Factors(made, StripMessageHash(messageHash, q), q)[1], v)
        /\ P2 = MultiplyPoint(c, Factors(made, StripMessageHash(messageHash, q), q)[2], b)
        /\ Factors(made, StripMessageHash(messageHash, q), q)[1] # 0
        /\ Factors(made, StripMessageHash(messageHash, q), q)[2] # 0
    BY <1>14 DEF P1, P2, u1, u2, h
  <2> QED
    BY <1>8, <1>9, <1>12, <2>1 DEF Check
<1>16. made[1] = f[key][1] % q
  BY <1>4 DEF f
<1> HIDE DEF R
<1>17. IsOrder(c, v, q) => R = f[key]
  BY <1>12, <1>13
<1>18. Check(c, made, messageHash, b, v, q) # "MATH_ERROR"
  BY <1>15
<1>19. IsOrder(c, v, q) => Check(c, made, messageHash, b, v, q) = "SUCCESSFUL"
  BY <1>15, <1>16, <1>17
<1> QED
  BY <1>18, <1>19 DEF b

-----------------------------------------------------------------------------
(* The base point of a test.                                               *)

\* TrueOrder is the order, if it is found below three times the modulus.
LEMMA TrueOrderIs ==
  ASSUME m \in Nat, OddCurve(m, group), NEW v \in Elements(group)
  PROVE  IsOrder(group, v, TrueOrder(v))
PROOF
<1> DEFINE f == Multiple(group, v)
           D == 1 .. 3 * m
           Body(h) == [n \in D |-> IF n = 1 THEN v ELSE Plus(h[n - 1], v)]
           multiple == CHOOSE h : h = Body(h)
           first == [n \in D |-> f[n]]
           IsTrue(n, h) == h[n] = None /\ \A k \in 1 .. n - 1 : h[k] # None
<1>1. /\ f[1] = v /\ \A n \in Nat : f[n] \in Elements(group) /\ f[n + 1] = Add(group, f[n], v)
  BY MultipleOne
<1>2. m > 1
  BY OddCurveIs
<1>3. PICK n \in 1 .. 2 * m + 1 : IsOrder(group, v, n)
  BY OrderExists
<1>4. n \in D /\ IsTrue(n, f)
  BY <1>2, <1>3 DEF IsOrder
<1> HIDE DEF f
<1>5. first = Body(first)
  <2>1. ASSUME NEW k \in D PROVE first[k] = Body(first)[k]
    <3>1. CASE k = 1
      BY <1>1, <3>1
    <3>2. CASE k # 1
      <4>1. k - 1 \in D /\ k - 1 \in Nat /\ k - 1 + 1 = k
        BY <3>2
      <4>2. first[k - 1] = f[k - 1] /\ f[k] = Add(group, f[k - 1], v)
        BY <1>1, <4>1
      <4>3. Plus(first[k - 1], v) = f[k]
        BY <4>2, PlusIsAdd
      <4> QED
        BY <3>2, <4>3
    <3> QED
      BY <3>1, <3>2
  <2>2. first = [k \in D |-> first[k]] /\ Body(first) = [k \in D |-> Body(first)[k]]
    OBVIOUS
  <2> HIDE DEF first, Body
  <2> QED
    BY <2>1, <2>2
<1>6. multiple = Body(multiple)
  <2> HIDE DEF Body
  <2> QED
    BY <1>5
<1>7. ASSUME NEW k \in D PROVE multiple[k] = IF k = 1 THEN v ELSE Plus(multiple[k - 1], v)
  <2> HIDE DEF multiple
  <2> QED
    BY <1>6
<1> HIDE DEF multiple
<1> DEFINE S == {k \in 0 .. 3 * m - 1 : multiple[k + 1] = f[k + 1]}
<1>8. 0 \in S
  BY <1>1, <1>2, <1>7
<1>9. ASSUME NEW k \in S, k \in 0 .. 3 * m - 1 - 1 PROVE k + 1 \in S
  <2>1. k + 1 \in 0 .. 3 * m - 1 /\ k + 1 + 1 \in D /\ k + 1 + 1 # 1 /\ k + 1 + 1 - 1 = k + 1
        /\ k + 1 \in Nat
    BY <1>2, <1>9
  <2>2. multiple[k + 1 + 1] = Plus(multiple[k + 1], v)
    BY <1>7, <2>1
  <2>3. f[k + 1 + 1] = Plus(f[k + 1], v)
    BY <1>1, <2>1, PlusIsAdd
  <2> QED
    BY <2>1, <2>2, <2>3
<1>10. \A k \in D : multiple[k] = f[k]
  <2>1. 0 .. 3 * m - 1 \subseteq S
    <3>1. 3 * m - 1 \in Nat
      BY <1>2
    <3> HIDE DEF S
    <3> QED
      BY <1>8, <1>9, <3>1, BoundedInduction
  <2> SUFFICES ASSUME NEW k \in D PROVE multiple[k] = f[k]
    OBVIOUS
  <2>2. k - 1 \in 0 .. 3 * m - 1 /\ k - 1 + 1 = k
    OBVIOUS
  <2> QED
    BY <2>1, <2>2
<1>11. ASSUME NEW k \in D PROVE IsTrue(k, multiple) <=> IsTrue(k, f)
  <2>1. \A l \in 1 .. k - 1 : l \in D
    BY <1>2
  <2> QED
    BY <1>10, <2>1
<1> HIDE DEF IsTrue
<1>12. TrueOrder(v) = CHOOSE k \in D : IsTrue(k, multiple)
  BY DEF TrueOrder, IsTrue, multiple, Body
<1> DEFINE t == CHOOSE k \in D : IsTrue(k, multiple)
<1>13. t \in D /\ IsTrue(t, multiple)
  BY <1>4, <1>11
<1> HIDE DEF t
<1>14. t \in D /\ IsTrue(t, f)
  BY <1>11, <1>13
<1>15. IsOrder(group, v, t)
  BY <1>2, <1>14 DEF IsTrue, f, IsOrder
<1> QED
  BY <1>12, <1>15 DEF t

\* A base point has been picked.
Based == phase \in {"exchange", "sign", "check"}

\* It is then on the curve, as all points seen are, and its order was counted, a
\* prime and the greatest one; the modulus is odd, since the only point there is
\* modulo 2 is its own negative.
BaseInv ==
  Based =>
    /\ m # 2
    /\ g \in Pairs(group) /\ On(group, g) /\ CountOrder(group, g) = order
    /\ order \in Nat /\ order > 2 /\ BruteForceIsPrime(order)
    /\ all \in Seq(Pairs(group))
    /\ \A i \in 1 .. Len(all) :
         /\ On(group, all[i])
         /\ BruteForceIsPrime(CountOrder(group, all[i])) => CountOrder(group, all[i]) <= order

\* Modulo 2, the count stops at once.
LEMMA CountModuloTwo ==
  ASSUME NEW c \in Config(2), NEW P \in InnerPoints(c)
  PROVE  CountOrder(c, P) = 1
PROOF
<1>1. 2 \in Nat /\ 2 > 1 /\ c.m = 2
  BY PairsAre
<1>2. P = <<1, 1>>
  BY <1>1 DEF InnerPoints
<1>3. P \in Pairs(c) /\ P \in Element(c)
  BY <1>1, <1>2 DEF Pairs, Element
<1>4. NegatePoint(c, P) = P
  BY <1>1, <1>2 DEF NegatePoint, Negate
<1>5. Ends(c, P, P, 0)
  <2>1. Stops(c, P)
    BY <1>4 DEF Stops
  <2> QED
    BY <1>1, <1>3, <2>1, EndsNow
<1>6. Counts(c, P)[1][P] = 1 + 0
  <2>1. 0 \in Nat /\ 1 \in Nat
    OBVIOUS
  <2> QED
    BY <1>1, <1>3, <1>5, <2>1, CountedSteps
<1> QED
  BY <1>6 DEF CountOrder, Counts, CountBody

\* Picking a base point makes all of this true.
LEMMA BasePick == IterInv /\ Pick => BaseInv'
PROOF
<1> SUFFICES ASSUME IterInv, Pick PROVE BaseInv'
  OBVIOUS
<1> DEFINE picked == PickRandomG(group, all)
<1>1. /\ phase = "iterate" /\ picked.order >= MinOrder /\ order' = picked.order
      /\ g' \in picked.suitable /\ UNCHANGED <<m, group, all>>
  BY DEF Pick
<1>2. /\ m \in Nat /\ m > 1 /\ BruteForceIsPrime(m) /\ group \in Config(m)
      /\ all \in Seq(Pairs(group)) /\ \A i \in 1 .. Len(all) : On(group, all[i])
  BY <1>1, SeenOnCurve
<1>3. /\ BruteForceIsPrime(picked.order) /\ picked.order \in 1 .. 2 * m + 1
      /\ \A P \in picked.suitable :
           \E i \in 1 .. Len(all) : P = all[i] /\ CountOrder(group, P) = picked.order
      /\ \A i \in 1 .. Len(all) :
           BruteForceIsPrime(CountOrder(group, all[i])) =>
             CountOrder(group, all[i]) <= picked.order
  BY <1>2, PickedOrder
<1> HIDE DEF picked
<1>4. order' \in Nat /\ order' > 2
  BY <1>1, <1>2, <1>3, OrderAssumption
<1>5. PICK i \in 1 .. Len(all) : g' = all[i] /\ CountOrder(group, g') = order'
  BY <1>1, <1>3
<1>6. m # 2
  <2> SUFFICES ASSUME m = 2 PROVE FALSE
    OBVIOUS
  <2>1. all[i] \in Seen
    BY <1>2 DEF Seen
  <2>2. all[i] \in InnerPoints(group)
    BY <1>1, <2>1 DEF IterInv, Before
  <2>3. CountOrder(group, all[i]) = 1
    BY <1>2, <2>2, CountModuloTwo
  <2> QED
    BY <1>4, <1>5, <2>3
<1>7. g' \in Pairs(group) /\ On(group, g')
  BY <1>2, <1>5
<1>8. UNCHANGED <<m, group, all>>
  BY <1>1
<1>9. BruteForceIsPrime(order')
  BY <1>1, <1>3
<1>10. \A k \in 1 .. Len(all) :
         BruteForceIsPrime(CountOrder(group, all[k])) => CountOrder(group, all[k]) <= order'
  BY <1>1, <1>3
<1> QED
  BY <1>2, <1>4, <1>5, <1>6, <1>7, <1>8, <1>9, <1>10 DEF BaseInv

\* Afterwards all of this stays until the end of the test.
LEMMA BaseStays ==
  ASSUME BaseInv, Based' => Based /\ UNCHANGED <<m, group, all, g, order>>
  PROVE  BaseInv'
PROOF
<1> SUFFICES ASSUME Based' PROVE BaseInv'
  BY DEF BaseInv
<1>1. Based /\ UNCHANGED <<m, group, all, g, order>>
  OBVIOUS
<1> QED
  BY <1>1 DEF BaseInv

\* Every step keeps it.
LEMMA BaseNext == IterInv /\ BaseInv /\ [Next]_vars => BaseInv'
PROOF
<1> SUFFICES ASSUME IterInv, BaseInv, [Next]_vars PROVE BaseInv'
  OBVIOUS
<1>1. ASSUME phase' \in {"generate", "iterate"} PROVE BaseInv'
  BY <1>1 DEF BaseInv, Based
<1>2. CASE Generate
  BY <1>1, <1>2 DEF Generate
<1>3. CASE Iterate
  BY <1>1, <1>3 DEF Iterate
<1>4. CASE UnableToPick
  BY <1>1, <1>4 DEF UnableToPick, Count
<1>5. CASE TooLow
  BY <1>1, <1>5 DEF TooLow
<1>6. CASE Pick
  BY <1>6, BasePick
<1>7. CASE Exchange
  <2>1. phase' = "generate" \/ UNCHANGED <<m, group, all, g, order>>
    BY <1>7 DEF Exchange, Count
  <2> QED
    BY <1>1, <1>7, <2>1, BaseStays DEF Exchange, Based
<1>8. CASE SignMessage
  <2>1. phase' = "generate" \/ UNCHANGED <<m, group, all, g, order>>
    BY <1>8 DEF SignMessage, Count
  <2> QED
    BY <1>1, <1>8, <2>1, BaseStays DEF SignMessage, Based
<1>9. CASE CheckSignature
  BY <1>1, <1>9 DEF CheckSignature, Count
<1>10. CASE UNCHANGED vars
  BY <1>10, BaseStays DEF vars, test, Based
<1> QED
  BY <1>2, <1>3, <1>4, <1>5, <1>6, <1>7, <1>8, <1>9, <1>10 DEF Next

\* What follows: the order taken is a prime that divides the order.
LEMMA BasePoint ==
  ASSUME TypeInv, CurveDrawn, BaseInv, Based
  PROVE  /\ OddCurve(m, group) /\ m \in Nat /\ group \in Config(m)
         /\ Curve \cup {None} = Elements(group) /\ Curve = {P \in Pairs(group) : On(group, P)}
         /\ g \in Elements(group) /\ IsPrime(order) /\ order # 2
         /\ DividesOrder(group, g, order)
         /\ IsOrder(group, g, TrueOrder(g))
         /\ TrueOrder(g) = order \/ TrueOrder(g) = 2 * order
PROOF
<1>1. phase # "generate"
  BY DEF Based
<1>2. /\ IsPrime(m) /\ group \in RandomGenerate(m) /\ group \in Config(m)
      /\ Curve \cup {None} = Elements(group) /\ Curve = {P \in Pairs(group) : On(group, P)}
  BY <1>1, CurveOfTest
<1>3. OddCurve(m, group) /\ m \in Nat
  BY <1>2 DEF OddCurve, BaseInv, IsPrime
<1>4. g \in Pairs(group) /\ On(group, g) /\ CountOrder(group, g) = order
  BY DEF BaseInv
<1>5. IsPrime(order) /\ order # 2
  BY TrialProvesPrime DEF BaseInv
<1>6. g \in Elements(group)
  BY <1>2, <1>4, ElementsAre
<1>7. IsOrder(group, g, TrueOrder(g))
  BY <1>3, <1>6, TrueOrderIs
<1> DEFINE n == TrueOrder(g)
<1>8. n = order \/ n = 2 * order
  <2>1. IsOrder(group, g, n)
    BY <1>7
  <2> HIDE DEF n
  <2> QED
    BY <1>3, <1>4, <2>1, CountedOrder
<1>9. DividesOrder(group, g, order)
  <2> SUFFICES ASSUME NEW k \in Nat, Multiple(group, g)[k] = None PROVE Vanishes(order, k)
    BY <1>5 DEF DividesOrder
  <2>1. IsOrder(group, g, n)
    BY <1>7
  <2> HIDE DEF n
  <2>2. Vanishes(n, k)
    BY <1>3, <1>6, <2>1, OrderDivides
  <2>3. PICK j \in Int : k = n * j
    BY <2>2 DEF Vanishes
  <2>4. order \in Int
    BY <1>5 DEF IsPrime
  <2>5. n = 2 * order => k = order * (2 * j) /\ 2 * j \in Int
    BY <2>3, <2>4
  <2> QED
    BY <1>8, <2>3, <2>5 DEF Vanishes
<1> QED
  BY <1>2, <1>3, <1>5, <1>6, <1>7, <1>8, <1>9

-----------------------------------------------------------------------------
(* The orders of points, the exchange and the signature.                   *)

\* What BaseInv says of the order, in terms of TrueOrder and of the points.
LEMMA OrderFactor ==
  ASSUME TypeInv, CurveDrawn, BaseInv
  PROVE  OrderIsPrimeFactor
PROOF
<1> SUFFICES ASSUME phase = "exchange"
             PROVE  /\ BruteForceIsPrime(order)
                    /\ (Cardinality(Curve) + 1) % order = 0
                    /\ TrueOrder(g) \in {order, 2 * order}
                    /\ \A i \in DOMAIN all :
                         BruteForceIsPrime(TrueOrder(all[i])) => TrueOrder(all[i]) <= order
  BY DEF OrderIsPrimeFactor
<1>1. Based
  BY DEF Based
<1>2. /\ OddCurve(m, group) /\ m \in Nat /\ group \in Config(m)
      /\ Curve \cup {None} = Elements(group) /\ Curve = {P \in Pairs(group) : On(group, P)}
      /\ g \in Elements(group) /\ IsPrime(order)
      /\ IsOrder(group, g, TrueOrder(g))
      /\ TrueOrder(g) = order \/ TrueOrder(g) = 2 * order
  BY <1>1, BasePoint
<1>3. /\ BruteForceIsPrime(order) /\ order \in Nat /\ order > 2
      /\ all \in Seq(Pairs(group))
      /\ \A i \in 1 .. Len(all) :
           /\ On(group, all[i])
           /\ BruteForceIsPrime(CountOrder(group, all[i])) => CountOrder(group, all[i]) <= order
  BY <1>1 DEF BaseInv
<1>4. Cardinality(Elements(group)) = Cardinality(Curve) + 1
  <2>1. None \notin Curve
    BY <1>2, OddCurveIs, CurveNumbers
  <2>2. IsFiniteSet(Curve)
    <3>1. IsFiniteSet(Elements(group)) /\ Curve \in SUBSET Elements(group)
      BY <1>2, OrderDividesCount
    <3> QED
      BY <3>1, FS_Subset
  <2> QED
    BY <1>2, <2>1, <2>2, FS_AddElement
<1>5. (Cardinality(Curve) + 1) % order = 0
  <2> DEFINE n == TrueOrder(g)
             s == Cardinality(Elements(group))
  <2>1. s \in Nat /\ Vanishes(n, s)
    BY <1>2, OrderDividesCount
  <2>2. n = order \/ n = 2 * order
    BY <1>2
  <2> HIDE DEF n, s
  <2>3. PICK k \in Int : s = n * k
    BY <2>1 DEF Vanishes
  <2>4. n = 2 * order => s = order * (2 * k) /\ 2 * k \in Int
    BY <1>3, <2>3
  <2>5. Vanishes(order, s)
    BY <2>2, <2>3, <2>4 DEF Vanishes
  <2>6. order \in Nat \ {0} /\ s \in Int
    BY <1>3, <2>1
  <2>7. s % order = 0
    BY <2>5, <2>6, VanishesIs
  <2> QED
    BY <1>4, <2>7 DEF s
<1>6. ASSUME NEW i \in DOMAIN all, BruteForceIsPrime(TrueOrder(all[i]))
      PROVE  TrueOrder(all[i]) <= order
  <2> DEFINE v == all[i]
             n == TrueOrder(v)
  <2>1. /\ v \in Pairs(group) /\ On(group, v)
        /\ BruteForceIsPrime(CountOrder(group, v)) => CountOrder(group, v) <= order
    BY <1>3
  <2> HIDE DEF v
  <2>2. v \in Elements(group)
    BY <1>2, <2>1
  <2>3. IsOrder(group, v, n) /\ BruteForceIsPrime(n)
    <3>1. IsOrder(group, v, TrueOrder(v))
      BY <1>2, <2>2, TrueOrderIs
    <3> QED
      BY <1>6, <3>1 DEF v
  <2> HIDE DEF n
  <2>4. n \in Nat \ {0}
    BY <2>3 DEF IsOrder
  <2>5. CASE n <= 2
    BY <1>3, <2>4, <2>5 DEF n, v
  <2>6. CASE n > 2
    <3>1. IsPrime(n) /\ n # 2
      BY <2>3, <2>4, <2>6, TrialProvesPrime
    <3>2. n = CountOrder(group, v)
      BY <1>2, <2>1, <2>3, <3>1, CountedOrder
    <3> QED
      BY <2>1, <2>3, <3>2 DEF n, v
  <2> QED
    BY <2>4, <2>5, <2>6
<1> QED
  BY <1>2, <1>3, <1>5, <1>6

\* Both sides reach the same multiple of the base point.
LEMMA ViewsAgree ==
  ASSUME TypeInv, CurveDrawn, BaseInv, Based,
         NEW mine \in PrivateKey(order), NEW other \in PrivateKey(order)
  PROVE  Views(mine, other) # None /\ Views(mine, other)[1] = Views(mine, other)[2]
PROOF
<1> DEFINE f == Multiple(group, g)
           A == AssemblePublicKey(group, mine, g)
           B == AssemblePublicKey(group, other, g)
           CA == AssembleCommonKey(group, mine, B)
           CB == AssembleCommonKey(group, other, A)
<1>1. /\ OddCurve(m, group) /\ g \in Elements(group) /\ IsPrime(order) /\ order # 2
      /\ DividesOrder(group, g, order)
  BY BasePoint
<1>2. order \in Nat
  BY <1>1 DEF IsPrime
<1>3. ASSUME NEW v \in Elements(group), DividesOrder(group, v, order), NEW k \in PrivateKey(order)
      PROVE  /\ MultiplyPoint(group, k, v) = Multiple(group, v)[k]
             /\ Multiple(group, v)[k] # None /\ Multiple(group, v)[k] \in Elements(group)
             /\ DividesOrder(group, Multiple(group, v)[k], order)
  <2>1. k \in 1 .. order - 1
    BY DEF PrivateKey
  <2>2. k \in 0 .. order - 1 /\ k \in Nat
    BY <1>2, <2>1
  <2>3. ~Vanishes(order, k)
    BY <1>1, <2>1, OddPrime
  <2>4. MultiplyPoint(group, k, v) = Multiple(group, v)[k]
    BY <1>1, <1>3, <2>2, ProductIs
  <2> QED
    BY <1>1, <1>3, <2>2, <2>3, <2>4, MultipleIsPoint
<1>4. A = f[mine] /\ A # None /\ A \in Elements(group) /\ DividesOrder(group, A, order)
  BY <1>1, <1>3 DEF AssemblePublicKey
<1>5. B = f[other] /\ B # None /\ B \in Elements(group) /\ DividesOrder(group, B, order)
  BY <1>1, <1>3 DEF AssemblePublicKey
<1> HIDE DEF A, B, f
<1>6. CA = Multiple(group, B)[mine] /\ CA # None
  BY <1>3, <1>5 DEF AssembleCommonKey
<1>7. CB = Multiple(group, A)[other] /\ CB # None
  BY <1>3, <1>4 DEF AssembleCommonKey
<1>8. mine \in Nat /\ other \in Nat /\ mine * other = other * mine
  BY <1>2 DEF PrivateKey
<1>9. CA = f[other * mine] /\ CB = f[mine * other]
  <2>1. Multiple(group, f[other])[mine] = f[other * mine]
    BY <1>1, <1>8, MultipleProduct DEF f
  <2>2. Multiple(group, f[mine])[other] = f[mine * other]
    BY <1>1, <1>8, MultipleProduct DEF f
  <2> QED
    BY <1>4, <1>5, <1>6, <1>7, <2>1, <2>2
<1> HIDE DEF CA, CB
<1>10. CA = CB
  BY <1>8, <1>9
<1>11. Views(mine, other) = <<CA, CB>>
  BY <1>4, <1>5, <1>6, <1>7 DEF Views, A, B, CA, CB
<1>12. ASSUME NEW x, NEW y, x = y PROVE <<x, y>> # None /\ <<x, y>>[1] = <<x, y>>[2]
  BY <1>12 DEF None
<1> QED
  BY <1>10, <1>11, <1>12

\* So an exchange counts a success.
LEMMA ExchangeSucceeds ==
  ASSUME TypeInv, CurveDrawn, BaseInv, [Next]_vars, phase = "exchange"
  PROVE  counter' = [counter EXCEPT !["exchangeSuccesses"] = @ + 1] \/ UNCHANGED vars
PROOF
<1>1. Exchange \/ UNCHANGED vars
  BY DEF Next, Generate, Iterate, UnableToPick, TooLow, Pick, SignMessage, CheckSignature
<1>2. CASE Exchange
  <2>1. PICK mine \in PrivateKey(order), other \in PrivateKey(order) :
          LET views == Views(mine, other) IN
          IF views = None THEN Count("exchangeMathFails")
          ELSE counter' = IF views[1] = views[2]
                            THEN [counter EXCEPT !["exchangeSuccesses"] = @ + 1]
                            ELSE [counter EXCEPT !["exchangeFails"] = @ + 1]
    BY <1>2 DEF Exchange
  <2>2. Views(mine, other) # None /\ Views(mine, other)[1] = Views(mine, other)[2]
    BY ViewsAgree DEF Based
  <2> DEFINE views == Views(mine, other)
  <2> HIDE DEF views
  <2>3. views # None /\ views[1] = views[2]
    BY <2>2 DEF views
  <2>4. IF views = None THEN Count("exchangeMathFails")
        ELSE counter' = IF views[1] = views[2]
                          THEN [counter EXCEPT !["exchangeSuccesses"] = @ + 1]
                          ELSE [counter EXCEPT !["exchangeFails"] = @ + 1]
    BY <2>1 DEF views
  <2> QED
    BY <2>3, <2>4
<1> QED
  BY <1>1, <1>2

\* Alice's key is one that was drawn, and the signature one that Sign made.
SignedInv ==
  /\ phase \in {"sign", "check"} => alice \in PrivateKey(order)
  /\ phase = "check" =>
       /\ hash \in Nat /\ StripMessageHash(hash, order) % order # 0
       /\ \E key : SignedWith(group, StripMessageHash(hash, order), alice, g, order, key, signature)

\* The exchange draws Alice's key.
LEMMA SignedExchange == SignedInv /\ Exchange => SignedInv'
PROOF
<1> SUFFICES ASSUME SignedInv, Exchange PROVE SignedInv'
  OBVIOUS
<1>1. \/ phase' = "generate"
      \/ alice' \in PrivateKey(order) /\ phase' = "sign" /\ order' = order
  <2>1. PICK private \in PrivateKey(order), bob \in PrivateKey(order) :
          LET views == Views(private, bob) IN
          IF views = None THEN Count("exchangeMathFails")
          ELSE alice' = private /\ phase' = "sign" /\ order' = order
    BY DEF Exchange
  <2> DEFINE views == Views(private, bob)
  <2> HIDE DEF views
  <2>2. IF views = None THEN Count("exchangeMathFails")
        ELSE alice' = private /\ phase' = "sign" /\ order' = order
    BY <2>1 DEF views
  <2> QED
    BY <2>2 DEF Count
<1> QED
  BY <1>1 DEF SignedInv, PrivateKey

\* Signing makes the signature with it.
LEMMA SignedMessage == SignedInv /\ SignMessage => SignedInv'
PROOF
<1> SUFFICES ASSUME SignedInv, SignMessage PROVE SignedInv'
  OBVIOUS
<1>1. PICK messageHash \in Hashes :
        \E made \in Sign(group, messageHash, alice, g, order) :
          \/ made = None /\ Count("signatureNotCalculatedFails")
          \/ /\ made # None /\ hash' = messageHash /\ signature' = made /\ phase' = "check"
             /\ UNCHANGED <<group, g, order, alice>>
  BY DEF SignMessage
<1>2. PICK made \in Sign(group, messageHash, alice, g, order) :
        \/ made = None /\ Count("signatureNotCalculatedFails")
        \/ /\ made # None /\ hash' = messageHash /\ signature' = made /\ phase' = "check"
           /\ UNCHANGED <<group, g, order, alice>>
  BY <1>1
<1>3. CASE made = None /\ Count("signatureNotCalculatedFails")
  BY <1>3 DEF SignedInv, Count
<1>4. CASE /\ made # None /\ hash' = messageHash /\ signature' = made /\ phase' = "check"
           /\ UNCHANGED <<group, g, order, alice>>
  <2> DEFINE h == StripMessageHash(messageHash, order)
  <2>1. h % order # 0 /\ \E key \in 1 .. order - 1 : made = Attempt(group, h, alice, g, order, key)
    <3> HIDE DEF h
    <3>1. made \in IF h % order = 0 \/ {Attempt(group, h, alice, g, order, key) :
                                          key \in 1 .. order - 1} \ {None} = {}
                     THEN {None}
                     ELSE {Attempt(group, h, alice, g, order, key) :
                             key \in 1 .. order - 1} \ {None}
      BY <1>2 DEF Sign, h
    <3> QED
      BY <1>4, <3>1
  <2>2. \E key : SignedWith(group, h, alice, g, order, key, made)
    BY <1>4, <2>1 DEF SignedWith
  <2>3. messageHash \in Nat
    BY HashesAssumption
  <2>4. alice \in PrivateKey(order)
    BY DEF SignMessage, SignedInv
  <2>5. StripMessageHash(hash, order)' = h
    BY <1>4 DEF StripMessageHash
  <2>6. (\E key : SignedWith(group, StripMessageHash(hash, order), alice, g, order, key, signature))'
    <3>1. PICK key : SignedWith(group, h, alice, g, order, key, made)
      BY <2>2
    <3> HIDE DEF h
    <3>2. UNCHANGED <<group, g, order, alice>> /\ signature' = made
      BY <1>4
    <3>3. SignedWith(group', h, alice', g', order', key, signature')
      BY <3>1, <3>2
    <3> QED
      BY <2>5, <3>3
  <2>7. hash' \in Nat /\ (StripMessageHash(hash, order) % order # 0)'
    BY <1>4, <2>1, <2>3, <2>5
  <2>8. (alice \in PrivateKey(order))'
    BY <1>4, <2>4 DEF PrivateKey
  <2> QED
    BY <2>6, <2>7, <2>8 DEF SignedInv
<1> QED
  BY <1>2, <1>3, <1>4

\* No other step touches them before the test is over.
LEMMA SignedNext == SignedInv /\ [Next]_vars => SignedInv'
PROOF
<1> SUFFICES ASSUME SignedInv, [Next]_vars PROVE SignedInv'
  OBVIOUS
<1>1. ASSUME phase' \in {"generate", "iterate", "exchange"} PROVE SignedInv'
  BY <1>1 DEF SignedInv
<1>2. CASE Generate
  BY <1>1, <1>2 DEF Generate
<1>3. CASE Iterate
  BY <1>1, <1>3 DEF Iterate
<1>4. CASE UnableToPick
  BY <1>1, <1>4 DEF UnableToPick, Count
<1>5. CASE TooLow
  BY <1>1, <1>5 DEF TooLow
<1>6. CASE Pick
  BY <1>1, <1>6 DEF Pick
<1>7. CASE Exchange
  BY <1>7, SignedExchange
<1>8. CASE SignMessage
  BY <1>8, SignedMessage
<1>9. CASE CheckSignature
  BY <1>1, <1>9 DEF CheckSignature, Count
<1>10. CASE UNCHANGED vars
  <2>1. UNCHANGED <<phase, group, g, order, alice, hash, signature>>
    BY <1>10 DEF vars, test
  <2>2. StripMessageHash(hash, order)' = StripMessageHash(hash, order)
    BY <2>1
  <2> QED
    BY <2>1, <2>2 DEF SignedInv
<1> QED
  BY <1>2, <1>3, <1>4, <1>5, <1>6, <1>7, <1>8, <1>9, <1>10 DEF Next

\* So the check of a signature is the one of CheckIs.
LEMMA RightOrderAccepted ==
  ASSUME TypeInv, CurveDrawn, BaseInv, SignedInv
  PROVE  RightOrderIsAccepted
PROOF
<1> SUFFICES ASSUME phase = "check"
             PROVE  Verdict # "MATH_ERROR" /\ (TrueOrder(g) = order => Verdict = "SUCCESSFUL")
  BY DEF RightOrderIsAccepted
<1>1. Based
  BY DEF Based
<1>2. /\ OddCurve(m, group) /\ g \in Elements(group) /\ DividesOrder(group, g, order)
      /\ IsOrder(group, g, TrueOrder(g))
  BY <1>1, BasePoint
<1>3. /\ alice \in 1 .. order - 1 /\ hash \in Nat /\ StripMessageHash(hash, order) % order # 0
      /\ \E key : SignedWith(group, StripMessageHash(hash, order), alice, g, order, key, signature)
  BY DEF SignedInv, PrivateKey
<1>4. PICK key : SignedWith(group, StripMessageHash(hash, order), alice, g, order, key, signature)
  BY <1>3
<1> DEFINE verdict == Check(group, signature, hash, MultiplyPoint(group, alice, g), g, order)
<1>5. verdict # "MATH_ERROR" /\ (IsOrder(group, g, order) => verdict = "SUCCESSFUL")
  BY <1>2, <1>3, <1>4, CheckIs
<1>6. Verdict = verdict
  BY DEF Verdict, AssemblePublicKey
<1> HIDE DEF verdict
<1> QED
  BY <1>2, <1>5, <1>6

\* What is true of the group and the base point in every state.
LEMMA BaseHolds == Spec => [](TypeInv /\ CurveDrawn /\ BaseInv /\ SignedInv)
PROOF
<1>1. Spec => []IterInv
  <2>1. Init => IterInv
    BY DEF Init, IterInv
  <2> QED
    BY <2>1, IterNext, PTL DEF Spec
<1>2. Spec => []TypeInv
  BY <1>1, TypeInit, TypeNext, PTL DEF Spec
<1>3. Init => CurveDrawn /\ BaseInv /\ SignedInv
  BY DEF Init, CurveDrawn, BaseInv, Based, SignedInv
<1> QED
  BY <1>1, <1>2, <1>3, CurveDrawnNext, BaseNext, SignedNext, PTL DEF Spec

\* What PickRandomG takes for the order is a prime and divides the number of
\* points; it is the order of the base point or half of it, and no point seen
\* has a greater prime order.
THEOREM OrdersAreFactors == Spec => []OrderIsPrimeFactor
  BY BaseHolds, OrderFactor, PTL

\* Every exchange of keys succeeds.
THEOREM KeysAgree == Spec => ExchangesAgree
PROOF
<1>1. TypeInv /\ CurveDrawn /\ BaseInv /\ SignedInv /\ [Next]_vars =>
        [phase = "exchange" => counter' = [counter EXCEPT !["exchangeSuccesses"] = @ + 1]]_vars
  BY ExchangeSucceeds
<1> QED
  BY <1>1, BaseHolds, PTL DEF Spec, ExchangesAgree

\* A signature made with a base point of the order that was taken is accepted,
\* and no check of a signature meets the infinite point.
THEOREM SignaturesAccepted == Spec => []RightOrderIsAccepted
  BY BaseHolds, RightOrderAccepted, PTL
===============================================================================
