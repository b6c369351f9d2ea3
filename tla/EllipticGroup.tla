---------------------------- MODULE EllipticGroup ----------------------------
(***************************************************************************)
(* The points of an elliptic curve y^2 = x^3 + a x + b over the integers   *)
(* modulo a small prime (Lab4/EM.cpp, Lab4/MathUtils.cpp).                 *)
(*                                                                         *)
(* Integers are not given a width: the code's 64 bits hold every value it  *)
(* computes while the cube of the modulus does.                            *)
(***************************************************************************)
EXTENDS Integers, Sequences

\* Group::Config. Modulo (a, m) is a % m: both are never negative.
Config(m) == [m : {m}, a : 1 .. m - 1, b : 1 .. m - 1]

\* An empty optional: no point, and what the code takes for the infinite one.
None == <<>>

Negate(group, arg) == (group.m - (arg % group.m)) % group.m
NegatePoint(group, p) == <<p[1], Negate(group, p[2])>>

BruteForceIsPrime(arg) ==
  \A divCheck \in 2 .. arg : divCheck * divCheck <= arg => arg % divCheck # 0

\* The least root above 0, or 0 for none.
SquareRootModulus(argument, modulus) ==
  LET Roots == {r \in 1 .. modulus \div 2 :
                  (r * r) % modulus = argument % modulus}
  IN  IF Roots = {} THEN 0 ELSE CHOOSE r \in Roots : \A q \in Roots : r <= q

\* boost::integer::mod_inverse: 0 when there is none.
ModInverse(arg, modulus) ==
  LET Inverses == {i \in 1 .. modulus - 1 : (arg * i) % modulus = 1}
  IN  IF Inverses = {} THEN 0 ELSE CHOOSE i \in Inverses : TRUE

\* RandomGenerate: it draws again while the curve is singular.
RandomGenerate(m) ==
  {group \in Config(m) :
     (4 * group.a * group.a * group.a + 27 * group.b * group.b) % m # 0}

-----------------------------------------------------------------------------
(* The iterator over the points: y is 0 where the code has no value.       *)

RightSide(group, x) == x * x * x + group.a * x + group.b

\* UpdateCurrentY: the lesser of the two roots.
CurrentY(group, x) ==
  LET root == SquareRootModulus(RightSide(group, x), group.m) IN
  IF 0 < x /\ x < group.m
    THEN IF root # 0 /\ Negate(group, root) < root THEN Negate(group, root)
                                                   ELSE root
    ELSE 0

\* The iterator at the first x from this one on that has a y, or at the end.
At(group, x) ==
  LET next == CHOOSE n \in x .. group.m :
                /\ n = group.m \/ CurrentY(group, n) # 0
                /\ \A k \in x .. n - 1 : CurrentY(group, k) = 0
  IN  [x |-> next, y |-> CurrentY(group, next)]

Begin(group) == At(group, 1)
AtEnd(group, it) == it.x = group.m

\* Mutant: the second root of an x is left out.
AdvanceSkips(group, it) == At(group, it.x + 1)

Advance(group, it) ==
  IF it.y # 0 /\ Negate(group, it.y) > it.y
    THEN [it EXCEPT !.y = Negate(group, it.y)]
    ELSE At(group, it.x + 1)

-----------------------------------------------------------------------------
(* Addition and multiplication. *)

\* Mutant: the slope of a tangent leaves the coefficient a out.
SlopeFlat(group, first, second) ==
  IF first # second THEN <<first[2] - second[2], first[1] - second[1]>>
                    ELSE <<3 * first[1] * first[1], 2 * first[2]>>

\* The slope of the line through two points, a fraction.
Slope(group, first, second) ==
  IF first # second
    THEN <<first[2] - second[2], first[1] - second[1]>>
    ELSE <<3 * first[1] * first[1] + group.a, 2 * first[2]>>

AddPoints(group, first, second) ==
  LET slope == Slope(group, first, second)
      inverse == ModInverse(slope[2] % group.m, group.m)
      m == ((slope[1] % group.m) * inverse) % group.m
      x == (m * m - first[1] - second[1]) % group.m
      y == (first[2] + m * ((x - first[1]) % group.m)) % group.m
  IN  IF inverse = 0 THEN None ELSE NegatePoint(group, <<x, y>>)

\* A point of the group, or none.
Pairs(group) == (0 .. group.m - 1) \X (0 .. group.m - 1)
Element(group) == {None} \cup Pairs(group)

\* Binary multiplication. It doubles once more than it needs to, and gives up
\* when a doubling or an addition does.
MultiplyPoint(group, times, point) ==
  LET multiply[left \in 0 .. times] ==
        [result \in Element(group) |-> [temp \in Pairs(group) |->
          LET sum == IF left % 2 = 0 THEN result
                     ELSE IF result = None THEN temp
                     ELSE AddPoints(group, result, temp)
              double == AddPoints(group, temp, temp)
          IN  IF left = 0 THEN result
              ELSE IF double = None \/ (left % 2 = 1 /\ sum = None) THEN None
              ELSE multiply[left \div 2][sum][double]]]
  IN  multiply[times][None][point]

-----------------------------------------------------------------------------
(* The choice of the base point. *)

\* The order PickRandomG counts: it stops at a point that is its own negative.
CountOrder(group, value) ==
  LET count[order \in Nat] ==
        [temp \in Element(group) |->
          IF temp = None \/ temp = NegatePoint(group, temp)
            THEN order
            ELSE count[order + 1][AddPoints(group, temp, value)]]
  IN  count[1][value]

\* Mutant: any order is taken, prime or not.
BetterOrderAny(order, maxOrder) == order > maxOrder

BetterOrder(order, maxOrder) == order > maxOrder /\ BruteForceIsPrime(order)

\* The greatest prime order of the points, and the points that have it, one of
\* which is picked at random. An order of 1 needs no prime.
PickRandomG(group, all) ==
  LET Order == [i \in DOMAIN all |-> CountOrder(group, all[i])]
      best[i \in 0 .. Len(all)] ==
        IF i = 0 THEN 1
        ELSE IF BetterOrder(Order[i], best[i - 1]) THEN Order[i] ELSE best[i - 1]
      maxOrder == best[Len(all)]
  IN  [order |-> maxOrder,
       suitable |-> {all[i] : i \in {j \in DOMAIN all : Order[j] = maxOrder}}]

\* Mutant: the remainder is by the order itself.
PrivateKeyAny(order) == 1 .. order

\* GeneratePrivateKey: the multipliers it draws from.
PrivateKey(order) == 1 .. order - 1

AssemblePublicKey(group, privateKey, g) == MultiplyPoint(group, privateKey, g)

AssembleCommonKey(group, mine, other) == MultiplyPoint(group, mine, other)

-----------------------------------------------------------------------------
(* Signatures. A message is its hash. *)

\* The bits of the hash that the order has.
StripMessageHash(messageHash, gOrder) ==
  LET twoTo[n \in 0 .. gOrder] == IF n = 0 THEN 1 ELSE 2 * twoTo[n - 1]
      bits == CHOOSE n \in 1 .. gOrder : twoTo[n - 1] <= gOrder /\ gOrder < twoTo[n]
  IN  messageHash % twoTo[bits]

\* One attempt of Sign with a key of its own: None when it has to try another.
Attempt(group, hash, privateKey, g, gOrder, key) ==
  LET temp == MultiplyPoint(group, key, g)
      r == temp[1] % gOrder
      kInverse == ModInverse(key, gOrder)
      s == (kInverse * (hash + r * privateKey)) % gOrder
  IN  IF temp = None THEN None
      ELSE IF r = 0 \/ kInverse = 0 \/ s = 0 THEN None ELSE <<r, s>>

\* What Sign may return: it tries all keys below the order in a random order.
Sign(group, messageHash, privateKey, g, gOrder) ==
  LET hash == StripMessageHash(messageHash, gOrder)
      Made == {Attempt(group, hash, privateKey, g, gOrder, key) :
                 key \in 1 .. gOrder - 1} \ {None}
  IN  IF hash % gOrder = 0 \/ Made = {} THEN {None} ELSE Made

\* Mutant: the two factors are taken for each other.
FactorsSwapped(signature, hash, gOrder) ==
  LET sInverse == ModInverse(signature[2], gOrder)
  IN  <<(sInverse * signature[1]) % gOrder, (sInverse * hash) % gOrder>>

\* The multiples of g and of the public key that the check adds, 0 for none.
Factors(signature, hash, gOrder) ==
  LET sInverse == ModInverse(signature[2], gOrder)
  IN  <<(sInverse * hash) % gOrder, (sInverse * signature[1]) % gOrder>>

Check(group, signature, messageHash, publicKey, g, gOrder) ==
  LET u == Factors(signature, StripMessageHash(messageHash, gOrder), gOrder)
      u1G == MultiplyPoint(group, u[1], g)
      u2H == MultiplyPoint(group, u[2], publicKey)
      result == AddPoints(group, u1G, u2H)
  IN  IF u[1] = 0 \/ u[2] = 0 THEN "MATH_ERROR"
      ELSE IF u1G = None \/ u2H = None THEN "MATH_ERROR"
      ELSE IF result = None THEN "MATH_ERROR"
      ELSE IF signature[1] = result[1] % gOrder THEN "SUCCESSFUL" ELSE "FAILED"
===============================================================================
