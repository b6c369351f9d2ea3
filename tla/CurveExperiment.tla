--------------------------- MODULE CurveExperiment ---------------------------
(***************************************************************************)
(* The experiment of Lab4/Main.cpp: tests of the key exchange and of the   *)
(* signature, each on a random curve, with random keys and a random        *)
(* message. What rand may return is what the model chooses from.           *)
(***************************************************************************)
EXTENDS EllipticGroup, FiniteSets

CONSTANTS
  Moduli,     \* the values of M to run the program with, primes
  Hashes,     \* the hashes of messages
  MinOrder,   \* MIN_ORDER_FOR_OK_GROUP
  TestCount   \* TEST_COUNT

ASSUME ModuliAssumption ==
  \A m \in Moduli : m \in Nat /\ m > 1 /\ BruteForceIsPrime(m)
ASSUME OrderAssumption == MinOrder \in Nat \ {0, 1, 2}
ASSUME CountAssumption == TestCount \in Nat
ASSUME HashesAssumption == Hashes \subseteq Nat

VARIABLES
  m,          \* M, the argument of the program
  phase,      \* where in the body of the loop the program is
  index,      \* tests counted
  counter,    \* the seven counters it prints
  group,      \* the curve
  iterator,   \* the iterator of PickRandomG over the points
  all,        \* the points it has seen
  g, order,   \* the base point and what is taken for its order
  alice,      \* Alice's private key, with which she signs too
  hash, signature  \* the message and what Sign returned

test == <<group, iterator, all, g, order, alice, hash, signature>>
vars == <<m, phase, index, counter, test>>

Counter == {"exchangeSuccesses", "exchangeFails", "exchangeMathFails",
            "signatureSuccesses", "signatureFails",
            "signatureNotCalculatedFails", "signatureMathFails"}

Point == (0 .. m - 1) \X (0 .. m - 1)

TypeOK ==
  /\ m \in Moduli
  /\ phase \in {"generate", "iterate", "exchange", "sign", "check"}
  /\ index \in 0 .. TestCount
  /\ counter \in [Counter -> 0 .. TestCount]
  /\ group \in Config(m) \cup {None}
  /\ all \in Seq(Point)
  /\ g \in Point \cup {None}
  /\ order \in 0 .. 2 * m + 1
  /\ alice \in 0 .. 2 * m
  /\ hash \in Hashes \cup {0}
  /\ signature \in {None} \cup ((0 .. 2 * m) \X (0 .. 2 * m))

Forget ==
  /\ group' = None /\ iterator' = None /\ all' = <<>>
  /\ g' = None /\ order' = 0 /\ alice' = 0
  /\ hash' = 0 /\ signature' = None

Init ==
  /\ m \in Moduli
  /\ phase = "generate" /\ index = 0 /\ counter = [c \in Counter |-> 0]
  /\ group = None /\ iterator = None /\ all = <<>>
  /\ g = None /\ order = 0 /\ alice = 0
  /\ hash = 0 /\ signature = None

-----------------------------------------------------------------------------

\* The end of a test: what it was is counted, its locals go.
Count(c) ==
  /\ counter' = [counter EXCEPT ![c] = @ + 1]
  /\ index' = index + 1
  /\ phase' = "generate"
  /\ Forget

Generate ==
  /\ phase = "generate"
  /\ index < TestCount
  /\ phase' = "iterate"
  /\ \E drawn \in RandomGenerate(m) :
       group' = drawn /\ iterator' = Begin(drawn)
  /\ UNCHANGED <<m, index, counter, all, g, order, alice, hash, signature>>

Iterate ==
  /\ phase = "iterate"
  /\ ~AtEnd(group, iterator)
  /\ all' = Append(all, <<iterator.x, iterator.y>>)
  /\ iterator' = Advance(group, iterator)
  /\ UNCHANGED <<m, phase, index, counter, group, g, order, alice, hash, signature>>

UnableToPick ==
  /\ phase = "iterate"
  /\ AtEnd(group, iterator)
  /\ PickRandomG(group, all).suitable = {}
  /\ Count("exchangeMathFails")
  /\ UNCHANGED m

\* Mutant: the index steps back although the loop does not step it on.
TooLowTwice ==
  /\ phase = "iterate" /\ AtEnd(group, iterator)
  /\ PickRandomG(group, all).order < MinOrder
  /\ index' = index - 1
  /\ phase' = "generate"
  /\ Forget
  /\ UNCHANGED <<m, counter>>

\* Mutant: the index does not step back.
TooLowCounted ==
  /\ phase = "iterate" /\ AtEnd(group, iterator)
  /\ PickRandomG(group, all).order < MinOrder
  /\ index' = index + 1
  /\ phase' = "generate"
  /\ Forget
  /\ UNCHANGED <<m, counter>>

\* A group whose order is too low is thrown away, and the test done again.
TooLow ==
  /\ phase = "iterate"
  /\ AtEnd(group, iterator)
  /\ PickRandomG(group, all).suitable # {}
  /\ PickRandomG(group, all).order < MinOrder
  /\ phase' = "generate"
  /\ Forget
  /\ UNCHANGED <<m, index, counter>>

Pick ==
  /\ phase = "iterate"
  /\ AtEnd(group, iterator)
  /\ LET picked == PickRandomG(group, all) IN
       /\ picked.order >= MinOrder
       /\ order' = picked.order
       /\ g' \in picked.suitable
  /\ phase' = "exchange"
  /\ UNCHANGED <<m, index, counter, group, iterator, all, alice, hash, signature>>

\* The two sides' views of the common key; None when one of the keys is not a
\* point, which value () throws for.
Views(mine, other) ==
  LET minePublic == AssemblePublicKey(group, mine, g)
      otherPublic == AssemblePublicKey(group, other, g)
      mineCommon == AssembleCommonKey(group, mine, otherPublic)
      otherCommon == AssembleCommonKey(group, other, minePublic)
  IN  IF minePublic = None \/ otherPublic = None THEN None
      ELSE IF mineCommon = None \/ otherCommon = None THEN None
      ELSE <<mineCommon, otherCommon>>

\* What becomes of an exchange; the keys end with the test when one throws.
Exchange ==
  /\ phase = "exchange"
  /\ \E private \in PrivateKey(order), bob \in PrivateKey(order) :
       LET views == Views(private, bob) IN
       IF views = None THEN Count("exchangeMathFails")
       ELSE /\ counter' =
                 IF views[1] = views[2]
                   THEN [counter EXCEPT !["exchangeSuccesses"] = @ + 1]
                   ELSE [counter EXCEPT !["exchangeFails"] = @ + 1]
            /\ alice' = private
            /\ phase' = "sign"
            /\ UNCHANGED <<index, group, iterator, all, g, order, hash, signature>>
  /\ UNCHANGED m

SignMessage ==
  /\ phase = "sign"
  /\ \E messageHash \in Hashes :
       \E made \in Sign(group, messageHash, alice, g, order) :
         \/ made = None /\ Count("signatureNotCalculatedFails")
         \/ /\ made # None
            /\ hash' = messageHash
            /\ signature' = made
            /\ phase' = "check"
            /\ UNCHANGED <<index, counter, group, iterator, all, g, order, alice>>
  /\ UNCHANGED m

Verdict ==
  Check(group, signature, hash, AssemblePublicKey(group, alice, g), g, order)

CheckSignature ==
  /\ phase = "check"
  /\ Count(CASE Verdict = "SUCCESSFUL" -> "signatureSuccesses"
             [] Verdict = "MATH_ERROR" -> "signatureMathFails"
             [] Verdict = "FAILED"     -> "signatureFails")
  /\ UNCHANGED m

Next ==
  \/ Generate \/ Iterate
  \/ UnableToPick \/ TooLow \/ Pick
  \/ Exchange \/ SignMessage \/ CheckSignature

Spec == Init /\ [][Next]_vars
-----------------------------------------------------------------------------
(* Properties. *)

Curve == {p \in Point : (p[2] * p[2] - RightSide(group, p[1])) % m = 0}

\* Addition with None for the infinite point, which AddPoints has no case for.
Plus(p, q) == CASE p = None -> q
                [] q = None -> p
                [] OTHER    -> AddPoints(group, p, q)

\* The order of a point, by the definition of order.
TrueOrder(p) ==
  LET multiple[n \in 1 .. 3 * m] ==
        IF n = 1 THEN p ELSE Plus(multiple[n - 1], p)
  IN  CHOOSE n \in 1 .. 3 * m : /\ multiple[n] = None
                                /\ \A k \in 1 .. n - 1 : multiple[k] # None

Iterated == phase = "iterate" /\ AtEnd(group, iterator)

\* AddPoints, with an empty optional for the infinite point, is the addition of
\* a commutative group: its results are on the curve, the order of the summands
\* and of two additions makes no difference, and Negate gives the inverse.
PointsFormAGroup ==
  Iterated =>
    LET Elements == Curve \cup {None}
    IN  /\ \A p, q \in Elements : /\ Plus(p, q) \in Elements
                                  /\ Plus(p, q) = Plus(q, p)
        /\ \A p, q, r \in Elements : Plus(Plus(p, q), r) = Plus(p, Plus(q, r))
        /\ \A p \in Curve : Plus(p, NegatePoint(group, p)) = None

\* The iterator visits every point of the curve with two coordinates above 0,
\* and each of them once. It visits no other: see AllPointsAreSeen.
IteratesInnerPoints ==
  Iterated =>
    /\ {all[i] : i \in DOMAIN all} = {p \in Curve : p[1] # 0 /\ p[2] # 0}
    /\ \A i, j \in DOMAIN all : all[i] = all[j] => i = j

\* What src/Lab4/README.md:27 says of the choice of G: it goes over all points.
\* The code starts at x = 1 and looks for roots from 1 on, so it leaves out the
\* points on both axes (EM.cpp:88).
AllPointsAreSeen ==
  Iterated => Curve \subseteq {all[i] : i \in DOMAIN all}

\* The order of G is a prime that divides the number of points; the true order
\* of G is that or twice that; and no point visited has a greater prime order.
OrderIsPrimeFactor ==
  phase = "exchange" =>
    /\ BruteForceIsPrime(order)
    /\ (Cardinality(Curve) + 1) % order = 0
    /\ TrueOrder(g) \in {order, 2 * order}
    /\ \A i \in DOMAIN all :
         BruteForceIsPrime(TrueOrder(all[i])) => TrueOrder(all[i]) <= order

\* What README.md:29 says of G: it meets all the requirements to G and n, the
\* order of G being n. PickRandomG stops counting at the point of order 2.
OrderIsExact == phase = "exchange" => TrueOrder(g) = order

\* A key exchange, once there is a G, never meets the infinite point, and the
\* two sides agree, whether or not the order is right.
ExchangesAgree ==
  [][phase = "exchange" =>
       counter' = [counter EXCEPT !["exchangeSuccesses"] = @ + 1]]_vars

\* A signature that was made is accepted if the order of G is right; if it is
\* not, the check may refuse it, but it never runs into the infinite point.
RightOrderIsAccepted ==
  phase = "check" =>
    /\ Verdict # "MATH_ERROR"
    /\ TrueOrder(g) = order => Verdict = "SUCCESSFUL"

\* Every test that is counted has one outcome of the exchange and, if that did
\* not throw, one of the signature; tests that are done again have none.
EveryTestIsCounted ==
  LET exchanged == counter["exchangeSuccesses"] + counter["exchangeFails"]
      signed == counter["signatureSuccesses"] + counter["signatureFails"]
                + counter["signatureNotCalculatedFails"]
                + counter["signatureMathFails"]
      inside == IF phase \in {"sign", "check"} THEN 1 ELSE 0
  IN  /\ exchanged + counter["exchangeMathFails"] = index + inside
      /\ signed + inside = exchanged
===============================================================================
