---------------------------- MODULE Ciphers_proof ----------------------------
(***************************************************************************)
(* Proofs about the two ciphers, for all sizes of their numbers. About     *)
(* IDEA and its chaining: that the subkeys of decrypt are the inverses of  *)
(* those of encrypt, that every step of a round is undone by the one with  *)
(* the inverse subkeys, and with it that decoding undoes encoding, unless  *)
(* a subkey is zero. About RSA and the numbers as they are put into        *)
(* buffers: that a number that fills its place is read back, that decoding *)
(* returns what was encoded, by Fermat's little theorem, and with it that  *)
(* a client reads the session's key, unless a number begins with a zero.   *)
(***************************************************************************)
EXTENDS Idea, KeyCodec, NaturalRecursion, SequenceTheorems

-----------------------------------------------------------------------------
(* IDEA: words.                                                           *)

LEMMA TwoToEquations ==
  /\ twoTo[0] = 1
  /\ \A n \in 1 .. WordBits : twoTo[n] = 2 * twoTo[n - 1]
PROOF
<1> DEFINE last == WordBits
           Body(f) == [n \in 0 .. last |-> IF n = 0 THEN 1 ELSE 2 * f[n - 1]]
           next == [n \in 1 .. last |-> [before \in Nat |-> 2 * before]]
<1>1. next \in [1 .. last -> [Nat -> Nat]] /\ last \in Nat
  BY WidthAssumption
<1>2. PICK f \in [0 .. last -> Nat] :
        f[0] = 1 /\ \A n \in 1 .. last : f[n] = next[n][f[n - 1]]
  <2> HIDE DEF next, Body, last
  <2>1. HasRecursion(last, Nat)
    BY <1>1, RecursionExists, Zenon
  <2>2. 1 \in Nat
    OBVIOUS
  <2> QED
    BY <1>1, <2>1, <2>2, Zenon DEF HasRecursion
<1>3. f = Body(f)
  <2>1. ASSUME NEW n \in 1 .. last
        PROVE  f[n] = 2 * f[n - 1]
    <3>1. n - 1 \in 0 .. last
      BY <1>1
    <3>2. f[n - 1] \in Nat
      BY <1>2, <3>1
    <3>3. next[n][f[n - 1]] = 2 * f[n - 1]
      BY <3>2
    <3> QED
      BY <1>2, <3>3
  <2>2. \A n \in 0 .. last : n = 0 \/ n \in 1 .. last
    BY <1>1
  <2>3. \A n \in 0 .. last : f[n] = Body(f)[n]
    BY <1>2, <2>1, <2>2
  <2> QED
    BY <1>2, <2>3
<1>4. twoTo = CHOOSE g : g = Body(g)
  BY DEF twoTo
<1>5. twoTo = Body(twoTo)
  <2> HIDE DEF Body
  <2> QED
    BY <1>3, <1>4
<1>6. \A n \in 0 .. last : twoTo[n] = Body(twoTo)[n]
  BY <1>5
<1>7. twoTo[0] = 1
  <2>1. 0 \in 0 .. last
    BY <1>1
  <2> QED
    BY <1>6, <2>1
<1>8. ASSUME NEW n \in 1 .. last
      PROVE  twoTo[n] = 2 * twoTo[n - 1]
  <2>1. n \in 0 .. last /\ n # 0
    BY <1>1
  <2> QED
    BY <1>6, <2>1
<1> QED
  BY <1>7, <1>8

LEMMA TwoToTypes == \A n \in 0 .. WordBits : twoTo[n] \in Nat \ {0}
PROOF
<1> DEFINE S == {n \in 0 .. WordBits : twoTo[n] \in Nat \ {0}}
<1>1. 0 \in S /\ WordBits \in Nat
  BY TwoToEquations, WidthAssumption
<1>2. ASSUME NEW n \in S, n \in 0 .. WordBits - 1
      PROVE  n + 1 \in S
  <2>1. n + 1 \in 1 .. WordBits /\ n + 1 \in 0 .. WordBits /\ (n + 1) - 1 = n
    BY <1>1, <1>2
  <2>2. twoTo[n + 1] = 2 * twoTo[n]
    BY <2>1, TwoToEquations
  <2> QED
    BY <2>1, <2>2
<1>3. 0 .. WordBits \subseteq S
  <2> HIDE DEF S
  <2> QED
    BY <1>1, <1>2, BoundedInduction
<1> QED
  BY <1>3

LEMMA TwoToSum ==
  ASSUME NEW a \in Nat, NEW b \in Nat, a + b <= WordBits
  PROVE  twoTo[a + b] = twoTo[a] * twoTo[b]
PROOF
<1> DEFINE S == {n \in 0 .. b : twoTo[a + n] = twoTo[a] * twoTo[n]}
<1>1. a \in 0 .. WordBits /\ WordBits \in Nat
  BY WidthAssumption
<1>2. 0 \in S
  BY <1>1, TwoToEquations, TwoToTypes
<1>3. ASSUME NEW n \in S, n \in 0 .. b - 1
      PROVE  n + 1 \in S
  <2>1. /\ n + 1 \in 1 .. WordBits /\ (n + 1) - 1 = n
        /\ a + (n + 1) \in 1 .. WordBits /\ (a + (n + 1)) - 1 = a + n
        /\ n \in 0 .. WordBits
    BY <1>1, <1>3
  <2>2. twoTo[n + 1] = 2 * twoTo[n] /\ twoTo[a + (n + 1)] = 2 * twoTo[a + n]
    BY <2>1, TwoToEquations
  <2>3. twoTo[a + n] = twoTo[a] * twoTo[n]
    OBVIOUS
  <2>4. twoTo[a] \in Nat /\ twoTo[n] \in Nat
    BY <1>1, <2>1, TwoToTypes
  <2>5. 2 * (twoTo[a] * twoTo[n]) = twoTo[a] * (2 * twoTo[n])
    BY <2>4
  <2> QED
    BY <1>3, <2>2, <2>3, <2>5
<1>4. 0 .. b \subseteq S
  <2> HIDE DEF S
  <2> QED
    BY <1>2, <1>3, BoundedInduction
<1> QED
  BY <1>4

LEMMA Sizes ==
  /\ WordBits \in Nat \ {0} /\ Words \in Nat \ {0, 1} /\ Words \in Int
  /\ Modulus = Words + 1 /\ Modulus \in Nat \ {0} /\ Modulus \in Int /\ IsPrime(Modulus)
PROOF
<1>1. WordBits \in Nat \ {0} /\ WordBits \in 1 .. WordBits /\ WordBits - 1 \in 0 .. WordBits
  BY WidthAssumption
<1>2. Words = 2 * twoTo[WordBits - 1] /\ twoTo[WordBits - 1] \in Nat \ {0}
  BY <1>1, TwoToEquations, TwoToTypes DEF Words
<1>3. Words \in Nat \ {0, 1}
  BY <1>2
<1>4. Modulus = Words + 1
  BY DEF Modulus
<1>5. Modulus \in Nat \ {0} /\ Modulus > 1 /\ Modulus - 1 = Words
  BY <1>3, <1>4
<1>6. IsPrime(Modulus)
  BY <1>5, WidthAssumption DEF IsPrime
<1> QED
  BY <1>1, <1>3, <1>4, <1>5, <1>6

LEMMA WordOf ==
  ASSUME NEW n \in Int
  PROVE  Word(n) \in WordSet /\ Alike(Words, Word(n), n)
PROOF
<1>1. Words \in Nat \ {0}
  BY Sizes
<1> QED
  BY <1>1, AlikeRemainder DEF Word, WordSet

\* A word that a number is alike is its remainder.
LEMMA WordIs ==
  ASSUME NEW n \in Int, NEW w \in WordSet, Alike(Words, n, w)
  PROVE  Word(n) = w
PROOF
<1>1. w \in 0 .. Words - 1 /\ Words \in Nat \ {0} /\ w \in Int /\ 0 \in Int
  BY Sizes DEF WordSet
<1>2. n % Words = w % Words
  BY <1>1, AlikeRemainders
<1>3. (Words * 0 + w) % Words = w
  BY <1>1, Remainders
<1>4. Words * 0 + w = w
  BY <1>1
<1> QED
  BY <1>2, <1>3, <1>4 DEF Word

LEMMA ShiftedIsWord ==
  ASSUME NEW high \in WordSet, NEW low \in WordSet
  PROVE  Shifted(high, low) \in WordSet
PROOF
<1> DEFINE P == twoTo[KeyShift]
           Q == twoTo[WordBits - KeyShift]
<1>1. P \in Nat \ {0} /\ Q \in Nat \ {0} /\ Words = P * Q
  <2>1. /\ KeyShift \in Nat /\ WordBits - KeyShift \in Nat
        /\ KeyShift \in 0 .. WordBits /\ WordBits - KeyShift \in 0 .. WordBits
        /\ KeyShift + (WordBits - KeyShift) = WordBits
        /\ KeyShift + (WordBits - KeyShift) <= WordBits
    BY WidthAssumption
  <2>2. P \in Nat \ {0} /\ Q \in Nat \ {0}
    BY <2>1, TwoToTypes
  <2>3. twoTo[KeyShift + (WordBits - KeyShift)] = P * Q
    BY <2>1, TwoToSum
  <2> QED
    BY <2>1, <2>2, <2>3 DEF Words
<1>2. /\ high \in Nat /\ low \in Nat /\ high < Words /\ low < Words
  BY Sizes DEF WordSet
<1> HIDE DEF P, Q
<1> DEFINE d == low \div Q
           u == high \div Q
           v == high % Q
<1>3. /\ d \in Nat /\ low % Q \in 0 .. Q - 1 /\ low = Q * d + (low % Q)
      /\ u \in Nat /\ v \in 0 .. Q - 1 /\ high = Q * u + v
  BY <1>1, <1>2, Remainders
<1> HIDE DEF d, u, v
<1>4. d <= P - 1
  <2> SUFFICES ASSUME d >= P PROVE FALSE
    BY <1>1, <1>3
  <2>1. Q * d >= Q * P
    <3>1. Q * (d - P) >= 0
      BY <1>1, <1>3
    <3> QED
      BY <1>1, <1>3, <3>1
  <2>2. Q * d <= low
    BY <1>1, <1>3
  <2> QED
    BY <1>1, <1>2, <1>3, <2>1, <2>2
<1>5. P * v <= P * (Q - 1) /\ P * v \in Nat
  <2>1. v \in Nat /\ Q - 1 - v \in Nat
    BY <1>1, <1>3
  <2>2. P * (Q - 1 - v) >= 0
    BY <1>1, <2>1
  <2>3. P * (Q - 1 - v) = P * (Q - 1) - P * v
    BY <1>1, <2>1
  <2> QED
    BY <1>1, <2>1, <2>2, <2>3
<1>6. P * (Q - 1) = Words - P
  BY <1>1
<1>7. P * v \in 0 .. Words - 1
  BY <1>1, <1>5, <1>6
<1>8. high * P = Words * u + P * v
  <2>1. high * P = (Q * u + v) * P
    BY <1>3
  <2>2. v \in Int
    BY <1>3
  <2>3. (Q * u + v) * P = (P * Q) * u + P * v
    BY <1>1, <1>3, <2>2
  <2> QED
    BY <1>1, <2>1, <2>3
<1>9. Word(high * P) = P * v
  <2> DEFINE w == P * v
  <2>1. w \in 0 .. Words - 1 /\ Words \in Nat \ {0} /\ u \in Int
    BY <1>3, <1>7, Sizes
  <2>2. high * P = Words * u + w
    BY <1>8
  <2> HIDE DEF w
  <2>3. (Words * u + w) % Words = w
    BY <2>1, Remainders
  <2>4. Word(high * P) = w
    BY <2>2, <2>3 DEF Word
  <2> QED
    BY <2>4 DEF w
<1>10. Shifted(high, low) = P * v + d
  BY <1>9 DEF Shifted, P, Q, d
<1> QED
  BY <1>1, <1>3, <1>4, <1>5, <1>6, <1>10, Sizes DEF WordSet

Half(a) == a \div 2
Bit(a) == a % 2
Flip(i, j) == IF i = j THEN 0 ELSE 1
Low(n) == 0 .. twoTo[n] - 1

LEMMA Halves ==
  ASSUME NEW a \in Nat
  PROVE  Half(a) \in Nat /\ Bit(a) \in {0, 1} /\ a = 2 * Half(a) + Bit(a)
PROOF
<1>1. 2 \in Nat \ {0}
  OBVIOUS
<1>2. Half(a) \in Nat /\ Bit(a) \in 0 .. 2 - 1 /\ a = 2 * Half(a) + Bit(a)
  BY <1>1, Remainders DEF Half, Bit
<1> QED
  BY <1>2

LEMMA HalvesOf ==
  ASSUME NEW h \in Nat, NEW i \in {0, 1}
  PROVE  Half(2 * h + i) = h /\ Bit(2 * h + i) = i
PROOF
<1> DEFINE a == 2 * h + i
<1>1. a \in Nat /\ a = 2 * h + i
  OBVIOUS
<1> HIDE DEF a
<1>2. Half(a) \in Nat /\ Bit(a) \in {0, 1} /\ a = 2 * Half(a) + Bit(a)
  BY <1>1, Halves
<1>3. Half(a) = h /\ Bit(a) = i
  BY <1>1, <1>2
<1> QED
  BY <1>3 DEF a

LEMMA BitOfSum ==
  ASSUME NEW a \in Nat, NEW b \in Nat
  PROVE  (a + b) % 2 = Flip(Bit(a), Bit(b))
PROOF
<1> DEFINE h == Half(a) + Half(b)
<1>1. /\ Half(a) \in Nat /\ Bit(a) \in {0, 1} /\ a = 2 * Half(a) + Bit(a)
      /\ Half(b) \in Nat /\ Bit(b) \in {0, 1} /\ b = 2 * Half(b) + Bit(b)
  BY Halves
<1>2. h \in Nat /\ a + b = 2 * h + (Bit(a) + Bit(b)) /\ h + 1 \in Nat
  BY <1>1
<1> HIDE DEF h
<1>3. CASE Bit(a) = Bit(b) /\ Bit(a) = 0
  <2>1. Bit(2 * h + 0) = 0
    BY <1>2, HalvesOf
  <2>2. a + b = 2 * h + 0
    BY <1>1, <1>2, <1>3
  <2> QED
    BY <1>3, <2>1, <2>2 DEF Flip, Bit
<1>4. CASE Bit(a) = Bit(b) /\ Bit(a) = 1
  <2>1. Bit(2 * (h + 1) + 0) = 0
    BY <1>2, HalvesOf
  <2>2. a + b = 2 * (h + 1) + 0
    BY <1>1, <1>2, <1>4
  <2>3. Bit(a + b) = 0
    BY <2>1, <2>2
  <2>4. Flip(Bit(a), Bit(b)) = 0
    BY <1>4 DEF Flip
  <2>5. Bit(a + b) = (a + b) % 2
    BY DEF Bit
  <2> QED
    BY <2>3, <2>4, <2>5
<1>5. CASE Bit(a) # Bit(b)
  <2>1. Bit(2 * h + 1) = 1
    BY <1>2, HalvesOf
  <2>2. a + b = 2 * h + 1
    BY <1>1, <1>2, <1>5
  <2>3. Bit(a + b) = 1
    BY <2>1, <2>2
  <2>4. Flip(Bit(a), Bit(b)) = 1
    BY <1>5 DEF Flip
  <2>5. Bit(a + b) = (a + b) % 2
    BY DEF Bit
  <2> QED
    BY <2>3, <2>4, <2>5
<1> QED
  BY <1>1, <1>3, <1>4, <1>5

\* A number of n bits has a half of n - 1.
LEMMA HalfIsLow ==
  ASSUME NEW n \in 1 .. WordBits, NEW a \in Low(n)
  PROVE  a \in Nat /\ Half(a) \in Low(n - 1)
PROOF
<1>1. n - 1 \in 0 .. WordBits
  BY Sizes
<1>2. twoTo[n] = 2 * twoTo[n - 1] /\ twoTo[n - 1] \in Nat \ {0}
  BY <1>1, TwoToEquations, TwoToTypes
<1>3. a \in Nat /\ a < 2 * twoTo[n - 1]
  BY <1>2 DEF Low
<1>4. Half(a) \in Nat /\ Bit(a) \in {0, 1} /\ a = 2 * Half(a) + Bit(a)
  BY <1>3, Halves
<1>5. Half(a) \in Nat /\ Half(a) <= twoTo[n - 1] - 1
  BY <1>2, <1>3, <1>4
<1> QED
  BY <1>2, <1>3, <1>5 DEF Low

LEMMA HalfIsWord ==
  ASSUME NEW a \in WordSet
  PROVE  a \in Nat /\ Half(a) \in WordSet
PROOF
<1>1. a \in Nat /\ a < Words /\ Words \in Nat
  BY Sizes DEF WordSet
<1>2. Half(a) \in Nat /\ Bit(a) \in {0, 1} /\ a = 2 * Half(a) + Bit(a)
  BY <1>1, Halves
<1>3. Half(a) < Words
  BY <1>1, <1>2
<1> QED
  BY <1>1, <1>2, <1>3 DEF WordSet

LEMMA XorEquations ==
  /\ \A a, b \in WordSet : xor[0][a][b] = 0
  /\ \A n \in 1 .. WordBits : \A a, b \in WordSet :
       xor[n][a][b] = 2 * xor[n - 1][Half(a)][Half(b)] + Flip(Bit(a), Bit(b))
PROOF
<1> DEFINE last == WordBits
           Table == [WordSet -> [WordSet -> Int]]
           More(t, a, b) == 2 * t[Half(a)][Half(b)] + ((a + b) % 2)
           Body(f) == [n \in 0 .. last |->
                         [a \in WordSet |-> [b \in WordSet |->
                            IF n = 0 THEN 0 ELSE More(f[n - 1], a, b)]]]
           Next(t) == [a \in WordSet |-> [b \in WordSet |-> More(t, a, b)]]
           next == [n \in 1 .. last |-> [t \in Table |-> Next(t)]]
           zero == [a \in WordSet |-> [b \in WordSet |-> 0]]
<1>1. last \in Nat /\ zero \in Table
  BY Sizes
<1>2. \A t \in Table : \A a, b \in WordSet : More(t, a, b) \in Int
  <2> SUFFICES ASSUME NEW t \in Table, NEW a \in WordSet, NEW b \in WordSet
               PROVE  More(t, a, b) \in Int
    OBVIOUS
  <2>1. a \in Nat /\ b \in Nat /\ Half(a) \in WordSet /\ Half(b) \in WordSet
    BY HalfIsWord
  <2>2. t[Half(a)][Half(b)] \in Int
    BY <2>1
  <2>3. (a + b) % 2 = Flip(Bit(a), Bit(b))
    BY <2>1, BitOfSum
  <2>4. (a + b) % 2 \in Int
    BY <2>3 DEF Flip
  <2> QED
    BY <2>2, <2>4
<1>3. next \in [1 .. last -> [Table -> Table]]
  <2> HIDE DEF More
  <2> QED
    BY <1>2
<1>4. PICK f \in [0 .. last -> Table] :
        f[0] = zero /\ \A n \in 1 .. last : f[n] = next[n][f[n - 1]]
  <2> HIDE DEF next, Body, last, Table, zero
  <2>1. HasRecursion(last, Table)
    BY <1>1, RecursionExists, Zenon
  <2> QED
    BY <1>1, <1>3, <2>1, Zenon DEF HasRecursion
<1>5. f = Body(f)
  <2>1. ASSUME NEW n \in 1 .. last
        PROVE  f[n] = Next(f[n - 1])
    <3> HIDE DEF Next, Table, Body, zero
    <3>1. n - 1 \in 0 .. last
      BY <1>1
    <3>2. f[n - 1] \in Table
      BY <1>4, <3>1
    <3>3. next[n][f[n - 1]] = Next(f[n - 1])
      BY <3>2
    <3> QED
      BY <1>4, <3>3
  <2>2. ASSUME NEW n \in 0 .. last
        PROVE  f[n] = Body(f)[n]
    <3> HIDE DEF More, Table, next
    <3>1. CASE n = 0
      BY <1>4, <3>1
    <3>2. CASE n # 0
      <4>1. n \in 1 .. last
        BY <1>1, <3>2
      <4> QED
        BY <2>1, <3>2, <4>1
    <3> QED
      BY <3>1, <3>2
  <2>3. \A n \in 0 .. last : f[n] = Body(f)[n]
    BY <2>2
  <2> HIDE DEF More, Table, next
  <2> QED
    BY <1>4, <2>3
<1>6. xor = CHOOSE g : g = Body(g)
  BY DEF xor, Half
<1>7. xor = Body(xor)
  <2> HIDE DEF Body
  <2> QED
    BY <1>5, <1>6
<1>8. \A n \in 0 .. last : xor[n] = Body(xor)[n]
  BY <1>7
<1>9. ASSUME NEW a \in WordSet, NEW b \in WordSet
      PROVE  xor[0][a][b] = 0
  <2> HIDE DEF More
  <2>1. 0 \in 0 .. last
    BY <1>1
  <2>2. xor[0] = Body(xor)[0]
    BY <1>8, <2>1
  <2>3. Body(xor)[0][a][b] = 0
    BY <2>1
  <2> QED
    BY <2>2, <2>3
<1>10. ASSUME NEW n \in 1 .. last, NEW a \in WordSet, NEW b \in WordSet
       PROVE  xor[n][a][b] = 2 * xor[n - 1][Half(a)][Half(b)] + Flip(Bit(a), Bit(b))
  <2>1. n \in 0 .. last /\ n # 0
    BY <1>1
  <2>2. xor[n][a][b] = More(xor[n - 1], a, b)
    <3> HIDE DEF More
    <3>1. xor[n] = Body(xor)[n]
      BY <1>8, <2>1
    <3>2. Body(xor)[n][a][b] = More(xor[n - 1], a, b)
      BY <2>1
    <3> QED
      BY <3>1, <3>2
  <2>3. (a + b) % 2 = Flip(Bit(a), Bit(b))
    BY HalfIsWord, BitOfSum
  <2> QED
    BY <2>2, <2>3
<1> QED
  BY <1>9, <1>10

\* The exclusive or of numbers of n bits has n bits, and is undone by itself.
XorLaws(n) ==
  \A a, b \in Low(n) :
    /\ xor[n][a][b] \in Low(n)
    /\ xor[n][xor[n][a][b]][b] = a
    /\ \A t \in Low(n) : xor[n][xor[n][a][t]][xor[n][b][t]] = xor[n][a][b]

LEMMA LowIsWord ==
  ASSUME NEW n \in 0 .. WordBits
  PROVE  Low(n) \subseteq WordSet
PROOF
<1> DEFINE m == WordBits - n
<1>1. n \in Nat /\ m \in Nat /\ n + m = WordBits /\ n + m <= WordBits /\ m \in 0 .. WordBits
  BY Sizes
<1> HIDE DEF m
<1>2. twoTo[n + m] = twoTo[n] * twoTo[m]
  BY <1>1, TwoToSum
<1>3. twoTo[n] \in Nat \ {0} /\ twoTo[m] \in Nat \ {0}
  BY <1>1, TwoToTypes
<1>4. twoTo[n] * twoTo[m] >= twoTo[n]
  BY <1>3
<1>5. Words >= twoTo[n]
  BY <1>1, <1>2, <1>4 DEF Words
<1> QED
  BY <1>3, <1>5, Sizes DEF Low, WordSet

LEMMA XorLawsHold == \A n \in 0 .. WordBits : XorLaws(n)
PROOF
<1> DEFINE S == {n \in 0 .. WordBits : XorLaws(n)}
<1>1. WordBits \in Nat
  BY Sizes
<1>2. 0 \in S
  <2>1. Low(0) = {0}
    BY TwoToEquations DEF Low
  <2>2. 0 \in WordSet
    BY Sizes DEF WordSet
  <2>3. xor[0][0][0] = 0
    BY <2>2, XorEquations
  <2> QED
    BY <1>1, <2>1, <2>3, TwoToEquations DEF XorLaws
<1>3. ASSUME NEW n \in S, n \in 0 .. WordBits - 1
      PROVE  n + 1 \in S
  <2> DEFINE m == n + 1
  <2>1. m \in 1 .. WordBits /\ m \in 0 .. WordBits /\ m - 1 = n /\ n \in 0 .. WordBits
    BY <1>1, <1>3
  <2>2. XorLaws(n)
    OBVIOUS
  <2> HIDE DEF m
  <2>3. ASSUME NEW a \in Low(m)
        PROVE  /\ a \in WordSet /\ a \in Nat /\ Half(a) \in Low(n) /\ Bit(a) \in {0, 1}
               /\ a = 2 * Half(a) + Bit(a)
    BY <2>1, HalfIsLow, Halves, LowIsWord
  <2>4. ASSUME NEW a \in Low(m), NEW b \in Low(m)
        PROVE  /\ xor[m][a][b] = 2 * xor[n][Half(a)][Half(b)] + Flip(Bit(a), Bit(b))
               /\ xor[m][a][b] \in Low(m)
               /\ Half(xor[m][a][b]) = xor[n][Half(a)][Half(b)]
               /\ Bit(xor[m][a][b]) = Flip(Bit(a), Bit(b))
    <3> DEFINE h == xor[n][Half(a)][Half(b)]
               i == Flip(Bit(a), Bit(b))
    <3>1. xor[m][a][b] = 2 * h + i
      BY <2>1, <2>3, XorEquations
    <3>2. h \in Low(n) /\ i \in {0, 1}
      BY <2>2, <2>3 DEF XorLaws, Flip
    <3> HIDE DEF h, i
    <3>3. twoTo[m] = 2 * twoTo[n] /\ twoTo[n] \in Nat
      BY <2>1, TwoToEquations, TwoToTypes
    <3>4. h \in Nat /\ h <= twoTo[n] - 1
      BY <3>2, <3>3 DEF Low
    <3>5. 2 * h + i \in Low(m)
      BY <3>2, <3>3, <3>4 DEF Low
    <3>6. Half(2 * h + i) = h /\ Bit(2 * h + i) = i
      BY <3>2, <3>4, HalvesOf
    <3> QED
      BY <3>1, <3>5, <3>6 DEF h, i
  <2>5. ASSUME NEW a \in Low(m), NEW b \in Low(m)
        PROVE  xor[m][xor[m][a][b]][b] = a
    <3> DEFINE c == xor[m][a][b]
    <3>1. /\ c \in Low(m) /\ Half(c) = xor[n][Half(a)][Half(b)]
          /\ Bit(c) = Flip(Bit(a), Bit(b))
      BY <2>4
    <3> HIDE DEF c
    <3>2. xor[m][c][b] = 2 * xor[n][Half(c)][Half(b)] + Flip(Bit(c), Bit(b))
      BY <2>4, <3>1
    <3>3. xor[n][Half(c)][Half(b)] = Half(a)
      BY <2>2, <2>3, <3>1 DEF XorLaws
    <3>4. Flip(Bit(c), Bit(b)) = Bit(a)
      BY <2>3, <3>1 DEF Flip
    <3>5. a = 2 * Half(a) + Bit(a)
      BY <2>3
    <3> QED
      BY <3>2, <3>3, <3>4, <3>5 DEF c
  <2>6. ASSUME NEW a \in Low(m), NEW b \in Low(m), NEW t \in Low(m)
        PROVE  xor[m][xor[m][a][t]][xor[m][b][t]] = xor[m][a][b]
    <3> DEFINE c == xor[m][a][t]
               e == xor[m][b][t]
    <3>1. /\ c \in Low(m) /\ Half(c) = xor[n][Half(a)][Half(t)]
          /\ Bit(c) = Flip(Bit(a), Bit(t))
          /\ e \in Low(m) /\ Half(e) = xor[n][Half(b)][Half(t)]
          /\ Bit(e) = Flip(Bit(b), Bit(t))
      BY <2>4
    <3> HIDE DEF c, e
    <3>2. xor[m][c][e] = 2 * xor[n][Half(c)][Half(e)] + Flip(Bit(c), Bit(e))
      BY <2>4, <3>1
    <3>3. xor[n][Half(c)][Half(e)] = xor[n][Half(a)][Half(b)]
      BY <2>2, <2>3, <3>1 DEF XorLaws
    <3>4. Flip(Bit(c), Bit(e)) = Flip(Bit(a), Bit(b))
      BY <2>3, <3>1 DEF Flip
    <3>5. xor[m][a][b] = 2 * xor[n][Half(a)][Half(b)] + Flip(Bit(a), Bit(b))
      BY <2>4
    <3> QED
      BY <3>2, <3>3, <3>4, <3>5 DEF c, e
  <2>7. XorLaws(m)
    BY <2>4, <2>5, <2>6 DEF XorLaws
  <2> QED
    BY <2>1, <2>7 DEF m
<1>4. 0 .. WordBits \subseteq S
  <2> HIDE DEF S
  <2> QED
    BY <1>1, <1>2, <1>3, BoundedInduction
<1> QED
  BY <1>4

LEMMA XorOfWords ==
  ASSUME NEW a \in WordSet, NEW b \in WordSet
  PROVE  XorWords(a, b) \in WordSet /\ XorWords(XorWords(a, b), b) = a
PROOF
<1>1. WordBits \in 0 .. WordBits /\ Low(WordBits) = WordSet
  BY Sizes DEF Low, WordSet, Words
<1>2. XorLaws(WordBits)
  BY <1>1, XorLawsHold
<1> QED
  BY <1>1, <1>2 DEF XorLaws, XorWords, XorTable

LEMMA XorShared ==
  ASSUME NEW a \in WordSet, NEW b \in WordSet, NEW t \in WordSet
  PROVE  XorWords(XorWords(a, t), XorWords(b, t)) = XorWords(a, b)
PROOF
<1>1. WordBits \in 0 .. WordBits /\ Low(WordBits) = WordSet
  BY Sizes DEF Low, WordSet, Words
<1>2. XorLaws(WordBits)
  BY <1>1, XorLawsHold
<1> QED
  BY <1>1, <1>2 DEF XorLaws, XorWords, XorTable

-----------------------------------------------------------------------------
(* The product of words, modulo a prime that is one more than there are    *)
(* words: 0 stands for the number Words.                                   *)

Rep(a) == IF a = 0 THEN Words ELSE a

LEMMA RepTypes ==
  ASSUME NEW a \in WordSet
  PROVE  a \in Nat /\ a < Words /\ Rep(a) \in 1 .. Words /\ Rep(a) \in Int
PROOF
<1> QED
  BY Sizes DEF WordSet, Rep

LEMMA RepDiffers ==
  ASSUME NEW a \in WordSet, NEW b \in WordSet, Alike(Modulus, Rep(a), Rep(b))
  PROVE  a = b
PROOF
<1>1. /\ Rep(a) \in 1 .. Words /\ Rep(b) \in 1 .. Words
      /\ Rep(a) \in Int /\ Rep(b) \in Int
  BY RepTypes
<1>2. Rep(a) - Rep(b) < Modulus /\ Rep(b) - Rep(a) < Modulus /\ Modulus \in Nat \ {0}
  BY <1>1, Sizes
<1>3. Rep(a) = Rep(b)
  BY <1>1, <1>2, AlikeSmall
<1>4. a < Words /\ b < Words /\ a \in Nat /\ b \in Nat
  BY RepTypes
<1> QED
  BY <1>3, <1>4, Sizes DEF Rep

\* What is left of a word after 1 stands for its opposite: the product by 0.
LEMMA ProductByZero ==
  ASSUME NEW b \in WordSet
  PROVE  /\ Word(1 - b) \in WordSet
         /\ Alike(Modulus, Rep(Word(1 - b)), Words * Rep(b))
PROOF
<1> DEFINE w == IF b = 0 THEN 1 ELSE IF b = 1 THEN 0 ELSE 1 - b + Words
<1>1. b \in Nat /\ b < Words /\ Words \in Nat \ {0, 1} /\ Words \in Int
  BY RepTypes, Sizes
<1>2. w \in WordSet
  BY <1>1 DEF WordSet
<1>3. Word(1 - b) = w
  <2>1. (1 - b) - w = Words * (IF b <= 1 THEN 0 ELSE 0 - 1)
    BY <1>1
  <2>2. (IF b <= 1 THEN 0 ELSE 0 - 1) \in Int
    OBVIOUS
  <2>3. Alike(Words, 1 - b, w)
    BY <2>1, <2>2 DEF Alike
  <2>4. 1 - b \in Int
    BY <1>1
  <2> HIDE DEF w
  <2> QED
    BY <1>2, <2>3, <2>4, WordIs
<1>4. Alike(Modulus, Rep(w), Words * Rep(b))
  <2> DEFINE k == IF b = 0 THEN 1 - Words ELSE 1 - b
  <2>1. k \in Int
    BY <1>1
  <2>2. CASE b = 0
    <3>1. Rep(w) = 1 /\ Rep(b) = Words
      BY <2>2 DEF Rep
    <3>2. 1 - Words * Words = (Words + 1) * (1 - Words)
      BY <1>1
    <3>3. Rep(w) - Words * Rep(b) = Modulus * k
      BY <2>2, <3>1, <3>2 DEF Modulus
    <3> QED
      BY <2>1, <3>3 DEF Alike
  <2>3. CASE b = 1
    <3>1. Rep(w) = Words /\ Rep(b) = 1
      BY <2>3 DEF Rep
    <3>2. Rep(w) - Words * Rep(b) = Modulus * k
      BY <1>1, <2>3, <3>1, Sizes
    <3> QED
      BY <2>1, <3>2 DEF Alike
  <2>4. CASE b > 1
    <3>1. Rep(w) = 1 - b + Words /\ Rep(b) = b
      BY <1>1, <2>4 DEF Rep
    <3>2. (1 - b + Words) - Words * b = (Words + 1) * (1 - b)
      BY <1>1
    <3>3. Rep(w) - Words * Rep(b) = Modulus * k
      BY <1>1, <2>4, <3>1, <3>2 DEF Modulus
    <3> QED
      BY <2>1, <3>3 DEF Alike
  <2> QED
    BY <1>1, <2>2, <2>3, <2>4
<1> HIDE DEF w
<1> QED
  BY <1>2, <1>3, <1>4

\* The product as IsProduct says it.
IsProduct(c, a, b) == c \in WordSet /\ Alike(Modulus, Rep(c), Rep(a) * Rep(b))

LEMMA Product ==
  ASSUME NEW a \in WordSet, NEW b \in WordSet
  PROVE  IsProduct(MulMod65537(a, b), a, b)
PROOF
<1>1. /\ a \in Nat /\ a < Words /\ b \in Nat /\ b < Words
      /\ Words \in Nat \ {0, 1} /\ Words \in Int
  BY RepTypes, Sizes
<1>2. CASE a = 0
  <2>1. MulMod65537(a, b) = Word(1 - b) /\ Rep(a) = Words
    BY <1>2 DEF MulMod65537, Rep
  <2> QED
    BY <2>1, ProductByZero DEF IsProduct
<1>3. CASE a # 0 /\ b = 0
  <2>1. MulMod65537(a, b) = Word(1 - a) /\ Rep(b) = Words
    BY <1>3 DEF MulMod65537, Rep
  <2>2. Words * Rep(a) = Rep(a) * Words
    BY RepTypes, <1>1
  <2> QED
    BY <2>1, <2>2, ProductByZero DEF IsProduct
<1>4. CASE a # 0 /\ b # 0
  <2> DEFINE c == a * b
             hi == c \div Words
             lo == c % Words
             w == IF lo > hi THEN lo - hi ELSE Word(lo - hi + 1)
  <2>1. /\ MulMod65537(a, b) = w /\ Rep(a) = a /\ Rep(b) = b
    BY <1>4 DEF MulMod65537, Rep
  <2>2. c \in Nat /\ c # 0 /\ c <= (Words - 1) * (Words - 1)
    <3>1. c \in Nat /\ c # 0
      BY <1>1, <1>4
    <3>2. a * b <= a * (Words - 1)
      <4>1. a * (Words - 1 - b) >= 0 /\ a * (Words - 1 - b) = a * (Words - 1) - a * b
        BY <1>1
      <4> QED
        BY <1>1, <4>1
    <3>3. a * (Words - 1) <= (Words - 1) * (Words - 1)
      <4>1. (Words - 1 - a) * (Words - 1) >= 0
        BY <1>1
      <4>2. (Words - 1 - a) * (Words - 1) = (Words - 1) * (Words - 1) - a * (Words - 1)
        BY <1>1
      <4> QED
        BY <1>1, <4>1, <4>2
    <3> QED
      BY <1>1, <3>1, <3>2, <3>3
  <2>3. ~ Alike(Modulus, c, 0)
    <3> SUFFICES ASSUME Alike(Modulus, a * b, 0) PROVE FALSE
      OBVIOUS
    <3>1. Alike(Modulus, a, 0) \/ Alike(Modulus, b, 0)
      BY <1>1, Sizes, PrimeFactor
    <3>2. a - 0 < Modulus /\ 0 - a < Modulus /\ b - 0 < Modulus /\ 0 - b < Modulus
      BY <1>1, Sizes
    <3>3. a \in Int /\ b \in Int /\ 0 \in Int /\ Modulus \in Nat \ {0}
      BY <1>1, Sizes
    <3>4. a = 0 \/ b = 0
      BY <3>1, <3>2, <3>3, AlikeSmall
    <3> QED
      BY <1>4, <3>4
  <2>4. hi \in Nat /\ lo \in 0 .. Words - 1 /\ c = Words * hi + lo
    BY <1>1, <2>2, Remainders
  <2> HIDE DEF c, hi, lo
  <2>5. hi < Words - 1
    <3> SUFFICES ASSUME hi >= Words - 1 PROVE FALSE
      BY <1>1, <2>4
    <3>1. Words * (hi - (Words - 1)) >= 0
      BY <1>1, <2>4
    <3>2. Words * (hi - (Words - 1)) = Words * hi - Words * (Words - 1)
      BY <1>1, <2>4
    <3>3. Words * (Words - 1) = (Words - 1) * (Words - 1) + (Words - 1)
      BY <1>1
    <3> QED
      BY <1>1, <2>2, <2>4, <3>1, <3>2, <3>3
  <2>6. c = Modulus * hi + (lo - hi)
    <3>1. (Words + 1) * hi = Words * hi + hi
      BY <1>1, <2>4
    <3> QED
      BY <1>1, <2>4, <3>1 DEF Modulus
  <2>7. lo # hi
    <3> SUFFICES ASSUME lo = hi PROVE FALSE
      OBVIOUS
    <3>1. c - 0 = Modulus * hi
      BY <2>4, <2>6, Sizes
    <3> QED
      BY <2>3, <2>4, <3>1 DEF Alike
  <2>8. w \in WordSet /\ \E k \in Int : Rep(w) - c = Modulus * k
    <3>1. CASE lo > hi
      <4>1. w = lo - hi /\ w \in WordSet /\ w # 0
        BY <1>1, <2>4, <3>1 DEF WordSet
      <4>2. 0 - hi \in Int /\ Modulus * (0 - hi) = 0 - Modulus * hi
        BY <2>4, Sizes
      <4>3. Rep(w) = lo - hi
        BY <4>1 DEF Rep
      <4>4. Rep(w) - c = Modulus * (0 - hi)
        BY <2>4, <2>6, <4>2, <4>3, Sizes
      <4> QED
        BY <4>1, <4>2, <4>4
    <3>2. CASE lo < hi
      <4> DEFINE v == IF lo - hi + 1 = 0 THEN 0 ELSE lo - hi + 1 + Words
      <4>1. v \in WordSet
        BY <1>1, <2>4, <2>5, <3>2 DEF WordSet
      <4>2. Rep(v) = lo - hi + 1 + Words
        BY <1>1, <2>4, <2>5, <3>2 DEF Rep
      <4>3. w = v
        <5>1. (lo - hi + 1) - v = Words * (IF lo - hi + 1 = 0 THEN 0 ELSE 0 - 1)
          BY <1>1, <2>4
        <5>2. (IF lo - hi + 1 = 0 THEN 0 ELSE 0 - 1) \in Int
          OBVIOUS
        <5>3. Alike(Words, lo - hi + 1, v)
          BY <5>1, <5>2 DEF Alike
        <5>4. lo - hi + 1 \in Int
          BY <2>4
        <5> HIDE DEF v
        <5>5. Word(lo - hi + 1) = v
          BY <4>1, <5>3, <5>4, WordIs
        <5>6. ~ (lo > hi)
          BY <2>4, <3>2
        <5> QED
          BY <5>5, <5>6
      <4>4. Modulus * (1 - hi) = Modulus - Modulus * hi /\ 1 - hi \in Int
        BY <2>4, Sizes
      <4>5. Rep(v) - c = Modulus * (1 - hi)
        BY <1>1, <2>4, <2>6, <4>2, <4>4, Sizes
      <4> QED
        BY <4>1, <4>3, <4>4, <4>5
    <3> QED
      BY <2>4, <2>7, <3>1, <3>2
  <2>9. Alike(Modulus, Rep(w), c)
    BY <2>8 DEF Alike
  <2> QED
    BY <2>1, <2>8, <2>9 DEF IsProduct, c
<1> QED
  BY <1>2, <1>3, <1>4

\* A product by numbers whose product is 1 is what it was.
LEMMA ProductUndone ==
  ASSUME NEW a \in WordSet, NEW k \in WordSet, NEW l \in WordSet,
         Alike(Modulus, Rep(k) * Rep(l), 1)
  PROVE  MulMod65537(MulMod65537(a, k), l) = a
PROOF
<1> DEFINE b == MulMod65537(a, k)
           c == MulMod65537(b, l)
<1>1. b \in WordSet /\ Alike(Modulus, Rep(b), Rep(a) * Rep(k))
  BY Product DEF IsProduct
<1>2. c \in WordSet /\ Alike(Modulus, Rep(c), Rep(b) * Rep(l))
  BY <1>1, Product DEF IsProduct
<1> HIDE DEF b, c
<1>3. /\ Rep(a) \in Int /\ Rep(b) \in Int /\ Rep(c) \in Int
      /\ Rep(k) \in Int /\ Rep(l) \in Int /\ Modulus \in Int /\ 1 \in Int
  BY <1>1, <1>2, RepTypes, Sizes
<1> DEFINE ak == Rep(a) * Rep(k)
           kl == Rep(k) * Rep(l)
           bl == Rep(b) * Rep(l)
<1>4. ak \in Int /\ kl \in Int /\ bl \in Int /\ ak * Rep(l) = Rep(a) * kl /\ Rep(a) * 1 = Rep(a)
  BY <1>3
<1>5. Alike(Modulus, bl, ak * Rep(l))
  BY <1>1, <1>3, <1>4, AlikeSelf, AlikeProduct
<1>6. Alike(Modulus, Rep(a) * kl, Rep(a) * 1)
  BY <1>3, <1>4, AlikeSelf, AlikeProduct
<1>7. Alike(Modulus, Rep(c), bl)
  BY <1>2
<1> HIDE DEF ak, kl, bl
<1>8. Alike(Modulus, bl, Rep(a))
  <2> DEFINE e == Rep(a) * kl
  <2>1. e \in Int /\ Alike(Modulus, bl, e) /\ Alike(Modulus, e, Rep(a))
    BY <1>3, <1>4, <1>5, <1>6
  <2> HIDE DEF e
  <2> QED
    BY <1>3, <1>4, <2>1, AlikeOn
<1>9. Alike(Modulus, Rep(c), Rep(a))
  BY <1>3, <1>4, <1>7, <1>8, AlikeOn
<1> QED
  BY <1>2, <1>9, RepDiffers DEF b, c

-----------------------------------------------------------------------------
(* The inverse of a word.                                                  *)

\* The coefficients have opposite signs, and what they are with the remainders
\* is always Modulus.
Signed(a, m, x0, x1) ==
  \E u, v \in Nat : /\ (x1 = u /\ x0 = 0 - v) \/ (x1 = 0 - u /\ x0 = v)
                    /\ a * v + m * u = Modulus /\ u <= Modulus

\* What modInverse keeps of its variables, for the number k.
Kept(k, a, m, x0, x1) ==
  /\ a \in 1 .. Modulus /\ m \in 0 .. Modulus /\ x0 \in Int /\ x1 \in Int
  /\ a = Modulus => m \in 1 .. Words
  /\ m = Modulus => a \in 1 .. Words
  /\ Alike(Modulus, x1 * k, a) /\ Alike(Modulus, x0 * k, m)
  /\ Signed(a, m, x0, x1)

\* As long as the loop goes on it has something to divide by.
LEMMA Divides ==
  ASSUME NEW k \in Int, NEW a, NEW m, NEW x0, NEW x1, Kept(k, a, m, x0, x1), a > 1
  PROVE  m \in Nat \ {0}
PROOF
<1>1. a \in 1 .. Modulus /\ m \in 0 .. Modulus /\ Modulus \in Nat
  BY Sizes DEF Kept
<1> SUFFICES ASSUME m = 0 PROVE FALSE
  BY <1>1
<1>2. a \in 2 .. Modulus - 1
  BY <1>1, Sizes DEF Kept
<1>3. PICK u, v \in Nat : a * v + m * u = Modulus
  BY DEF Kept, Signed
<1>4. a * v + 0 = Modulus /\ a \in Nat \ {0} /\ 0 \in 0 .. a - 1 /\ v \in Int
  BY <1>1, <1>2, <1>3
<1>5. (a * v + 0) % a = 0
  BY <1>4, Remainders
<1>6. Modulus % a # 0
  BY <1>2, Sizes DEF IsPrime
<1> QED
  BY <1>4, <1>5, <1>6

LEMMA TurnKeeps ==
  ASSUME NEW k \in Int, NEW a, NEW m, NEW x0, NEW x1, Kept(k, a, m, x0, x1), a > 1
  PROVE  Kept(k, m, a % m, x1 - (a \div m) * x0, x0) /\ a % m \in 0 .. m - 1
PROOF
<1> DEFINE q == a \div m
           r == a % m
           x2 == x1 - q * x0
<1>1. m \in Nat \ {0}
  BY Divides
<1>2. /\ a \in 1 .. Modulus /\ m \in 1 .. Modulus /\ x0 \in Int /\ x1 \in Int
      /\ Modulus \in Nat /\ a \in Nat /\ a \in Int /\ m \in Int
  BY <1>1, Sizes DEF Kept
<1>3. q \in Nat /\ r \in 0 .. m - 1 /\ a = m * q + r
  BY <1>1, <1>2, Remainders
<1> HIDE DEF q, r
<1>4. r \in 0 .. Modulus /\ r < Modulus /\ r \in Int
  BY <1>2, <1>3
<1>5. m = Modulus => r \in 1 .. Words
  <2> SUFFICES ASSUME m = Modulus PROVE r \in 1 .. Words
    OBVIOUS
  <2>1. a \in 1 .. Words /\ a < m
    BY Sizes DEF Kept
  <2>2. q = 0
    <3> SUFFICES ASSUME q >= 1 PROVE FALSE
      BY <1>3
    <3>1. m * (q - 1) >= 0 /\ m * (q - 1) = m * q - m
      BY <1>1, <1>3
    <3> QED
      BY <1>2, <1>3, <2>1, <3>1
  <2>3. m * q = 0
    BY <1>2, <2>2
  <2>4. a = r
    BY <1>3, <1>4, <2>3
  <2> QED
    BY <2>1, <2>4
<1>6. x2 \in Int
  BY <1>2, <1>3
<1>7. Alike(Modulus, x2 * k, r)
  <2>1. PICK s \in Int : x1 * k - a = Modulus * s
    BY DEF Kept, Alike
  <2>2. PICK t \in Int : x0 * k - m = Modulus * t
    BY DEF Kept, Alike
  <2>3. x2 * k = x1 * k - q * (x0 * k)
    BY <1>2, <1>3
  <2> DEFINE X == x1 * k
             Y == x0 * k
             e == Modulus * s
             f == Modulus * t
             g == m * q
             h == Modulus * (q * t)
  <2>4. X \in Int /\ Y \in Int /\ e \in Int /\ f \in Int /\ g \in Int /\ h \in Int
    BY <1>2, <1>3
  <2>5. X - a = e /\ Y - m = f /\ x2 * k = X - q * Y /\ a = g + r /\ q * f = h /\ q * m = g
    BY <1>2, <1>3, <2>1, <2>2, <2>3
  <2>6. Modulus * (s - q * t) = e - h /\ s - q * t \in Int
    BY <1>2, <1>3
  <2> HIDE DEF X, Y, e, f, g, h, x2
  <2>7. q * Y = g + h
    <3>1. Y = m + f
      BY <1>2, <2>4, <2>5
    <3>2. q * (m + f) = q * m + q * f
      BY <1>2, <1>3, <2>4
    <3> QED
      BY <2>5, <3>1, <3>2
  <2>8. x2 * k - r = Modulus * (s - q * t)
    BY <1>2, <1>4, <2>4, <2>5, <2>6, <2>7
  <2> QED
    BY <2>6, <2>8 DEF Alike
<1>8. Signed(m, r, x2, x0)
  <2>1. PICK u, v \in Nat :
          /\ (x1 = u /\ x0 = 0 - v) \/ (x1 = 0 - u /\ x0 = v)
          /\ a * v + m * u = Modulus /\ u <= Modulus
    BY DEF Kept, Signed
  <2> DEFINE w == u + q * v
  <2>2. w \in Nat /\ q * v \in Nat
    BY <1>3, <2>1
  <2>3. (x0 = 0 - v /\ x2 = w) \/ (x0 = v /\ x2 = 0 - w)
    <3>1. CASE x1 = u /\ x0 = 0 - v
      <4>1. q * (0 - v) = 0 - q * v
        BY <1>3, <2>1
      <4> QED
        BY <2>1, <2>2, <3>1, <4>1
    <3>2. CASE x1 = 0 - u /\ x0 = v
      BY <2>1, <2>2, <3>2
    <3> QED
      BY <2>1, <3>1, <3>2
  <2>4. m * w + r * v = Modulus
    <3>1. m * w = m * u + (m * q) * v
      BY <1>2, <1>3, <2>1
    <3>2. a * v = (m * q) * v + r * v
      <4> DEFINE g == m * q
      <4>1. g \in Int /\ a = g + r
        BY <1>2, <1>3
      <4> HIDE DEF g
      <4>2. a * v = g * v + r * v
        BY <1>4, <2>1, <4>1
      <4> QED
        BY <4>2 DEF g
    <3> DEFINE e == m * u
               f == (m * q) * v
               h == r * v
    <3>3. e \in Int /\ f \in Int /\ h \in Int /\ (f + h) + e = Modulus /\ m * w = e + f
      BY <1>2, <1>3, <1>4, <2>1, <3>1, <3>2
    <3> HIDE DEF e, f
    <3> QED
      BY <3>3
  <2>5. v <= Modulus
    <3>1. (a - 1) * v >= 0 /\ (a - 1) * v = a * v - v /\ m * u >= 0
      BY <1>2, <2>1
    <3>2. a * v \in Int /\ m * u \in Int
      BY <1>2, <2>1
    <3> QED
      BY <1>2, <2>1, <3>1, <3>2
  <2> HIDE DEF w, x2
  <2>6. r * v = v * r /\ m * w = w * m
    BY <1>2, <1>4, <2>1, <2>2
  <2>7. m * w + r * v = Modulus /\ v \in Nat /\ w \in Nat
    BY <2>1, <2>2, <2>4
  <2>8. (x0 = v /\ x2 = 0 - w) \/ (x0 = 0 - v /\ x2 = w)
    BY <2>3
  <2> QED
    BY <2>5, <2>7, <2>8 DEF Signed
<1>9. Alike(Modulus, x0 * k, m)
  BY DEF Kept
<1>10. r = Modulus => m \in 1 .. Words
  BY <1>4
<1> HIDE DEF x2
<1>11. Kept(k, m, r, x2, x0)
  BY <1>2, <1>4, <1>5, <1>6, <1>7, <1>8, <1>9, <1>10 DEF Kept
<1> QED
  BY <1>3, <1>11 DEF q, r, x2

\* The variables that are kept so.
Loops(k) ==
  {s \in [a : 0 .. Modulus, m : 0 .. Modulus, x0 : Int, x1 : Int] :
     Kept(k, s.a, s.m, s.x0, s.x1)}

LEMMA TurnTypes ==
  ASSUME NEW k \in Int, NEW s \in Loops(k)
  PROVE  /\ Turn(s) \in Loops(k)
         /\ s.a <= 1 => Turn(s) = s
         /\ s.a > 1 => Turn(s).m <= s.m - 1
PROOF
<1>1. /\ Kept(k, s.a, s.m, s.x0, s.x1) /\ s.a \in 0 .. Modulus /\ s.m \in 0 .. Modulus
      /\ Modulus \in Nat
  BY Sizes DEF Loops
<1>2. CASE s.a <= 1
  BY <1>1, <1>2 DEF Turn
<1>3. CASE s.a > 1
  <2> DEFINE r == s.a % s.m
             x2 == s.x1 - (s.a \div s.m) * s.x0
             t == [a |-> s.m, m |-> r, x0 |-> x2, x1 |-> s.x0]
  <2>1. Kept(k, s.m, r, x2, s.x0) /\ r \in 0 .. s.m - 1
    BY <1>1, <1>3, TurnKeeps
  <2>2. Turn(s) = t
    BY <1>3 DEF Turn
  <2> HIDE DEF r, x2
  <2>3. t.a = s.m /\ t.m = r /\ t.x0 = x2 /\ t.x1 = s.x0
    OBVIOUS
  <2>4. r \in 0 .. Modulus /\ s.x0 \in Int /\ x2 \in Int /\ r <= s.m - 1
    BY <1>1, <2>1 DEF Kept
  <2>5. t \in [a : 0 .. Modulus, m : 0 .. Modulus, x0 : Int, x1 : Int]
    BY <1>1, <2>4
  <2> HIDE DEF t
  <2>6. t \in Loops(k)
    BY <2>1, <2>3, <2>5 DEF Loops
  <2> QED
    BY <1>1, <1>3, <2>2, <2>3, <2>4, <2>6
<1>4. s.a \in Int
  BY <1>1
<1> QED
  BY <1>2, <1>3, <1>4

Start(k) == [a |-> k, m |-> Modulus, x0 |-> 0, x1 |-> 1]

LEMMA StartTypes ==
  ASSUME NEW k \in 1 .. Words
  PROVE  Start(k) \in Loops(k)
PROOF
<1>1. k \in Int /\ k \in 1 .. Modulus /\ k # Modulus /\ Modulus \in Nat /\ Modulus \in Int
  BY Sizes
<1>2. Alike(Modulus, 1 * k, k)
  <2>1. 1 * k = k
    BY <1>1
  <2> QED
    BY <1>1, <2>1, AlikeSelf
<1>3. Alike(Modulus, 0 * k, Modulus)
  <2>1. 0 * k - Modulus = Modulus * (0 - 1) /\ 0 - 1 \in Int
    BY <1>1
  <2> QED
    BY <2>1 DEF Alike
<1>4. Signed(k, Modulus, 0, 1)
  <2> DEFINE u == 1
             v == 0
  <2>1. /\ u \in Nat /\ v \in Nat /\ 1 = u /\ 0 = 0 - v
        /\ k * v + Modulus * u = Modulus /\ u <= Modulus
    BY <1>1, Sizes
  <2> HIDE DEF u, v
  <2> QED
    BY <2>1 DEF Signed
<1>5. Kept(k, k, Modulus, 0, 1)
  BY <1>1, <1>2, <1>3, <1>4, Sizes DEF Kept
<1> QED
  BY <1>1, <1>5 DEF Start, Loops

LEMMA EuclidEquations ==
  ASSUME NEW k \in 1 .. Words
  PROVE  /\ Euclid(k)[0] = Start(k)
         /\ \A i \in 1 .. Modulus : Euclid(k)[i] = Turn(Euclid(k)[i - 1])
PROOF
<1> DEFINE last == Modulus
           V == Loops(k)
           start == Start(k)
           Body(f) == [i \in 0 .. last |-> IF i = 0 THEN start ELSE Turn(f[i - 1])]
           next == [i \in 1 .. last |-> [before \in V |-> Turn(before)]]
<1>1. next \in [1 .. last -> [V -> V]] /\ last \in Nat /\ start \in V
  <2>1. k \in Int
    OBVIOUS
  <2>2. \A s \in V : Turn(s) \in V
    BY <2>1, TurnTypes
  <2>3. start \in V /\ last \in Nat
    BY StartTypes, Sizes
  <2> HIDE DEF V, start, last
  <2> QED
    BY <2>2, <2>3
<1>2. PICK f \in [0 .. last -> V] :
        f[0] = start /\ \A n \in 1 .. last : f[n] = next[n][f[n - 1]]
  <2> HIDE DEF next, Body, last, V, start
  <2>1. HasRecursion(last, V)
    BY <1>1, RecursionExists, Zenon
  <2> QED
    BY <1>1, <2>1, Zenon DEF HasRecursion
<1>3. f = Body(f)
  <2> HIDE DEF V, start
  <2>1. ASSUME NEW n \in 1 .. last
        PROVE  f[n] = Turn(f[n - 1])
    <3>1. n - 1 \in 0 .. last
      BY <1>1
    <3>2. f[n - 1] \in V
      BY <1>2, <3>1
    <3>3. next[n][f[n - 1]] = Turn(f[n - 1])
      BY <3>2
    <3> QED
      BY <1>2, <3>3
  <2>2. \A n \in 0 .. last : n = 0 \/ n \in 1 .. last
    BY <1>1
  <2>3. \A n \in 0 .. last : f[n] = Body(f)[n]
    BY <1>2, <2>1, <2>2
  <2> QED
    BY <1>2, <2>3
<1>4. Euclid(k) = CHOOSE g : g = Body(g)
  BY DEF Euclid, Start
<1>5. Euclid(k) = Body(Euclid(k))
  <2> HIDE DEF Body
  <2> QED
    BY <1>3, <1>4
<1>6. \A n \in 0 .. last : Euclid(k)[n] = Body(Euclid(k))[n]
  <2> DEFINE g == Euclid(k)
  <2>1. g = Body(g)
    BY <1>5
  <2> HIDE DEF g, Body
  <2>2. \A n \in 0 .. last : g[n] = Body(g)[n]
    BY <2>1
  <2> QED
    BY <2>2 DEF g
<1> DEFINE g == Euclid(k)
<1>7. \A n \in 0 .. last : g[n] = IF n = 0 THEN start ELSE Turn(g[n - 1])
  <2>1. \A n \in 0 .. last : g[n] = Body(g)[n]
    BY <1>6
  <2> HIDE DEF g, start
  <2> QED
    BY <2>1
<1>8. g[0] = start
  <2> HIDE DEF g, start
  <2>1. 0 \in 0 .. last
    BY <1>1
  <2> QED
    BY <1>7, <2>1
<1>9. ASSUME NEW n \in 1 .. last
      PROVE  g[n] = Turn(g[n - 1])
  <2> HIDE DEF g, start
  <2>1. n \in 0 .. last /\ n # 0
    BY <1>1
  <2> QED
    BY <1>7, <2>1
<1> QED
  BY <1>8, <1>9

\* At its end the loop has found 1 and its coefficient.
LEMMA EuclidEnds ==
  ASSUME NEW k \in 1 .. Words
  PROVE  \E x \in Int : /\ Euclid(k)[Modulus].x1 = x
                        /\ x <= Modulus /\ x >= 0 - Modulus
                        /\ Alike(Modulus, x * k, 1)
PROOF
<1> DEFINE loop == Euclid(k)
           S == {i \in 0 .. Modulus : /\ loop[i] \in Loops(k)
                                      /\ loop[i].a > 1 => loop[i].m <= Modulus - i}
<1>1. k \in Int /\ Modulus \in Nat
  BY Sizes
<1>2. loop[0] = Start(k) /\ \A i \in 1 .. Modulus : loop[i] = Turn(loop[i - 1])
  BY EuclidEquations
<1> HIDE DEF loop
<1>3. 0 \in S
  <2>1. Start(k) \in Loops(k) /\ Start(k).m = Modulus
    BY StartTypes DEF Start
  <2> QED
    BY <1>1, <1>2, <2>1
<1>4. ASSUME NEW i \in S, i \in 0 .. Modulus - 1
      PROVE  i + 1 \in S
  <2> DEFINE s == loop[i]
             t == loop[i + 1]
  <2>1. i + 1 \in 1 .. Modulus /\ i + 1 \in 0 .. Modulus /\ (i + 1) - 1 = i
    BY <1>1, <1>4
  <2>2. t = Turn(s)
    BY <1>2, <2>1
  <2>3. s \in Loops(k) /\ (s.a > 1 => s.m <= Modulus - i)
    OBVIOUS
  <2> HIDE DEF s, t
  <2>4. t \in Loops(k) /\ (s.a <= 1 => t = s) /\ (s.a > 1 => t.m <= s.m - 1)
    BY <1>1, <2>2, <2>3, TurnTypes
  <2>5. s.m \in Int /\ t.m \in Int /\ s.a \in Int /\ t.a \in Int
    BY <2>3, <2>4 DEF Loops
  <2>6. t.a > 1 => t.m <= Modulus - (i + 1)
    <3>1. CASE s.a <= 1
      BY <2>4, <2>5, <3>1
    <3>2. CASE s.a > 1
      BY <1>1, <2>1, <2>3, <2>4, <2>5, <3>2
    <3> QED
      BY <2>5, <3>1, <3>2
  <2> QED
    BY <2>1, <2>4, <2>6 DEF t
<1>5. 0 .. Modulus \subseteq S
  <2> HIDE DEF S
  <2> QED
    BY <1>1, <1>3, <1>4, BoundedInduction
<1>6. Modulus \in S
  BY <1>1, <1>5
<1> DEFINE s == loop[Modulus]
<1>7. s \in Loops(k) /\ (s.a > 1 => s.m <= Modulus - Modulus)
  BY <1>6
<1> HIDE DEF s
<1>8. /\ Kept(k, s.a, s.m, s.x0, s.x1) /\ s.a \in 1 .. Modulus /\ s.m \in 0 .. Modulus
      /\ s.x1 \in Int
  BY <1>7 DEF Loops, Kept
<1>9. s.a = 1
  <2> SUFFICES ASSUME s.a > 1 PROVE FALSE
    BY <1>1, <1>8
  <2>1. s.m \in Nat \ {0}
    BY <1>1, <1>8, Divides
  <2> QED
    BY <1>1, <1>7, <2>1
<1>10. Alike(Modulus, s.x1 * k, 1)
  BY <1>8, <1>9 DEF Kept
<1>11. s.x1 <= Modulus /\ s.x1 >= 0 - Modulus
  <2>1. PICK u, v \in Nat : (s.x1 = u \/ s.x1 = 0 - u) /\ u <= Modulus
    BY <1>8 DEF Kept, Signed
  <2> QED
    BY <1>1, <2>1
<1> QED
  BY <1>8, <1>10, <1>11 DEF s, loop

\* What modInverse returns for a word that is not 0 is its inverse.
LEMMA InverseIs ==
  ASSUME NEW k \in WordSet, k # 0
  PROVE  /\ ModInverse(k) \in WordSet
         /\ Alike(Modulus, Rep(k) * Rep(ModInverse(k)), 1)
PROOF
<1>1. /\ k \in 1 .. Words /\ k \in Int /\ Rep(k) = k /\ k < Words
      /\ Words \in Nat \ {0, 1} /\ Words \in Int /\ Modulus = Words + 1
      /\ Modulus \in Nat \ {0} /\ Modulus \in Int
  BY Sizes, RepTypes DEF Rep
<1>2. PICK x \in Int : /\ Euclid(k)[Modulus].x1 = x
                       /\ x <= Modulus /\ x >= 0 - Modulus
                       /\ Alike(Modulus, x * k, 1)
  BY <1>1, EuclidEnds
<1> DEFINE y == IF x < 0 THEN x + Modulus ELSE x
<1>3. y \in 0 .. Modulus
  BY <1>1, <1>2
<1>4. Alike(Modulus, k * y, 1)
  <2>1. CASE x < 0
    <3>1. PICK j \in Int : x * k - 1 = Modulus * j
      BY <1>2 DEF Alike
    <3>2. k * (x + Modulus) = x * k + Modulus * k /\ Modulus * (j + k) = Modulus * j + Modulus * k
      BY <1>1
    <3>3. k * y - 1 = Modulus * (j + k) /\ j + k \in Int
      <4>1. x * k \in Int /\ Modulus * j \in Int /\ Modulus * k \in Int
        BY <1>1
      <4> QED
        BY <1>1, <2>1, <3>1, <3>2, <4>1
    <3> QED
      BY <3>3 DEF Alike
  <2>2. CASE ~ (x < 0)
    <3>1. k * y = x * k
      BY <1>1, <2>2
    <3> QED
      BY <1>2, <3>1
  <2> QED
    BY <2>1, <2>2
<1>5. ModInverse(k) = Word(y)
  BY <1>2 DEF ModInverse
<1> HIDE DEF y
<1>6. PICK j \in Int : k * y - 1 = Modulus * j
  BY <1>4 DEF Alike
<1>7. y # 0 /\ y # Modulus
  <2> SUFFICES ASSUME y = 0 \/ y = Modulus PROVE FALSE
    OBVIOUS
  <2>1. PICK i \in Int : k * y = Modulus * i
    <3>1. CASE y = 0
      <4>1. k * y = Modulus * 0 /\ 0 \in Int
        BY <1>1, <3>1
      <4> QED
        BY <4>1
    <3>2. CASE y = Modulus
      <4>1. k * y = Modulus * k
        BY <1>1, <3>2
      <4> QED
        BY <1>1, <4>1
    <3> QED
      BY <3>1, <3>2
  <2>2. 1 - 0 = Modulus * (i - j) /\ i - j \in Int
    <3>1. Modulus * (i - j) = Modulus * i - Modulus * j
      BY <1>1, <2>1
    <3>2. Modulus * i \in Int /\ Modulus * j \in Int
      BY <1>1
    <3> QED
      BY <1>1, <1>6, <2>1, <3>1, <3>2
  <2>3. Alike(Modulus, 1, 0)
    BY <2>2 DEF Alike
  <2>4. 1 \in Int /\ 0 \in Int /\ 1 - 0 < Modulus /\ 0 - 1 < Modulus
    BY <1>1
  <2>5. 1 = 0
    BY <1>1, <2>3, <2>4, AlikeSmall
  <2> QED
    BY <2>5
<1>8. y # Words
  <2> SUFFICES ASSUME y = Words PROVE FALSE
    OBVIOUS
  <2>1. k * Words = Modulus * k - k
    BY <1>1
  <2>2. (k + 1) - 0 = Modulus * (k - j) /\ k - j \in Int
    <3>1. Modulus * (k - j) = Modulus * k - Modulus * j
      BY <1>1
    <3>2. Modulus * k \in Int /\ Modulus * j \in Int
      BY <1>1
    <3> QED
      BY <1>1, <1>6, <2>1, <3>1, <3>2
  <2>3. Alike(Modulus, k + 1, 0)
    BY <2>2 DEF Alike
  <2>4. k + 1 \in Int /\ 0 \in Int /\ (k + 1) - 0 < Modulus /\ 0 - (k + 1) < Modulus
    BY <1>1
  <2>5. k + 1 = 0
    BY <1>1, <2>3, <2>4, AlikeSmall
  <2> QED
    BY <1>1, <2>5
<1>9. y \in WordSet /\ Rep(y) = y /\ y \in Int
  BY <1>1, <1>3, <1>7, <1>8 DEF WordSet, Rep
<1>10. Word(y) = y
  <2>1. Alike(Words, y, y)
    BY <1>1, <1>9, AlikeSelf
  <2> QED
    BY <1>9, <2>1, WordIs
<1>11. ModInverse(k) = y
  BY <1>5, <1>10
<1>12. Rep(k) * Rep(ModInverse(k)) = k * y
  BY <1>1, <1>9, <1>11
<1> QED
  BY <1>4, <1>9, <1>11, <1>12

-----------------------------------------------------------------------------
(* The subkeys.                                                            *)

\* What encrypt puts into subKey[i], from those before.
SubKey(f, key, i) ==
  CASE i < 8      -> key[i + 1]
    [] i >= 8 /\ i % 8 = 6 -> Shifted(f[i - 7], f[i - 14])
    [] i >= 8 /\ i % 8 = 7 -> Shifted(f[i - 15], f[i - 14])
    [] OTHER      -> Shifted(f[i - 7], f[i - 6])

Wanted(i) ==
  /\ i - 7 \in 0 .. i - 1 /\ i - 6 \in 0 .. i - 1
  /\ i % 8 = 6 => i - 14 \in 0 .. i - 1
  /\ i % 8 = 7 => i - 14 \in 0 .. i - 1 /\ i - 15 \in 0 .. i - 1

LEMMA WantedAreBefore == \A i \in 8 .. 51 : Wanted(i)
PROOF
<1> SUFFICES ASSUME NEW i \in 8 .. 51 PROVE Wanted(i)
  OBVIOUS
<1>1. i \div 8 \in Nat /\ i = 8 * (i \div 8) + (i % 8) /\ i % 8 \in 0 .. 7
  <2>1. i \in Nat /\ 8 \in Nat \ {0}
    OBVIOUS
  <2> QED
    BY <2>1, Remainders
<1>2. i % 8 >= 6 => i >= 8 + (i % 8)
  BY <1>1
<1> QED
  BY <1>1, <1>2 DEF Wanted

LEMMA SubKeyTypes ==
  ASSUME NEW key \in [1 .. 8 -> WordSet], NEW i \in 0 .. 51, NEW f, NEW g,
         \A j \in 0 .. i - 1 : f[j] \in WordSet /\ g[j] = f[j]
  PROVE  SubKey(f, key, i) \in WordSet /\ SubKey(g, key, i) = SubKey(f, key, i)
PROOF
<1>1. CASE i < 8
  <2>1. i + 1 \in 1 .. 8
    BY <1>1
  <2> QED
    BY <1>1, <2>1 DEF SubKey
<1>2. CASE i >= 8
  <2>1. Wanted(i) /\ ~ (i < 8)
    BY <1>2, WantedAreBefore
  <2>2. CASE i % 8 = 6
    <3>1. /\ f[i - 7] \in WordSet /\ f[i - 14] \in WordSet
          /\ g[i - 7] = f[i - 7] /\ g[i - 14] = f[i - 14]
      BY <2>1, <2>2 DEF Wanted
    <3>2. /\ SubKey(f, key, i) = Shifted(f[i - 7], f[i - 14])
          /\ SubKey(g, key, i) = Shifted(g[i - 7], g[i - 14])
      BY <1>2, <2>1, <2>2 DEF SubKey
    <3> QED
      BY <3>1, <3>2, ShiftedIsWord
  <2>3. CASE i % 8 = 7
    <3>1. /\ f[i - 15] \in WordSet /\ f[i - 14] \in WordSet
          /\ g[i - 15] = f[i - 15] /\ g[i - 14] = f[i - 14]
      BY <2>1, <2>3 DEF Wanted
    <3>2. /\ SubKey(f, key, i) = Shifted(f[i - 15], f[i - 14])
          /\ SubKey(g, key, i) = Shifted(g[i - 15], g[i - 14])
      BY <1>2, <2>1, <2>3 DEF SubKey
    <3> QED
      BY <3>1, <3>2, ShiftedIsWord
  <2>4. CASE i % 8 # 6 /\ i % 8 # 7
    <3>1. /\ f[i - 7] \in WordSet /\ f[i - 6] \in WordSet
          /\ g[i - 7] = f[i - 7] /\ g[i - 6] = f[i - 6]
      BY <2>1, <2>4 DEF Wanted
    <3>2. /\ SubKey(f, key, i) = Shifted(f[i - 7], f[i - 6])
          /\ SubKey(g, key, i) = Shifted(g[i - 7], g[i - 6])
      BY <1>2, <2>1, <2>4 DEF SubKey
    <3> QED
      BY <3>1, <3>2, ShiftedIsWord
  <2> QED
    BY <2>2, <2>3, <2>4
<1> QED
  BY <1>1, <1>2

\* There is a function of the subkeys.
LEMMA SubKeysExist ==
  ASSUME NEW key \in [1 .. 8 -> WordSet]
  PROVE  \E g : g = [i \in 0 .. 51 |-> SubKey(g, key, i)]
PROOF
<1> DEFINE V == [0 .. 51 -> WordSet]
           With(f, n) == [f EXCEPT ![n - 1] = SubKey(f, key, n - 1)]
           next == [n \in 1 .. 52 |-> [f \in V |-> With(f, n)]]
           zero == [i \in 0 .. 51 |-> 0]
<1>1. ASSUME NEW f \in V, NEW n \in 1 .. 52
      PROVE  /\ With(f, n) \in V /\ With(f, n)[n - 1] = SubKey(f, key, n - 1)
             /\ \A j \in 0 .. 51 : j # n - 1 => With(f, n)[j] = f[j]
  <2>1. n - 1 \in 0 .. 51
    OBVIOUS
  <2>2. \A j \in 0 .. n - 1 - 1 : f[j] \in WordSet /\ f[j] = f[j]
    OBVIOUS
  <2>3. SubKey(f, key, n - 1) \in WordSet
    BY <2>1, <2>2, SubKeyTypes
  <2> QED
    BY <2>1, <2>3
<1>2. next \in [1 .. 52 -> [V -> V]] /\ zero \in V /\ 52 \in Nat
  <2>1. 0 \in WordSet
    BY Sizes DEF WordSet
  <2>2. zero \in V
    BY <2>1
  <2>3. \A n \in 1 .. 52 : \A f \in V : With(f, n) \in V
    BY <1>1
  <2> HIDE DEF V, With, zero
  <2> QED
    BY <2>2, <2>3
<1>3. PICK F \in [0 .. 52 -> V] :
        F[0] = zero /\ \A n \in 1 .. 52 : F[n] = next[n][F[n - 1]]
  <2> HIDE DEF next, V, zero
  <2>1. HasRecursion(52, V)
    BY <1>2, RecursionExists, Zenon
  <2> QED
    BY <1>2, <2>1, Zenon DEF HasRecursion
<1> HIDE DEF With
<1>4. ASSUME NEW n \in 1 .. 52
      PROVE  F[n - 1] \in V /\ F[n] \in V /\ F[n] = With(F[n - 1], n)
  <2> HIDE DEF V
  <2>1. n - 1 \in 0 .. 52 /\ n \in 0 .. 52
    OBVIOUS
  <2>2. F[n - 1] \in V /\ F[n] \in V
    BY <1>3, <2>1
  <2>3. next[n][F[n - 1]] = With(F[n - 1], n)
    BY <2>2
  <2> QED
    BY <1>3, <2>2, <2>3
<1> HIDE DEF next, zero
<1> DEFINE g == F[52]
<1>5. g \in V
  <2>1. 52 \in 0 .. 52
    OBVIOUS
  <2> HIDE DEF V
  <2> QED
    BY <1>3, <2>1
<1>6. \A j \in 0 .. 51 : \A m \in j + 1 .. 52 : F[m][j] = F[j + 1][j]
  <2> SUFFICES ASSUME NEW j \in 0 .. 51
               PROVE  \A m \in j + 1 .. 52 : F[m][j] = F[j + 1][j]
    OBVIOUS
  <2> DEFINE c == 52 - (j + 1)
             S == {k \in 0 .. c : F[j + 1 + k][j] = F[j + 1][j]}
  <2>1. c \in Nat
    OBVIOUS
  <2>2. 0 \in S
    OBVIOUS
  <2>3. ASSUME NEW k \in S, k \in 0 .. c - 1
        PROVE  k + 1 \in S
    <3> DEFINE n == j + 1 + (k + 1)
    <3>1. n \in 1 .. 52 /\ n - 1 = j + 1 + k /\ j # n - 1 /\ k + 1 \in 0 .. c
      <4>1. k \in 0 .. c - 1
        BY <2>3
      <4> HIDE DEF S
      <4> QED
        BY <2>1, <4>1
    <3> HIDE DEF n
    <3>2. F[n][j] = F[n - 1][j]
      <4>1. F[n - 1] \in V /\ F[n] = With(F[n - 1], n)
        BY <1>4, <3>1
      <4>2. With(F[n - 1], n)[j] = F[n - 1][j]
        <5> HIDE DEF V
        <5> QED
          BY <1>1, <3>1, <4>1
      <4> QED
        BY <4>1, <4>2
    <3>3. F[n - 1][j] = F[j + 1][j]
      BY <3>1
    <3> QED
      BY <3>1, <3>2, <3>3 DEF n
  <2>4. 0 .. c \subseteq S
    <3> HIDE DEF S, c
    <3> QED
      BY <2>1, <2>2, <2>3, BoundedInduction
  <2>5. ASSUME NEW m \in j + 1 .. 52 PROVE F[m][j] = F[j + 1][j]
    <3>1. m - (j + 1) \in 0 .. c /\ j + 1 + (m - (j + 1)) = m
      OBVIOUS
    <3>2. m - (j + 1) \in S
      BY <2>4, <3>1
    <3> QED
      BY <3>1, <3>2
  <2> QED
    BY <2>5
<1>7. ASSUME NEW i \in 0 .. 51
      PROVE  g[i] = SubKey(g, key, i)
  <2> DEFINE f == F[i]
  <2>1. i + 1 \in 1 .. 52 /\ (i + 1) - 1 = i /\ 52 \in i + 1 .. 52
    OBVIOUS
  <2>2. f \in V /\ F[i + 1] = With(f, i + 1)
    BY <1>4, <2>1
  <2>3. F[i + 1][i] = SubKey(f, key, i)
    <3> HIDE DEF f, V
    <3>1. With(f, i + 1)[(i + 1) - 1] = SubKey(f, key, (i + 1) - 1)
      BY <1>1, <2>1, <2>2
    <3> QED
      BY <2>1, <2>2, <3>1
  <2>4. g[i] = F[i + 1][i]
    BY <1>6, <2>1
  <2>5. \A j \in 0 .. i - 1 : f[j] \in WordSet /\ g[j] = f[j]
    <3> SUFFICES ASSUME NEW j \in 0 .. i - 1 PROVE f[j] \in WordSet /\ g[j] = f[j]
      OBVIOUS
    <3>1. j \in 0 .. 51 /\ i \in j + 1 .. 52 /\ 52 \in j + 1 .. 52
      OBVIOUS
    <3>2. f[j] = F[j + 1][j] /\ g[j] = F[j + 1][j]
      BY <1>6, <3>1
    <3>3. f[j] \in WordSet
      BY <2>2, <3>1
    <3> QED
      BY <3>2, <3>3
  <2> HIDE DEF f, g
  <2>6. SubKey(g, key, i) = SubKey(f, key, i)
    BY <2>5, SubKeyTypes
  <2> QED
    BY <2>3, <2>4, <2>6
<1>8. g = [i \in 0 .. 51 |-> SubKey(g, key, i)]
  <2>1. g = [i \in 0 .. 51 |-> g[i]]
    BY <1>5
  <2> HIDE DEF g
  <2> QED
    BY <1>7, <2>1
<1> QED
  BY <1>8

LEMMA SubKeysAreWords ==
  ASSUME NEW key \in [1 .. 8 -> WordSet]
  PROVE  EncryptSubKeys(key) \in [0 .. 51 -> WordSet]
PROOF
<1> DEFINE Body(f) == [i \in 0 .. 51 |-> SubKey(f, key, i)]
           g == EncryptSubKeys(key)
<1>1. \E f : f = Body(f)
  BY SubKeysExist
<1>2. g = CHOOSE f : f = Body(f)
  BY DEF EncryptSubKeys, SubKey
<1>3. g = Body(g)
  <2> HIDE DEF Body, g
  <2> QED
    BY <1>1, <1>2
<1>4. g = [i \in 0 .. 51 |-> SubKey(g, key, i)]
  BY <1>3
<1> HIDE DEF g
<1>5. \A i \in 0 .. 51 : g[i] = SubKey(g, key, i)
  BY <1>4
<1> DEFINE S == {n \in 0 .. 52 : \A j \in 0 .. n - 1 : g[j] \in WordSet}
<1>6. 0 \in S
  OBVIOUS
<1>7. ASSUME NEW n \in S, n \in 0 .. 52 - 1
      PROVE  n + 1 \in S
  <2>1. n \in 0 .. 51 /\ \A j \in 0 .. n - 1 : g[j] \in WordSet /\ g[j] = g[j]
    BY <1>7
  <2>2. SubKey(g, key, n) \in WordSet
    BY <2>1, SubKeyTypes
  <2>3. g[n] \in WordSet
    BY <1>5, <2>1, <2>2
  <2>4. \A j \in 0 .. (n + 1) - 1 : j = n \/ j \in 0 .. n - 1
    BY <2>1
  <2> QED
    BY <2>1, <2>3, <2>4
<1>8. 0 .. 52 \subseteq S
  <2>1. 52 \in Nat
    OBVIOUS
  <2> HIDE DEF S
  <2> QED
    BY <1>6, <1>7, <2>1, BoundedInduction
<1>9. \A j \in 0 .. 51 : g[j] \in WordSet
  <2>1. 52 \in S
    BY <1>8
  <2> QED
    BY <2>1
<1> QED
  BY <1>4, <1>9 DEF g

-----------------------------------------------------------------------------
(* A round, and what undoes it.                                            *)

Block == [1 .. 4 -> WordSet]

LEMMA BlockIs ==
  /\ \A a, b, c, d \in WordSet : <<a, b, c, d>> \in Block
  /\ \A x \in Block : /\ x = <<x[1], x[2], x[3], x[4]>>
                      /\ \A i \in 1 .. 4 : x[i] \in WordSet
PROOF
<1>1. \A a, b, c, d \in WordSet : <<a, b, c, d>> \in Block
  BY DEF Block
<1>2. ASSUME NEW x \in Block
      PROVE  x = <<x[1], x[2], x[3], x[4]>>
  <2>1. x = [i \in 1 .. 4 |-> x[i]]
    BY DEF Block
  <2>2. <<x[1], x[2], x[3], x[4]>> = [i \in 1 .. 4 |-> <<x[1], x[2], x[3], x[4]>>[i]]
    OBVIOUS
  <2>3. \A i \in 1 .. 4 : <<x[1], x[2], x[3], x[4]>>[i] = x[i]
    OBVIOUS
  <2> QED
    BY <2>1, <2>2, <2>3
<1> QED
  BY <1>1, <1>2 DEF Block

\* Steps 1 to 4 with the subkeys a to d.
Mixed(x, a, b, c, d) ==
  <<MulMod65537(x[1], a), Word(x[2] + b), Word(x[3] + c), MulMod65537(x[4], d)>>

Crossed(x) == <<x[1], x[3], x[2], x[4]>>

\* Steps 5 to 10 with the subkeys k and l, on the words p and q that the first
\* two of them give.
Step7(p, k) == MulMod65537(p, k)
Step9(p, q, k, l) == MulMod65537(Word(q + Step7(p, k)), l)
Step10(p, q, k, l) == Word(Step7(p, k) + Step9(p, q, k, l))

FoldedWith(y, s, t) ==
  <<XorWords(y[1], t), XorWords(y[2], s), XorWords(y[3], t), XorWords(y[4], s)>>

Folded(y, k, l) ==
  LET p == XorWords(y[1], y[3])
      q == XorWords(y[2], y[4])
  IN  FoldedWith(y, Step10(p, q, k, l), Step9(p, q, k, l))

LEMMA RoundIs ==
  ASSUME NEW x \in Block, NEW sub, NEW at
  PROVE  Round(x, sub, at) =
           Crossed(Folded(Mixed(x, sub[at], sub[at + 1], sub[at + 2], sub[at + 3]),
                          sub[at + 4], sub[at + 5]))
PROOF
<1> DEFINE y == Mixed(x, sub[at], sub[at + 1], sub[at + 2], sub[at + 3])
           p == XorWords(y[1], y[3])
           q == XorWords(y[2], y[4])
           k == sub[at + 4]
           l == sub[at + 5]
           s == Step10(p, q, k, l)
           t == Step9(p, q, k, l)
<1>1. /\ y[1] = MulMod65537(x[1], sub[at]) /\ y[2] = Word(x[2] + sub[at + 1])
      /\ y[3] = Word(x[3] + sub[at + 2]) /\ y[4] = MulMod65537(x[4], sub[at + 3])
  BY DEF Mixed
<1>2. Round(x, sub, at) =
        <<XorWords(y[1], t), XorWords(y[3], t), XorWords(y[2], s), XorWords(y[4], s)>>
  <2> HIDE DEF y
  <2> QED
    BY <1>1 DEF Round, Step7, Step9, Step10
<1>3. Crossed(Folded(y, k, l)) =
        <<XorWords(y[1], t), XorWords(y[3], t), XorWords(y[2], s), XorWords(y[4], s)>>
  <2> HIDE DEF y
  <2> QED
    BY DEF Crossed, Folded, FoldedWith
<1> QED
  BY <1>2, <1>3

LEMMA CrossedTwice ==
  ASSUME NEW x \in Block
  PROVE  Crossed(x) \in Block /\ Crossed(Crossed(x)) = x
PROOF
<1> QED
  BY BlockIs DEF Crossed

\* The middle of a round is its own inverse.
LEMMA FoldedTwice ==
  ASSUME NEW y \in Block, NEW k \in WordSet, NEW l \in WordSet
  PROVE  Folded(y, k, l) \in Block /\ Folded(Folded(y, k, l), k, l) = y
PROOF
<1> DEFINE p == XorWords(y[1], y[3])
           q == XorWords(y[2], y[4])
           s == Step10(p, q, k, l)
           t == Step9(p, q, k, l)
           z == FoldedWith(y, s, t)
<1>1. y[1] \in WordSet /\ y[2] \in WordSet /\ y[3] \in WordSet /\ y[4] \in WordSet
  BY BlockIs
<1>2. p \in WordSet /\ q \in WordSet
  BY <1>1, XorOfWords
<1> HIDE DEF p, q
<1>3. s \in WordSet /\ t \in WordSet
  <2>1. \A u, v \in WordSet : Word(u + v) \in WordSet
    <3> SUFFICES ASSUME NEW u \in WordSet, NEW v \in WordSet
                 PROVE  Word(u + v) \in WordSet
      OBVIOUS
    <3>1. u + v \in Int
      BY RepTypes
    <3> QED
      BY <3>1, WordOf
  <2>2. Step7(p, k) \in WordSet
    BY <1>2, Product DEF Step7, IsProduct
  <2>3. Word(q + Step7(p, k)) \in WordSet
    BY <1>2, <2>1, <2>2
  <2>4. t \in WordSet
    BY <2>3, Product DEF Step9, IsProduct
  <2>5. s \in WordSet
    BY <2>1, <2>2, <2>4 DEF Step10
  <2> QED
    BY <2>4, <2>5
<1> HIDE DEF s, t
<1>4. /\ z[1] = XorWords(y[1], t) /\ z[2] = XorWords(y[2], s)
      /\ z[3] = XorWords(y[3], t) /\ z[4] = XorWords(y[4], s)
  BY DEF FoldedWith
<1>5. z \in Block
  <2>1. /\ XorWords(y[1], t) \in WordSet /\ XorWords(y[2], s) \in WordSet
        /\ XorWords(y[3], t) \in WordSet /\ XorWords(y[4], s) \in WordSet
    BY <1>1, <1>3, XorOfWords
  <2> QED
    BY <2>1, BlockIs DEF FoldedWith
<1>6. Folded(y, k, l) = z
  BY DEF Folded, p, q, s, t
<1> HIDE DEF z
<1>7. XorWords(z[1], z[3]) = p /\ XorWords(z[2], z[4]) = q
  <2>1. /\ XorWords(XorWords(y[1], t), XorWords(y[3], t)) = XorWords(y[1], y[3])
        /\ XorWords(XorWords(y[2], s), XorWords(y[4], s)) = XorWords(y[2], y[4])
    BY <1>1, <1>3, XorShared
  <2> QED
    BY <1>4, <2>1 DEF p, q
<1>8. Folded(z, k, l) = FoldedWith(z, s, t)
  BY <1>7 DEF Folded, s, t
<1>9. FoldedWith(z, s, t) = <<y[1], y[2], y[3], y[4]>>
  <2>1. /\ XorWords(XorWords(y[1], t), t) = y[1] /\ XorWords(XorWords(y[2], s), s) = y[2]
        /\ XorWords(XorWords(y[3], t), t) = y[3] /\ XorWords(XorWords(y[4], s), s) = y[4]
    BY <1>1, <1>3, XorOfWords
  <2> QED
    BY <1>4, <2>1 DEF FoldedWith
<1>10. y = <<y[1], y[2], y[3], y[4]>>
  BY BlockIs
<1> QED
  BY <1>5, <1>6, <1>8, <1>9, <1>10

LEMMA SumUndone ==
  ASSUME NEW a \in WordSet, NEW b \in WordSet
  PROVE  /\ Word(a + b) \in WordSet /\ Word(-b) \in WordSet
         /\ Word(Word(a + b) + Word(-b)) = a
PROOF
<1>1. a \in Int /\ b \in Int /\ a + b \in Int /\ -b \in Int /\ Words \in Int
  BY RepTypes, Sizes
<1> DEFINE c == Word(a + b)
           d == Word(-b)
<1>2. c \in WordSet /\ Alike(Words, c, a + b) /\ d \in WordSet /\ Alike(Words, d, -b)
  BY <1>1, WordOf
<1> HIDE DEF c, d
<1>3. c \in Int /\ d \in Int /\ c + d \in Int
  BY <1>2, RepTypes
<1>4. Alike(Words, c + d, (a + b) + (-b))
  BY <1>1, <1>2, <1>3, AlikeSum
<1>5. (a + b) + (-b) = a
  BY <1>1
<1>6. Word(c + d) = a
  BY <1>3, <1>4, <1>5, WordIs
<1> QED
  BY <1>2, <1>6 DEF c, d

LEMMA MixedTypes ==
  ASSUME NEW x \in Block, NEW a \in WordSet, NEW b \in WordSet, NEW c \in WordSet,
         NEW d \in WordSet
  PROVE  Mixed(x, a, b, c, d) \in Block
PROOF
<1>1. /\ x[1] \in WordSet /\ x[2] \in WordSet /\ x[3] \in WordSet /\ x[4] \in WordSet
  BY BlockIs
<1>2. /\ MulMod65537(x[1], a) \in WordSet /\ Word(x[2] + b) \in WordSet
      /\ Word(x[3] + c) \in WordSet /\ MulMod65537(x[4], d) \in WordSet
  BY <1>1, Product, SumUndone DEF IsProduct
<1> QED
  BY <1>2, BlockIs DEF Mixed

\* The steps with the subkeys e to h undo those with the subkeys a to d.
Undoes(e, f, g, h, a, b, c, d) ==
  /\ \A x \in Block : Mixed(Mixed(x, a, b, c, d), e, f, g, h) = x
  /\ \A x \in Block : Mixed(Crossed(Mixed(x, a, b, c, d)), e, g, f, h) = Crossed(x)

\* The inverses of the subkeys do so.
LEMMA MixedUndone ==
  ASSUME NEW a \in WordSet, NEW b \in WordSet, NEW c \in WordSet, NEW d \in WordSet,
         a # 0, d # 0
  PROVE  Undoes(ModInverse(a), Word(-b), Word(-c), ModInverse(d), a, b, c, d)
PROOF
<1> SUFFICES ASSUME NEW x \in Block
             PROVE  /\ Mixed(Mixed(x, a, b, c, d),
                             ModInverse(a), Word(-b), Word(-c), ModInverse(d)) = x
                    /\ Mixed(Crossed(Mixed(x, a, b, c, d)),
                             ModInverse(a), Word(-c), Word(-b), ModInverse(d)) = Crossed(x)
  BY DEF Undoes
<1> DEFINE y == Mixed(x, a, b, c, d)
           z == Crossed(y)
<1>1. /\ x[1] \in WordSet /\ x[2] \in WordSet /\ x[3] \in WordSet /\ x[4] \in WordSet
  BY BlockIs
<1>2. /\ y[1] = MulMod65537(x[1], a) /\ y[2] = Word(x[2] + b)
      /\ y[3] = Word(x[3] + c) /\ y[4] = MulMod65537(x[4], d)
  BY DEF Mixed
<1> HIDE DEF y
<1>3. z[1] = y[1] /\ z[2] = y[3] /\ z[3] = y[2] /\ z[4] = y[4]
  BY DEF Crossed
<1> HIDE DEF z
<1>4. MulMod65537(y[1], ModInverse(a)) = x[1]
  <2>1. ModInverse(a) \in WordSet /\ Alike(Modulus, Rep(a) * Rep(ModInverse(a)), 1)
    BY InverseIs
  <2> QED
    BY <1>1, <1>2, <2>1, ProductUndone
<1>5. MulMod65537(y[4], ModInverse(d)) = x[4]
  <2>1. ModInverse(d) \in WordSet /\ Alike(Modulus, Rep(d) * Rep(ModInverse(d)), 1)
    BY InverseIs
  <2> QED
    BY <1>1, <1>2, <2>1, ProductUndone
<1>6. Word(y[2] + Word(-b)) = x[2] /\ Word(y[3] + Word(-c)) = x[3]
  BY <1>1, <1>2, SumUndone
<1>7. x = <<x[1], x[2], x[3], x[4]>>
  BY BlockIs
<1>8. Mixed(y, ModInverse(a), Word(-b), Word(-c), ModInverse(d)) = x
  BY <1>4, <1>5, <1>6, <1>7 DEF Mixed
<1>9. Mixed(z, ModInverse(a), Word(-c), Word(-b), ModInverse(d)) = Crossed(x)
  BY <1>3, <1>4, <1>5, <1>6 DEF Mixed, Crossed
<1> QED
  BY <1>8, <1>9 DEF y, z

LEMMA PartOfRound ==
  ASSUME NEW j \in Nat, NEW p \in 0 .. 5
  PROVE  (6 * j + p) \div 6 = j /\ (6 * j + p) % 6 = p
PROOF
<1> DEFINE n == 6 * j + p
           q == n \div 6
           r == n % 6
<1>1. n \in Nat /\ n = 6 * j + p /\ 6 \in Nat \ {0}
  OBVIOUS
<1>2. q \in Nat /\ r \in 0 .. 6 - 1 /\ n = 6 * q + r
  BY <1>1, Remainders
<1> HIDE DEF n, q, r
<1>3. q = j /\ r = p
  BY <1>1, <1>2
<1> QED
  BY <1>3 DEF q, r, n

\* The subkeys of a round of decryption that mix, from those of encryption
\* which begin at another place, and those it folds with.
LEMMA DecryptSubKeysAre ==
  ASSUME NEW key, NEW j \in 0 .. 8
  PROVE  LET K == EncryptSubKeys(key)
             S == DecryptSubKeys(key)
         IN  /\ S[6 * j] = ModInverse(K[48 - 6 * j])
             /\ S[6 * j + 1] = Word(-K[IF j \in 1 .. 7 THEN 50 - 6 * j ELSE 49 - 6 * j])
             /\ S[6 * j + 2] = Word(-K[IF j \in 1 .. 7 THEN 49 - 6 * j ELSE 50 - 6 * j])
             /\ S[6 * j + 3] = ModInverse(K[51 - 6 * j])
             /\ j < 8 => /\ S[6 * j + 4] = K[46 - 6 * j]
                         /\ S[6 * j + 5] = K[47 - 6 * j]
PROOF
<1> DEFINE K == EncryptSubKeys(key)
           S == DecryptSubKeys(key)
           Four(i) ==
             LET at == 48 - i
                 swap == i \notin {0, 48}
             IN  <<ModInverse(K[at]),
                   Word(-K[IF swap THEN at + 2 ELSE at + 1]),
                   Word(-K[IF swap THEN at + 1 ELSE at + 2]),
                   ModInverse(K[at + 3])>>
           Value(n) == IF n % 6 < 4 THEN Four(6 * (n \div 6))[(n % 6) + 1]
                                    ELSE K[46 - 6 * (n \div 6) + (n % 6) - 4]
<1>1. S = [n \in 0 .. 51 |-> Value(n)]
  BY DEF DecryptSubKeys
<1> HIDE DEF S
<1>2. \A n \in 0 .. 51 : S[n] = Value(n)
  <2> HIDE DEF Value
  <2> QED
    BY <1>1
<1>3. /\ 6 * j + 0 = 6 * j /\ j \in Nat
      /\ \A p \in 0 .. 3 : 6 * j + p \in 0 .. 51
      /\ j < 8 => \A p \in 4 .. 5 : 6 * j + p \in 0 .. 51
  OBVIOUS
<1>4. \A p \in 0 .. 3 : S[6 * j + p] = Four(6 * j)[p + 1]
  <2> SUFFICES ASSUME NEW p \in 0 .. 3 PROVE S[6 * j + p] = Four(6 * j)[p + 1]
    OBVIOUS
  <2>1. p \in 0 .. 5 /\ p < 4
    OBVIOUS
  <2>2. (6 * j + p) \div 6 = j /\ (6 * j + p) % 6 = p
    BY <1>3, <2>1, PartOfRound
  <2>3. S[6 * j + p] = Value(6 * j + p)
    BY <1>2, <1>3
  <2> HIDE DEF Four
  <2> QED
    BY <2>1, <2>2, <2>3
<1>5. j < 8 => \A p \in 4 .. 5 : S[6 * j + p] = K[46 - 6 * j + p - 4]
  <2> SUFFICES ASSUME j < 8, NEW p \in 4 .. 5 PROVE S[6 * j + p] = K[46 - 6 * j + p - 4]
    OBVIOUS
  <2>1. p \in 0 .. 5 /\ ~ (p < 4)
    OBVIOUS
  <2>2. (6 * j + p) \div 6 = j /\ (6 * j + p) % 6 = p
    BY <1>3, <2>1, PartOfRound
  <2>3. S[6 * j + p] = Value(6 * j + p)
    BY <1>2, <1>3
  <2> HIDE DEF Four, K
  <2> QED
    BY <2>1, <2>2, <2>3
<1>6. (6 * j \notin {0, 48}) <=> j \in 1 .. 7
  OBVIOUS
<1>7. /\ 48 - 6 * j + 2 = 50 - 6 * j /\ 48 - 6 * j + 1 = 49 - 6 * j /\ 48 - 6 * j + 3 = 51 - 6 * j
      /\ 46 - 6 * j + 4 - 4 = 46 - 6 * j /\ 46 - 6 * j + 5 - 4 = 47 - 6 * j
  OBVIOUS
<1> HIDE DEF K
<1>8. /\ Four(6 * j)[1] = ModInverse(K[48 - 6 * j])
      /\ Four(6 * j)[2] = Word(-K[IF j \in 1 .. 7 THEN 50 - 6 * j ELSE 49 - 6 * j])
      /\ Four(6 * j)[3] = Word(-K[IF j \in 1 .. 7 THEN 49 - 6 * j ELSE 50 - 6 * j])
      /\ Four(6 * j)[4] = ModInverse(K[51 - 6 * j])
  BY <1>6, <1>7
<1> HIDE DEF Four
<1>9. S[6 * j] = Four(6 * j)[1]
  <2>1. S[6 * j + 0] = Four(6 * j)[0 + 1]
    BY <1>4
  <2> QED
    BY <1>3, <2>1
<1>10. S[6 * j + 1] = Four(6 * j)[2] /\ S[6 * j + 2] = Four(6 * j)[3] /\ S[6 * j + 3] = Four(6 * j)[4]
  <2>1. /\ S[6 * j + 1] = Four(6 * j)[1 + 1] /\ S[6 * j + 2] = Four(6 * j)[2 + 1]
        /\ S[6 * j + 3] = Four(6 * j)[3 + 1]
    BY <1>4
  <2> QED
    BY <2>1
<1>11. j < 8 => S[6 * j + 4] = K[46 - 6 * j] /\ S[6 * j + 5] = K[47 - 6 * j]
  <2> SUFFICES ASSUME j < 8 PROVE S[6 * j + 4] = K[46 - 6 * j] /\ S[6 * j + 5] = K[47 - 6 * j]
    OBVIOUS
  <2>1. S[6 * j + 4] = K[46 - 6 * j + 4 - 4] /\ S[6 * j + 5] = K[46 - 6 * j + 5 - 4]
    BY <1>5
  <2> QED
    BY <1>7, <2>1
<1> QED
  BY <1>8, <1>9, <1>10, <1>11 DEF K, S

\* None of the subkeys that decryption inverts is 0.
Invertible(key) == \A i \in Inverted : EncryptSubKeys(key)[i] # 0

LEMMA InvertedAre ==
  ASSUME NEW key, Invertible(key), NEW j \in 0 .. 8
  PROVE  EncryptSubKeys(key)[48 - 6 * j] # 0 /\ EncryptSubKeys(key)[51 - 6 * j] # 0
PROOF
<1>1. /\ 8 - j \in Nat /\ 48 - 6 * j = 6 * (8 - j) + 0 /\ 51 - 6 * j = 6 * (8 - j) + 3
      /\ 48 - 6 * j \in 0 .. 51 /\ 51 - 6 * j \in 0 .. 51
  OBVIOUS
<1>2. (6 * (8 - j) + 0) % 6 = 0 /\ (6 * (8 - j) + 3) % 6 = 3
  BY <1>1, PartOfRound
<1>3. (48 - 6 * j) % 6 = 0 /\ (51 - 6 * j) % 6 = 3
  BY <1>1, <1>2
<1>4. 48 - 6 * j \in Inverted /\ 51 - 6 * j \in Inverted
  BY <1>1, <1>3 DEF Inverted
<1> QED
  BY <1>4 DEF Invertible

LEMMA DecryptSubKeysTypes ==
  ASSUME NEW key \in [1 .. 8 -> WordSet], Invertible(key), NEW n \in 0 .. 51
  PROVE  DecryptSubKeys(key)[n] \in WordSet
PROOF
<1> DEFINE K == EncryptSubKeys(key)
           S == DecryptSubKeys(key)
           j == n \div 6
           p == n % 6
<1>1. j \in Nat /\ p \in 0 .. 6 - 1 /\ n = 6 * j + p
  <2>1. n \in Nat /\ 6 \in Nat \ {0}
    OBVIOUS
  <2> QED
    BY <2>1, Remainders
<1> HIDE DEF j, p
<1>2. j \in 0 .. 8 /\ (j = 8 => p \in 0 .. 3)
  BY <1>1
<1>3. \A i \in 0 .. 51 : K[i] \in WordSet
  BY SubKeysAreWords
<1>4. /\ 48 - 6 * j \in 0 .. 51 /\ 49 - 6 * j \in 0 .. 51
      /\ 50 - 6 * j \in 0 .. 51 /\ 51 - 6 * j \in 0 .. 51
      /\ j < 8 => 46 - 6 * j \in 0 .. 51 /\ 47 - 6 * j \in 0 .. 51
  BY <1>2
<1>5. K[48 - 6 * j] # 0 /\ K[51 - 6 * j] # 0
  BY <1>2, InvertedAre
<1>6. /\ S[6 * j] = ModInverse(K[48 - 6 * j])
      /\ S[6 * j + 1] = Word(-K[IF j \in 1 .. 7 THEN 50 - 6 * j ELSE 49 - 6 * j])
      /\ S[6 * j + 2] = Word(-K[IF j \in 1 .. 7 THEN 49 - 6 * j ELSE 50 - 6 * j])
      /\ S[6 * j + 3] = ModInverse(K[51 - 6 * j])
      /\ j < 8 => /\ S[6 * j + 4] = K[46 - 6 * j]
                  /\ S[6 * j + 5] = K[47 - 6 * j]
  BY <1>2, DecryptSubKeysAre
<1> HIDE DEF K, S
<1>7. S[6 * j] \in WordSet /\ S[6 * j + 3] \in WordSet
  <2>1. K[48 - 6 * j] \in WordSet /\ K[51 - 6 * j] \in WordSet
    BY <1>3, <1>4
  <2> QED
    BY <1>5, <1>6, <2>1, InverseIs
<1>8. S[6 * j + 1] \in WordSet /\ S[6 * j + 2] \in WordSet
  <2> DEFINE e == IF j \in 1 .. 7 THEN 50 - 6 * j ELSE 49 - 6 * j
             f == IF j \in 1 .. 7 THEN 49 - 6 * j ELSE 50 - 6 * j
  <2>1. e \in 0 .. 51 /\ f \in 0 .. 51
    BY <1>4
  <2>2. S[6 * j + 1] = Word(-K[e]) /\ S[6 * j + 2] = Word(-K[f])
    BY <1>6
  <2> HIDE DEF e, f
  <2>3. K[e] \in WordSet /\ K[f] \in WordSet
    BY <1>3, <2>1
  <2> QED
    BY <2>2, <2>3, SumUndone
<1>9. j < 8 => S[6 * j + 4] \in WordSet /\ S[6 * j + 5] \in WordSet
  BY <1>3, <1>4, <1>6
<1>10. S[n] \in WordSet
  <2>1. p = 0 => 6 * j + p = 6 * j
    BY <1>1
  <2>2. p = 0 \/ p = 1 \/ p = 2 \/ p = 3 \/ (j < 8 /\ (p = 4 \/ p = 5))
    BY <1>1, <1>2
  <2> QED
    BY <1>1, <1>7, <1>8, <1>9, <2>1, <2>2
<1> QED
  BY <1>10 DEF S

-----------------------------------------------------------------------------
(* A block.                                                                *)

\* The words before each round and after the last.
Turned(X, data, sub) ==
  /\ X \in [0 .. 8 -> Block] /\ X[0] = data
  /\ \A i \in 1 .. 8 : X[i] = Round(X[i - 1], sub, 6 * (i - 1))

LEMMA RoundTypes ==
  ASSUME NEW x \in Block, NEW sub, \A n \in 0 .. 51 : sub[n] \in WordSet,
         NEW i \in 1 .. 8
  PROVE  Round(x, sub, 6 * (i - 1)) \in Block
PROOF
<1> DEFINE at == 6 * (i - 1)
<1>1. /\ at \in 0 .. 51 /\ at + 1 \in 0 .. 51 /\ at + 2 \in 0 .. 51
      /\ at + 3 \in 0 .. 51 /\ at + 4 \in 0 .. 51 /\ at + 5 \in 0 .. 51
  OBVIOUS
<1> HIDE DEF at
<1> DEFINE y == Mixed(x, sub[at], sub[at + 1], sub[at + 2], sub[at + 3])
           z == Folded(y, sub[at + 4], sub[at + 5])
<1>2. y \in Block
  BY <1>1, MixedTypes
<1> HIDE DEF y
<1>3. z \in Block
  BY <1>1, <1>2, FoldedTwice
<1> HIDE DEF z
<1>4. Crossed(z) \in Block
  BY <1>3, CrossedTwice
<1>5. Round(x, sub, at) = Crossed(z)
  BY RoundIs DEF y, z
<1> QED
  BY <1>4, <1>5 DEF at

LEMMA IDEAIs ==
  ASSUME NEW data \in Block, NEW sub, \A n \in 0 .. 51 : sub[n] \in WordSet
  PROVE  \E X : /\ Turned(X, data, sub)
                /\ IDEA(data, sub) =
                     Mixed(Crossed(X[8]), sub[48], sub[49], sub[50], sub[51])
PROOF
<1> DEFINE V == Block
           Body(f) == [i \in 0 .. 8 |->
                         IF i = 0 THEN data ELSE Round(f[i - 1], sub, 6 * (i - 1))]
           next == [i \in 1 .. 8 |-> [x \in V |-> Round(x, sub, 6 * (i - 1))]]
           X == CHOOSE f : f = Body(f)
<1>1. next \in [1 .. 8 -> [V -> V]] /\ 8 \in Nat
  BY RoundTypes
<1>2. PICK f \in [0 .. 8 -> V] :
        f[0] = data /\ \A n \in 1 .. 8 : f[n] = next[n][f[n - 1]]
  <2> HIDE DEF next, Body, X, V
  <2>1. HasRecursion(8, V)
    BY <1>1, RecursionExists, Zenon
  <2>2. data \in V
    BY DEF V
  <2> QED
    BY <1>1, <2>1, <2>2, Zenon DEF HasRecursion
<1>3. f = Body(f)
  <2> HIDE DEF V
  <2>1. ASSUME NEW n \in 1 .. 8
        PROVE  f[n] = Round(f[n - 1], sub, 6 * (n - 1))
    <3>1. n - 1 \in 0 .. 8
      OBVIOUS
    <3>2. f[n - 1] \in V
      BY <1>2, <3>1
    <3>3. next[n][f[n - 1]] = Round(f[n - 1], sub, 6 * (n - 1))
      BY <3>2
    <3> QED
      BY <1>2, <3>3
  <2>2. \A n \in 0 .. 8 : n = 0 \/ n \in 1 .. 8
    OBVIOUS
  <2>3. \A n \in 0 .. 8 : f[n] = Body(f)[n]
    BY <1>2, <2>1, <2>2
  <2> QED
    BY <1>2, <2>3
<1>4. X = Body(X)
  <2> HIDE DEF Body
  <2> QED
    BY <1>3
<1> HIDE DEF X
<1>5. \A i \in 0 .. 8 : X[i] = Body(X)[i]
  BY <1>4
<1>6. X[0] = data /\ \A i \in 1 .. 8 : X[i] = Round(X[i - 1], sub, 6 * (i - 1))
  <2>1. X[0] = data
    BY <1>5
  <2>2. ASSUME NEW i \in 1 .. 8
        PROVE  X[i] = Round(X[i - 1], sub, 6 * (i - 1))
    <3>1. i \in 0 .. 8 /\ i # 0
      OBVIOUS
    <3> QED
      BY <1>5, <3>1
  <2> QED
    BY <2>1, <2>2
<1>7. \A i \in 0 .. 8 : X[i] \in Block
  <2> DEFINE T == {i \in 0 .. 8 : X[i] \in Block}
  <2>1. 0 \in T /\ 8 \in Nat
    BY <1>6
  <2>2. ASSUME NEW i \in T, i \in 0 .. 8 - 1
        PROVE  i + 1 \in T
    <3>1. i + 1 \in 1 .. 8 /\ i + 1 \in 0 .. 8 /\ (i + 1) - 1 = i
      BY <2>2
    <3>2. X[i + 1] = Round(X[(i + 1) - 1], sub, 6 * ((i + 1) - 1))
      BY <1>6, <3>1
    <3>3. X[(i + 1) - 1] \in Block
      BY <3>1
    <3>4. X[i + 1] \in Block
      BY <3>1, <3>2, <3>3, RoundTypes
    <3> QED
      BY <3>1, <3>4
  <2>3. 0 .. 8 \subseteq T
    <3> HIDE DEF T
    <3> QED
      BY <2>1, <2>2, BoundedInduction
  <2> QED
    BY <2>3
<1>8. X = [i \in 0 .. 8 |-> X[i]]
  <2> HIDE DEF V
  <2>1. X = Body(X)
    BY <1>4
  <2>2. DOMAIN X = 0 .. 8
    BY <2>1
  <2> QED
    BY <2>1
<1>9. Turned(X, data, sub)
  BY <1>6, <1>7, <1>8 DEF Turned
<1>10. IDEA(data, sub) =
         <<MulMod65537(X[8][1], sub[48]), Word(X[8][3] + sub[49]),
           Word(X[8][2] + sub[50]), MulMod65537(X[8][4], sub[51])>>
  BY DEF IDEA, X
<1>11. IDEA(data, sub) = Mixed(Crossed(X[8]), sub[48], sub[49], sub[50], sub[51])
  BY <1>10 DEF Mixed, Crossed
<1> QED
  BY <1>9, <1>11

\* A round of decryption undoes the folding of the round of encryption before
\* it and leaves what that had mixed, crossed.
LEMMA RoundUndone ==
  ASSUME NEW y \in Block, NEW d \in Block, NEW S, NEW at, NEW k \in WordSet,
         NEW l \in WordSet, S[at + 4] = k, S[at + 5] = l,
         Mixed(d, S[at], S[at + 1], S[at + 2], S[at + 3]) = Folded(y, k, l)
  PROVE  Round(d, S, at) = Crossed(y)
PROOF
<1>1. Folded(Folded(y, k, l), k, l) = y
  BY FoldedTwice
<1> QED
  BY <1>1, RoundIs

\* What decodes an encoded block gives the block.
LEMMA BlockReturns ==
  ASSUME NEW key \in [1 .. 8 -> WordSet], Invertible(key), NEW block \in Block
  PROVE  EncodeBlock(block, key) \in Block /\ DecodeBlock(EncodeBlock(block, key), key) = block
PROOF
<1> DEFINE K == EncryptSubKeys(key)
           S == DecryptSubKeys(key)
           sent == IDEA(block, K)
           Y(X, i) == Mixed(X[i - 1], K[6 * (i - 1)], K[6 * (i - 1) + 1],
                            K[6 * (i - 1) + 2], K[6 * (i - 1) + 3])
<1>1. \A n \in 0 .. 51 : K[n] \in WordSet /\ S[n] \in WordSet
  BY SubKeysAreWords, DecryptSubKeysTypes
<1>2. ASSUME NEW j \in 0 .. 8
      PROVE  /\ S[6 * j] = ModInverse(K[48 - 6 * j])
             /\ S[6 * j + 1] = Word(-K[IF j \in 1 .. 7 THEN 50 - 6 * j ELSE 49 - 6 * j])
             /\ S[6 * j + 2] = Word(-K[IF j \in 1 .. 7 THEN 49 - 6 * j ELSE 50 - 6 * j])
             /\ S[6 * j + 3] = ModInverse(K[51 - 6 * j])
             /\ j < 8 => /\ S[6 * j + 4] = K[46 - 6 * j]
                         /\ S[6 * j + 5] = K[47 - 6 * j]
             /\ K[48 - 6 * j] # 0 /\ K[51 - 6 * j] # 0
  BY DecryptSubKeysAre, InvertedAre
<1> HIDE DEF K, S
<1>3. PICK X : /\ Turned(X, block, K)
               /\ sent = Mixed(Crossed(X[8]), K[48], K[49], K[50], K[51])
  BY <1>1, IDEAIs
<1> HIDE DEF sent
<1>4. \A i \in 0 .. 8 : X[i] \in Block
  BY <1>3 DEF Turned
<1>5. sent \in Block
  <2>1. Crossed(X[8]) \in Block
    BY <1>4, CrossedTwice
  <2>2. /\ K[48] \in WordSet /\ K[49] \in WordSet /\ K[50] \in WordSet /\ K[51] \in WordSet
    BY <1>1
  <2> QED
    BY <1>3, <2>1, <2>2, MixedTypes
<1>6. PICK D : /\ Turned(D, sent, S)
               /\ IDEA(sent, S) = Mixed(Crossed(D[8]), S[48], S[49], S[50], S[51])
  BY <1>1, <1>5, IDEAIs
<1>7. \A i \in 0 .. 8 : D[i] \in Block
  BY <1>6 DEF Turned
<1>8. ASSUME NEW i \in 1 .. 8
      PROVE  /\ Y(X, i) \in Block
             /\ Crossed(X[i]) = Folded(Y(X, i), K[6 * i - 2], K[6 * i - 1])
  <2> DEFINE y == Y(X, i)
             at == 6 * (i - 1)
  <2>1. /\ at \in 0 .. 51 /\ at + 1 \in 0 .. 51 /\ at + 2 \in 0 .. 51 /\ at + 3 \in 0 .. 51
        /\ 6 * i - 2 \in 0 .. 51 /\ 6 * i - 1 \in 0 .. 51 /\ i - 1 \in 0 .. 8
        /\ at + 4 = 6 * i - 2 /\ at + 5 = 6 * i - 1
    OBVIOUS
  <2> HIDE DEF at
  <2>2. y = Mixed(X[i - 1], K[at], K[at + 1], K[at + 2], K[at + 3])
    BY DEF at
  <2> HIDE DEF y
  <2>3. y \in Block
    BY <1>1, <1>4, <2>1, <2>2, MixedTypes
  <2>4. X[i] = Round(X[i - 1], K, at)
    BY <1>3 DEF Turned, at
  <2>5. X[i] = Crossed(Folded(y, K[6 * i - 2], K[6 * i - 1]))
    BY <1>4, <2>1, <2>2, <2>4, RoundIs
  <2>6. Folded(y, K[6 * i - 2], K[6 * i - 1]) \in Block
    BY <1>1, <2>1, <2>3, FoldedTwice
  <2>7. Crossed(X[i]) = Folded(y, K[6 * i - 2], K[6 * i - 1])
    BY <2>5, <2>6, CrossedTwice
  <2> QED
    BY <2>3, <2>7 DEF y
<1> DEFINE T == {j \in 0 .. 7 : D[j + 1] = Crossed(Y(X, 8 - j))}
<1>9. 0 \in T
  <2>1. D[1] = Round(D[0], S, 0) /\ D[0] = sent
    <3>1. 1 \in 1 .. 8 /\ 6 * (1 - 1) = 0 /\ 1 - 1 = 0
      OBVIOUS
    <3> QED
      BY <1>6, <3>1 DEF Turned
  <2>2. /\ S[0] = ModInverse(K[48]) /\ S[1] = Word(-K[49]) /\ S[2] = Word(-K[50])
        /\ S[3] = ModInverse(K[51]) /\ S[4] = K[46] /\ S[5] = K[47]
        /\ K[48] # 0 /\ K[51] # 0
    <3>1. 0 \in 0 .. 8 /\ ~ (0 \in 1 .. 7) /\ 0 < 8
      OBVIOUS
    <3>2. /\ 6 * 0 = 0 /\ 6 * 0 + 1 = 1 /\ 6 * 0 + 2 = 2 /\ 6 * 0 + 3 = 3
          /\ 6 * 0 + 4 = 4 /\ 6 * 0 + 5 = 5 /\ 48 - 6 * 0 = 48 /\ 49 - 6 * 0 = 49
          /\ 50 - 6 * 0 = 50 /\ 51 - 6 * 0 = 51 /\ 46 - 6 * 0 = 46 /\ 47 - 6 * 0 = 47
      OBVIOUS
    <3>3. /\ S[6 * 0] = ModInverse(K[48 - 6 * 0])
          /\ S[6 * 0 + 1] = Word(-K[49 - 6 * 0]) /\ S[6 * 0 + 2] = Word(-K[50 - 6 * 0])
          /\ S[6 * 0 + 3] = ModInverse(K[51 - 6 * 0])
          /\ S[6 * 0 + 4] = K[46 - 6 * 0] /\ S[6 * 0 + 5] = K[47 - 6 * 0]
          /\ K[48 - 6 * 0] # 0 /\ K[51 - 6 * 0] # 0
      BY <1>2, <3>1
    <3> QED
      BY <3>2, <3>3
  <2> DEFINE x == Crossed(X[8])
             y == Y(X, 8)
  <2>3. x \in Block /\ y \in Block /\ x = Folded(y, K[46], K[47])
    <3>1. 8 \in 1 .. 8 /\ 6 * 8 - 2 = 46 /\ 6 * 8 - 1 = 47
      OBVIOUS
    <3>2. Y(X, 8) \in Block /\ Crossed(X[8]) = Folded(Y(X, 8), K[6 * 8 - 2], K[6 * 8 - 1])
      BY <1>8, <3>1
    <3> HIDE DEF Y
    <3> QED
      BY <1>4, <3>1, <3>2, CrossedTwice
  <2> HIDE DEF x, y
  <2>4. Mixed(sent, S[0], S[1], S[2], S[3]) = x
    <3>1. /\ K[48] \in WordSet /\ K[49] \in WordSet /\ K[50] \in WordSet /\ K[51] \in WordSet
      BY <1>1
    <3>2. Undoes(S[0], S[1], S[2], S[3], K[48], K[49], K[50], K[51])
      BY <2>2, <3>1, MixedUndone
    <3>3. sent = Mixed(x, K[48], K[49], K[50], K[51])
      BY <1>3 DEF x
    <3> QED
      BY <2>3, <3>2, <3>3 DEF Undoes
  <2>5. /\ S[0 + 4] = K[46] /\ S[0 + 5] = K[47] /\ K[46] \in WordSet /\ K[47] \in WordSet
        /\ Mixed(sent, S[0], S[0 + 1], S[0 + 2], S[0 + 3]) = Folded(y, K[46], K[47])
    BY <1>1, <2>2, <2>3, <2>4
  <2>6. Round(sent, S, 0) = Crossed(y)
    BY <1>5, <2>3, <2>5, RoundUndone
  <2>7. D[0 + 1] = Crossed(Y(X, 8 - 0))
    BY <2>1, <2>6 DEF y
  <2> QED
    BY <2>7
<1>10. ASSUME NEW i \in T, i \in 0 .. 7 - 1
       PROVE  i + 1 \in T
  <2> DEFINE j == i + 1
             at == 6 * j
             z == Y(X, 8 - i)
             y == Y(X, 8 - j)
             x == X[8 - j]
  <2>1. /\ j \in 1 .. 7 /\ j \in 0 .. 8 /\ j < 8 /\ j \in 0 .. 7 /\ 8 - j \in 1 .. 8
        /\ j + 1 \in 1 .. 8 /\ (j + 1) - 1 = j
        /\ (8 - i) - 1 = 8 - j /\ 6 * (8 - j) = 48 - at
        /\ 48 - at + 1 = 49 - at /\ 48 - at + 2 = 50 - at /\ 48 - at + 3 = 51 - at
        /\ 6 * (8 - j) - 2 = 46 - at /\ 6 * (8 - j) - 1 = 47 - at
        /\ 46 - at \in 0 .. 51 /\ 47 - at \in 0 .. 51 /\ 48 - at \in 0 .. 51
        /\ 49 - at \in 0 .. 51 /\ 50 - at \in 0 .. 51 /\ 51 - at \in 0 .. 51
    BY <1>10
  <2>2. D[j] = Crossed(z)
    OBVIOUS
  <2>3. z = Mixed(x, K[48 - at], K[49 - at], K[50 - at], K[51 - at])
    <3>1. z = Mixed(X[(8 - i) - 1], K[6 * ((8 - i) - 1)], K[6 * ((8 - i) - 1) + 1],
                    K[6 * ((8 - i) - 1) + 2], K[6 * ((8 - i) - 1) + 3])
      OBVIOUS
    <3> HIDE DEF z, at, j
    <3> QED
      BY <2>1, <3>1
  <2>4. x \in Block /\ y \in Block /\ Crossed(x) = Folded(y, K[46 - at], K[47 - at])
    <3>1. /\ Y(X, 8 - j) \in Block
          /\ Crossed(X[8 - j]) = Folded(Y(X, 8 - j), K[6 * (8 - j) - 2], K[6 * (8 - j) - 1])
      BY <1>8, <2>1
    <3>2. X[8 - j] \in Block
      BY <1>4, <2>1
    <3> HIDE DEF Y, at, j
    <3> QED
      BY <2>1, <3>1, <3>2
  <2>5. /\ S[at] = ModInverse(K[48 - at]) /\ S[at + 1] = Word(-K[50 - at])
        /\ S[at + 2] = Word(-K[49 - at]) /\ S[at + 3] = ModInverse(K[51 - at])
        /\ S[at + 4] = K[46 - at] /\ S[at + 5] = K[47 - at]
        /\ K[48 - at] # 0 /\ K[51 - at] # 0
    <3> HIDE DEF j
    <3> QED
      BY <1>2, <2>1
  <2>6. D[j + 1] = Round(D[j], S, at) /\ D[j] \in Block
    <3> HIDE DEF j
    <3> QED
      BY <1>6, <1>7, <2>1 DEF Turned
  <2> HIDE DEF j, at, x, y, z
  <2>7. /\ K[46 - at] \in WordSet /\ K[47 - at] \in WordSet /\ K[48 - at] \in WordSet
        /\ K[49 - at] \in WordSet /\ K[50 - at] \in WordSet /\ K[51 - at] \in WordSet
    BY <1>1, <2>1
  <2>8. Mixed(D[j], S[at], S[at + 1], S[at + 2], S[at + 3]) = Crossed(x)
    <3>1. Undoes(S[at], S[at + 2], S[at + 1], S[at + 3],
                 K[48 - at], K[49 - at], K[50 - at], K[51 - at])
      BY <2>5, <2>7, MixedUndone
    <3>2. D[j] = Crossed(Mixed(x, K[48 - at], K[49 - at], K[50 - at], K[51 - at]))
      BY <2>2, <2>3
    <3> QED
      BY <2>4, <3>1, <3>2 DEF Undoes
  <2>9. Mixed(D[j], S[at], S[at + 1], S[at + 2], S[at + 3]) = Folded(y, K[46 - at], K[47 - at])
    BY <2>4, <2>8
  <2>10. Round(D[j], S, at) = Crossed(y)
    BY <2>4, <2>5, <2>6, <2>7, <2>9, RoundUndone
  <2>11. D[j + 1] = Crossed(Y(X, 8 - j))
    BY <2>6, <2>10 DEF y
  <2>12. j \in T
    <3> HIDE DEF Y
    <3> QED
      BY <2>1, <2>11
  <2> QED
    BY <2>12 DEF j
<1>11. 0 .. 7 \subseteq T
  <2>1. 7 \in Nat
    OBVIOUS
  <2> HIDE DEF T
  <2> QED
    BY <1>9, <1>10, <2>1, BoundedInduction
<1>12. D[8] = Crossed(Y(X, 1))
  <2>1. 7 \in T /\ 7 + 1 = 8 /\ 8 - 7 = 1
    BY <1>11
  <2> HIDE DEF Y
  <2> QED
    BY <2>1
<1>13. Y(X, 1) \in Block /\ Y(X, 1) = Mixed(X[0], K[0], K[1], K[2], K[3])
  <2>1. 1 \in 1 .. 8 /\ 1 - 1 = 0 /\ 6 * (1 - 1) = 0
    OBVIOUS
  <2>2. Y(X, 1) \in Block
    <3> HIDE DEF Y
    <3> QED
      BY <1>8, <2>1
  <2> QED
    BY <2>2
<1> HIDE DEF Y, T
<1>14. Crossed(D[8]) = Mixed(X[0], K[0], K[1], K[2], K[3])
  BY <1>12, <1>13, CrossedTwice
<1>15. /\ S[48] = ModInverse(K[0]) /\ S[49] = Word(-K[1]) /\ S[50] = Word(-K[2])
       /\ S[51] = ModInverse(K[3]) /\ K[0] # 0 /\ K[3] # 0
  <2>1. 8 \in 0 .. 8 /\ ~ (8 \in 1 .. 7)
    OBVIOUS
  <2>2. /\ 6 * 8 = 48 /\ 6 * 8 + 1 = 49 /\ 6 * 8 + 2 = 50 /\ 6 * 8 + 3 = 51
        /\ 48 - 6 * 8 = 0 /\ 49 - 6 * 8 = 1 /\ 50 - 6 * 8 = 2 /\ 51 - 6 * 8 = 3
    OBVIOUS
  <2>3. /\ S[6 * 8] = ModInverse(K[48 - 6 * 8])
        /\ S[6 * 8 + 1] = Word(-K[49 - 6 * 8]) /\ S[6 * 8 + 2] = Word(-K[50 - 6 * 8])
        /\ S[6 * 8 + 3] = ModInverse(K[51 - 6 * 8])
        /\ K[48 - 6 * 8] # 0 /\ K[51 - 6 * 8] # 0
    BY <1>2, <2>1
  <2> QED
    BY <2>2, <2>3
<1>16. X[0] = block /\ X[0] \in Block
  BY <1>3, <1>4 DEF Turned
<1>17. IDEA(sent, S) = block
  <2>1. K[0] \in WordSet /\ K[1] \in WordSet /\ K[2] \in WordSet /\ K[3] \in WordSet
    BY <1>1
  <2>2. Undoes(S[48], S[49], S[50], S[51], K[0], K[1], K[2], K[3])
    BY <1>15, <2>1, MixedUndone
  <2> QED
    BY <1>6, <1>14, <1>16, <2>2 DEF Undoes
<1> QED
  BY <1>5, <1>17 DEF EncodeBlock, DecodeBlock, sent, K, S

-----------------------------------------------------------------------------
(* The chain.                                                              *)

LEMMA XorOfBlocks ==
  ASSUME NEW a \in Block, NEW b \in Block
  PROVE  XorBlocks(a, b) \in Block /\ XorBlocks(XorBlocks(a, b), b) = a
PROOF
<1>1. DOMAIN a = 1 .. 4 /\ \A i \in 1 .. 4 : a[i] \in WordSet /\ b[i] \in WordSet
  BY DEF Block
<1> DEFINE c == XorBlocks(a, b)
<1>2. c = [i \in 1 .. 4 |-> XorWords(a[i], b[i])]
  BY <1>1 DEF XorBlocks
<1> HIDE DEF c
<1>3. \A i \in 1 .. 4 : XorWords(a[i], b[i]) \in WordSet /\ XorWords(XorWords(a[i], b[i]), b[i]) = a[i]
  BY <1>1, XorOfWords
<1>4. c \in Block
  BY <1>2, <1>3 DEF Block
<1>5. XorBlocks(c, b) = [i \in 1 .. 4 |-> XorWords(c[i], b[i])]
  <2>1. DOMAIN c = 1 .. 4
    BY <1>2
  <2> QED
    BY <2>1 DEF XorBlocks
<1>6. \A i \in 1 .. 4 : XorWords(c[i], b[i]) = a[i]
  BY <1>2, <1>3
<1>7. a = [i \in 1 .. 4 |-> a[i]]
  BY DEF Block
<1>8. XorBlocks(c, b) = a
  BY <1>5, <1>6, <1>7
<1> QED
  BY <1>4, <1>8 DEF c

\* The block a block is combined with.
Before(initial, sent, i) == IF i = 1 THEN initial ELSE sent[i - 1]

\* What has been sent and taken when the blocks of a chain were bs: the rest
\* is sent before anything is taken.
Chained(key, initial, bs, state, sent, taken) ==
  /\ key \in [1 .. 8 -> WordSet] /\ Invertible(key)
  /\ initial \in Block /\ bs \in Seq(Block) /\ sent \in Seq(Block) /\ taken \in Seq(Block)
  /\ Len(sent) <= Len(bs) /\ Len(taken) <= Len(sent)
  /\ \A i \in 1 .. Len(sent) :
       sent[i] = EncodeBlock(XorBlocks(bs[i], Before(initial, sent, i)), key)
  /\ \A i \in 1 .. Len(taken) : taken[i] = bs[i]
  /\ IF Len(sent) < Len(bs) THEN taken = <<>> /\ state = Before(initial, sent, Len(sent) + 1)
                            ELSE state = Before(initial, sent, Len(taken) + 1)

LEMMA ChainStarts ==
  ASSUME NEW key \in IdeaKeys, Invertible(key), NEW c \in Chains
  PROVE  Chained(key, Head(c), Tail(c), Head(c), <<>>, <<>>)
PROOF
<1>1. key \in [1 .. 8 -> WordSet] /\ c \in Seq(Block) /\ c # <<>>
  BY InputAssumption DEF Block
<1>2. Head(c) \in Block /\ Tail(c) \in Seq(Block) /\ Len(Tail(c)) \in Nat
  BY <1>1
<1>3. /\ <<>> \in Seq(Block) /\ Len(<<>>) = 0 /\ 0 + 1 = 1
      /\ \A i \in 1 .. 0 : FALSE
  OBVIOUS
<1>4. Before(Head(c), <<>>, Len(<<>>) + 1) = Head(c)
  BY <1>3 DEF Before
<1> DEFINE h == Head(c)
           t == Tail(c)
<1>5. h \in Block /\ t \in Seq(Block) /\ Len(t) \in Nat /\ Before(h, <<>>, Len(<<>>) + 1) = h
  BY <1>2, <1>4
<1> HIDE DEF h, t
<1>6. Chained(key, h, t, h, <<>>, <<>>)
  BY <1>1, <1>3, <1>5 DEF Chained
<1> QED
  BY <1>6 DEF h, t

\* A block is sent.
LEMMA ChainSends ==
  ASSUME NEW key, NEW initial, NEW bs, NEW state, NEW sent, NEW taken,
         Chained(key, initial, bs, state, sent, taken), Len(sent) < Len(bs),
         NEW working, working = EncodeBlock(XorBlocks(bs[Len(sent) + 1], state), key)
  PROVE  Chained(key, initial, bs,
                 IF Len(sent) + 1 = Len(bs) THEN initial ELSE working,
                 Append(sent, working), taken)
PROOF
<1> DEFINE n == Len(sent)
           new == Append(sent, working)
           after == IF n + 1 = Len(bs) THEN initial ELSE working
<1>1. /\ key \in [1 .. 8 -> WordSet] /\ Invertible(key)
      /\ initial \in Block /\ bs \in Seq(Block) /\ sent \in Seq(Block)
      /\ taken = <<>> /\ n \in Nat /\ Len(bs) \in Nat /\ n < Len(bs)
      /\ state = Before(initial, sent, n + 1)
  BY DEF Chained
<1>2. state \in Block
  <2>1. CASE n = 0
    <3>1. n + 1 = 1
      BY <2>1
    <3> QED
      BY <1>1, <3>1 DEF Before
  <2>2. CASE n # 0
    <3>1. n + 1 # 1 /\ (n + 1) - 1 = n /\ n \in 1 .. Len(sent)
      BY <1>1, <2>2
    <3>2. sent[n] \in Block
      BY <1>1, <3>1
    <3>3. state = sent[(n + 1) - 1]
      BY <1>1, <3>1 DEF Before
    <3> QED
      BY <3>1, <3>2, <3>3
  <2> QED
    BY <2>1, <2>2
<1>3. working \in Block
  <2>1. n + 1 \in 1 .. Len(bs)
    BY <1>1
  <2>2. bs[n + 1] \in Block
    BY <1>1, <2>1
  <2>3. XorBlocks(bs[n + 1], state) \in Block
    BY <1>2, <2>2, XorOfBlocks
  <2> QED
    BY <1>1, <2>3, BlockReturns
<1>4. /\ new \in Seq(Block) /\ Len(new) = n + 1 /\ new[n + 1] = working
      /\ \A i \in 1 .. n : new[i] = sent[i]
  BY <1>1, <1>3
<1>5. \A i \in 1 .. n + 1 : Before(initial, new, i) = Before(initial, sent, i)
  <2> SUFFICES ASSUME NEW i \in 1 .. n + 1
               PROVE  Before(initial, new, i) = Before(initial, sent, i)
    OBVIOUS
  <2> HIDE DEF new
  <2>1. i = 1 \/ i - 1 \in 1 .. n
    BY <1>1
  <2> QED
    BY <1>4, <2>1 DEF Before
<1>6. ASSUME NEW i \in 1 .. Len(new)
      PROVE  new[i] = EncodeBlock(XorBlocks(bs[i], Before(initial, new, i)), key)
  <2>1. i \in 1 .. n + 1
    BY <1>4
  <2>2. CASE i = n + 1
    BY <1>1, <1>4, <1>5, <2>1, <2>2
  <2>3. CASE i # n + 1
    <3>1. i \in 1 .. n
      BY <1>1, <2>1, <2>3
    <3>2. sent[i] = EncodeBlock(XorBlocks(bs[i], Before(initial, sent, i)), key)
      BY <3>1 DEF Chained
    <3>3. new[i] = sent[i] /\ Before(initial, new, i) = Before(initial, sent, i)
      <4> HIDE DEF new
      <4> QED
        BY <1>4, <1>5, <2>1, <3>1
    <3> QED
      BY <3>2, <3>3
  <2> QED
    BY <2>2, <2>3
<1>7. Len(taken) = 0 /\ \A i \in 1 .. 0 : FALSE
  BY <1>1
<1> HIDE DEF new
<1>8. IF Len(new) < Len(bs) THEN taken = <<>> /\ after = Before(initial, new, Len(new) + 1)
                            ELSE after = Before(initial, new, Len(taken) + 1)
  <2>1. CASE Len(new) < Len(bs)
    <3>1. n + 1 # Len(bs) /\ n + 2 # 1 /\ Len(new) + 1 = n + 2 /\ (n + 2) - 1 = n + 1
      BY <1>1, <1>4, <2>1
    <3>2. Before(initial, new, n + 2) = new[(n + 2) - 1]
      BY <3>1 DEF Before
    <3>3. Before(initial, new, Len(new) + 1) = working
      BY <1>4, <3>1, <3>2
    <3> QED
      BY <1>1, <2>1, <3>1, <3>3
  <2>2. CASE ~ (Len(new) < Len(bs))
    <3>1. n + 1 = Len(bs)
      BY <1>1, <1>4, <2>2
    <3>2. Before(initial, new, Len(taken) + 1) = initial
      BY <1>7 DEF Before
    <3> QED
      BY <2>2, <3>1, <3>2
  <2> QED
    BY <2>1, <2>2
<1> HIDE DEF n, after
<1>9. Len(new) <= Len(bs) /\ Len(taken) <= Len(new) /\ taken \in Seq(Block)
  BY <1>1, <1>4, <1>7
<1>10. \A i \in 1 .. Len(taken) : taken[i] = bs[i]
  BY <1>7
<1>11. Chained(key, initial, bs, after, new, taken)
  BY <1>1, <1>4, <1>6, <1>8, <1>9, <1>10 DEF Chained
<1> QED
  BY <1>11 DEF after, new, n

\* A block is taken.
LEMMA ChainTakes ==
  ASSUME NEW key, NEW initial, NEW bs, NEW state, NEW sent, NEW taken,
         Chained(key, initial, bs, state, sent, taken),
         Len(sent) = Len(bs), Len(taken) < Len(bs),
         NEW working, working = sent[Len(taken) + 1]
  PROVE  Chained(key, initial, bs, working, sent,
                 Append(taken, XorBlocks(DecodeBlock(working, key), state)))
PROOF
<1> DEFINE n == Len(taken)
           block == XorBlocks(DecodeBlock(working, key), state)
           new == Append(taken, block)
<1>1. /\ key \in [1 .. 8 -> WordSet] /\ Invertible(key)
      /\ initial \in Block /\ bs \in Seq(Block) /\ sent \in Seq(Block) /\ taken \in Seq(Block)
      /\ n \in Nat /\ Len(bs) \in Nat /\ n < Len(bs) /\ Len(sent) \in Nat
      /\ state = Before(initial, sent, n + 1)
  BY DEF Chained
<1>2. n + 1 \in 1 .. Len(bs) /\ n + 1 \in 1 .. Len(sent)
  BY <1>1
<1>3. state \in Block
  <2>1. CASE n = 0
    <3>1. n + 1 = 1
      BY <2>1
    <3> QED
      BY <1>1, <3>1 DEF Before
  <2>2. CASE n # 0
    <3>1. n + 1 # 1 /\ (n + 1) - 1 = n /\ n \in 1 .. Len(sent)
      BY <1>1, <2>2
    <3>2. sent[n] \in Block
      BY <1>1, <3>1
    <3>3. state = sent[(n + 1) - 1]
      BY <1>1, <3>1 DEF Before
    <3> QED
      BY <3>1, <3>2, <3>3
  <2> QED
    BY <2>1, <2>2
<1>4. bs[n + 1] \in Block
  BY <1>1, <1>2
<1>5. working = EncodeBlock(XorBlocks(bs[n + 1], state), key)
  BY <1>1, <1>2 DEF Chained
<1>6. XorBlocks(bs[n + 1], state) \in Block /\ XorBlocks(XorBlocks(bs[n + 1], state), state) = bs[n + 1]
  BY <1>3, <1>4, XorOfBlocks
<1>7. DecodeBlock(working, key) = XorBlocks(bs[n + 1], state)
  BY <1>1, <1>5, <1>6, BlockReturns
<1>8. block = bs[n + 1]
  BY <1>6, <1>7
<1> HIDE DEF block
<1>9. /\ new \in Seq(Block) /\ Len(new) = n + 1 /\ new[n + 1] = block
      /\ \A i \in 1 .. n : new[i] = taken[i]
  BY <1>1, <1>4, <1>8
<1> HIDE DEF new
<1>10. ASSUME NEW i \in 1 .. Len(new) PROVE new[i] = bs[i]
  <2>1. CASE i = n + 1
    BY <1>8, <1>9, <2>1
  <2>2. CASE i # n + 1
    <3>1. i \in 1 .. n
      BY <1>1, <1>9, <2>2
    <3>2. taken[i] = bs[i]
      BY <3>1 DEF Chained
    <3> QED
      BY <1>9, <3>1, <3>2
  <2> QED
    BY <2>1, <2>2
<1>11. working = Before(initial, sent, Len(new) + 1)
  <2>1. Len(new) + 1 # 1 /\ (Len(new) + 1) - 1 = n + 1
    BY <1>1, <1>9
  <2> QED
    BY <2>1 DEF Before
<1>12. ~ (Len(sent) < Len(bs)) /\ Len(sent) <= Len(bs) /\ Len(new) <= Len(sent)
  BY <1>1, <1>9
<1>13. \A i \in 1 .. Len(sent) :
         sent[i] = EncodeBlock(XorBlocks(bs[i], Before(initial, sent, i)), key)
  BY DEF Chained
<1> HIDE DEF n
<1>14. Chained(key, initial, bs, working, sent, new)
  BY <1>1, <1>9, <1>10, <1>11, <1>12, <1>13 DEF Chained
<1> QED
  BY <1>14 DEF new, block

-----------------------------------------------------------------------------
(* Decoding undoes encoding.                                               *)

\* Before a chain is given nothing is sent, and then what Chained says holds
\* when the key can be inverted.
ChainInv ==
  /\ chain = <<>> => encoded = <<>> /\ decoded = <<>>
  /\ chain # <<>> =>
       /\ ideaKey \in IdeaKeys /\ chain \in Chains
       /\ Invertible(ideaKey) =>
            Chained(ideaKey, Head(chain), Tail(chain), chainState, encoded, decoded)

LEMMA ChainInit == IdeaInit => ChainInv
PROOF
<1> QED
  BY DEF IdeaInit, ChainInv

LEMMA StartChainKeeps == ChainInv /\ StartChain => ChainInv'
PROOF
<1> SUFFICES ASSUME ChainInv, StartChain PROVE ChainInv'
  OBVIOUS
<1>1. /\ ideaKey' \in IdeaKeys /\ chain' \in Chains /\ chainState' = Head(chain')
      /\ encoded' = <<>> /\ decoded' = <<>>
  BY DEF StartChain, ChainInv
<1>2. chain' # <<>>
  BY <1>1, InputAssumption
<1>3. Invertible(ideaKey') =>
        Chained(ideaKey', Head(chain'), Tail(chain'), Head(chain'), <<>>, <<>>)
  BY <1>1, ChainStarts
<1> QED
  BY <1>1, <1>2, <1>3 DEF ChainInv

LEMMA EncodeCBCKeeps == ChainInv /\ EncodeCBC => ChainInv'
PROOF
<1> SUFFICES ASSUME ChainInv, EncodeCBC PROVE ChainInv'
  OBVIOUS
<1>1. chain # <<>>
  <2> SUFFICES ASSUME chain = <<>> PROVE FALSE
    OBVIOUS
  <2>1. encoded = <<>> /\ Blocks = <<>> /\ Len(<<>>) = 0
    BY DEF ChainInv, Blocks
  <2>2. Len(encoded) < Len(Blocks)
    BY DEF EncodeCBC
  <2> QED
    BY <2>1, <2>2
<1>2. Blocks = Tail(chain)
  BY <1>1 DEF Blocks
<1> DEFINE working == EncodeBlock(XorBlocks(Tail(chain)[Len(encoded) + 1], chainState), ideaKey)
<1>3. /\ Len(encoded) < Len(Tail(chain))
      /\ encoded' = Append(encoded, working)
      /\ chainState' = IF Len(encoded) + 1 = Len(Tail(chain)) THEN Head(chain) ELSE working
      /\ ideaKey' = ideaKey /\ chain' = chain /\ decoded' = decoded
  BY <1>2 DEF EncodeCBC
<1>4. /\ ideaKey \in IdeaKeys /\ chain \in Chains
      /\ Invertible(ideaKey) =>
           Chained(ideaKey, Head(chain), Tail(chain), chainState, encoded, decoded)
  BY <1>1 DEF ChainInv
<1> HIDE DEF working
<1>5. Invertible(ideaKey) =>
        Chained(ideaKey, Head(chain), Tail(chain), chainState', encoded', decoded)
  <2> SUFFICES ASSUME Invertible(ideaKey)
               PROVE  Chained(ideaKey, Head(chain), Tail(chain), chainState', encoded', decoded)
    OBVIOUS
  <2>1. Chained(ideaKey, Head(chain), Tail(chain), chainState, encoded, decoded)
    BY <1>4
  <2>2. working = EncodeBlock(XorBlocks(Tail(chain)[Len(encoded) + 1], chainState), ideaKey)
    BY DEF working
  <2> QED
    BY <1>3, <2>1, <2>2, ChainSends
<1> QED
  BY <1>1, <1>3, <1>4, <1>5 DEF ChainInv

LEMMA DecodeCBCKeeps == ChainInv /\ DecodeCBC => ChainInv'
PROOF
<1> SUFFICES ASSUME ChainInv, DecodeCBC PROVE ChainInv'
  OBVIOUS
<1>1. chain # <<>>
  <2> SUFFICES ASSUME chain = <<>> PROVE FALSE
    OBVIOUS
  <2>1. decoded = <<>> /\ Blocks = <<>> /\ Len(<<>>) = 0
    BY DEF ChainInv, Blocks
  <2>2. Len(decoded) < Len(Blocks)
    BY DEF DecodeCBC
  <2> QED
    BY <2>1, <2>2
<1>2. Blocks = Tail(chain)
  BY <1>1 DEF Blocks
<1> DEFINE working == encoded[Len(decoded) + 1]
<1>3. /\ Len(encoded) = Len(Tail(chain)) /\ Len(decoded) < Len(Tail(chain))
      /\ decoded' = Append(decoded, XorBlocks(DecodeBlock(working, ideaKey), chainState))
      /\ chainState' = working
      /\ ideaKey' = ideaKey /\ chain' = chain /\ encoded' = encoded
  BY <1>2 DEF DecodeCBC
<1>4. /\ ideaKey \in IdeaKeys /\ chain \in Chains
      /\ Invertible(ideaKey) =>
           Chained(ideaKey, Head(chain), Tail(chain), chainState, encoded, decoded)
  BY <1>1 DEF ChainInv
<1> HIDE DEF working
<1>5. Invertible(ideaKey) =>
        Chained(ideaKey, Head(chain), Tail(chain), chainState', encoded, decoded')
  <2> SUFFICES ASSUME Invertible(ideaKey)
               PROVE  Chained(ideaKey, Head(chain), Tail(chain), chainState', encoded, decoded')
    OBVIOUS
  <2>1. Chained(ideaKey, Head(chain), Tail(chain), chainState, encoded, decoded)
    BY <1>4
  <2>2. working = encoded[Len(decoded) + 1]
    BY DEF working
  <2> QED
    BY <1>3, <2>1, <2>2, ChainTakes
<1> QED
  BY <1>1, <1>3, <1>4, <1>5 DEF ChainInv

LEMMA ChainInvariance == IdeaSpec => []ChainInv
PROOF
<1>1. ChainInv /\ UNCHANGED ideaVars => ChainInv'
  BY DEF ChainInv, ideaVars
<1>2. ChainInv /\ [IdeaNext]_ideaVars => ChainInv'
  BY <1>1, StartChainKeeps, EncodeCBCKeeps, DecodeCBCKeeps DEF IdeaNext
<1> QED
  BY <1>2, ChainInit, PTL DEF IdeaSpec

LEMMA ChainedReturns == ChainInv => DecodingUndoesEncoding
PROOF
<1> SUFFICES ASSUME ChainInv, chain # <<>>, \A i \in Inverted : EncryptSubKeys(ideaKey)[i] # 0
             PROVE  decoded = SubSeq(Blocks, 1, Len(decoded))
  BY DEF DecodingUndoesEncoding
<1> DEFINE bs == Tail(chain)
           n == Len(decoded)
<1>1. Chained(ideaKey, Head(chain), bs, chainState, encoded, decoded)
  BY DEF ChainInv, Invertible
<1>2. Blocks = bs
  BY DEF Blocks
<1> HIDE DEF bs
<1>3. /\ decoded \in Seq(Block) /\ bs \in Seq(Block) /\ n \in Nat /\ n <= Len(bs)
      /\ \A i \in 1 .. n : decoded[i] = bs[i]
  BY <1>1 DEF Chained
<1>4. SubSeq(bs, 1, n) = [i \in 1 .. n |-> bs[i]]
  <2>1. /\ SubSeq(bs, 1, n) \in Seq(Block) /\ Len(SubSeq(bs, 1, n)) = n
        /\ \A i \in 1 .. n : SubSeq(bs, 1, n)[i] = bs[i]
    BY <1>3
  <2> QED
    BY <1>3, <2>1
<1>5. decoded = [i \in 1 .. n |-> decoded[i]]
  BY <1>3
<1> QED
  BY <1>2, <1>3, <1>4, <1>5

\* For all keys and chains of blocks, and all widths of a word for which there
\* is such a prime: what DecodeCBC gives to its consumer is what EncodeCBC was
\* given by its producer, unless a subkey that decryption inverts is 0.
THEOREM DecodingCorrect == IdeaSpec => []DecodingUndoesEncoding
PROOF
<1> QED
  BY ChainInvariance, ChainedReturns, PTL

-----------------------------------------------------------------------------
(* Powers modulo a number.                                                 *)

IsPower(f, v, c, n) ==
  f = [k \in 0 .. c |-> IF k = 0 THEN 1 % n ELSE (f[k - 1] * v) % n]

LEMMA IsPowerTypes ==
  ASSUME NEW v \in Nat, NEW c \in Nat, NEW n \in Nat \ {0}, NEW f, IsPower(f, v, c, n)
  PROVE  /\ f[0] = 1 % n /\ \A k \in 1 .. c : f[k] = (f[k - 1] * v) % n
         /\ \A k \in 0 .. c : f[k] \in 0 .. n - 1
PROOF
<1>1. \A k \in 0 .. c : f[k] = IF k = 0 THEN 1 % n ELSE (f[k - 1] * v) % n
  BY DEF IsPower
<1>2. f[0] = 1 % n
  <2>1. 0 \in 0 .. c
    OBVIOUS
  <2> QED
    BY <1>1, <2>1
<1>3. ASSUME NEW k \in 1 .. c PROVE f[k] = (f[k - 1] * v) % n
  <2>1. k \in 0 .. c /\ k # 0
    OBVIOUS
  <2> QED
    BY <1>1, <2>1
<1> DEFINE S == {k \in 0 .. c : f[k] \in 0 .. n - 1}
<1>4. 0 \in S
  <2>1. 1 % n \in 0 .. n - 1
    BY AlikeRemainder
  <2> QED
    BY <1>2, <2>1
<1>5. ASSUME NEW k \in S, k \in 0 .. c - 1
      PROVE  k + 1 \in S
  <2>1. k + 1 \in 1 .. c /\ k + 1 \in 0 .. c /\ (k + 1) - 1 = k
    BY <1>5
  <2>2. f[k] * v \in Int
    <3>1. f[k] \in Int
      OBVIOUS
    <3> QED
      BY <3>1
  <2>3. f[k + 1] = (f[k] * v) % n
    BY <1>3, <2>1
  <2>4. (f[k] * v) % n \in 0 .. n - 1
    BY <2>2, AlikeRemainder
  <2> QED
    BY <2>1, <2>3, <2>4
<1>6. 0 .. c \subseteq S
  <2> HIDE DEF S
  <2> QED
    BY <1>4, <1>5, BoundedInduction
<1> QED
  BY <1>2, <1>3, <1>6

LEMMA PowersExist ==
  ASSUME NEW v \in Nat, NEW c \in Nat, NEW n \in Nat \ {0}
  PROVE  \E f : IsPower(f, v, c, n)
PROOF
<1> DEFINE V == 0 .. n - 1
           next == [k \in 1 .. c |-> [x \in V |-> (x * v) % n]]
<1>1. next \in [1 .. c -> [V -> V]] /\ 1 % n \in V
  <2>1. \A x \in V : (x * v) % n \in V
    <3> SUFFICES ASSUME NEW x \in V PROVE (x * v) % n \in V
      OBVIOUS
    <3>1. x * v \in Int
      OBVIOUS
    <3> QED
      BY <3>1, AlikeRemainder
  <2>2. 1 % n \in V
    BY AlikeRemainder
  <2> HIDE DEF V
  <2> QED
    BY <2>1, <2>2
<1>2. PICK f \in [0 .. c -> V] :
        f[0] = 1 % n /\ \A k \in 1 .. c : f[k] = next[k][f[k - 1]]
  <2> HIDE DEF next, V
  <2>1. HasRecursion(c, V)
    BY RecursionExists, Zenon
  <2> QED
    BY <1>1, <2>1, Zenon DEF HasRecursion
<1> HIDE DEF V
<1>3. ASSUME NEW k \in 1 .. c PROVE f[k] = (f[k - 1] * v) % n
  <2>1. k - 1 \in 0 .. c
    OBVIOUS
  <2>2. f[k - 1] \in V
    BY <1>2, <2>1
  <2>3. next[k][f[k - 1]] = (f[k - 1] * v) % n
    BY <2>2
  <2> QED
    BY <1>2, <2>3
<1>4. \A k \in 0 .. c : f[k] = IF k = 0 THEN 1 % n ELSE (f[k - 1] * v) % n
  <2>1. \A k \in 0 .. c : k = 0 \/ k \in 1 .. c
    OBVIOUS
  <2> QED
    BY <1>2, <1>3, <2>1
<1>5. f = [k \in 0 .. c |-> f[k]]
  BY <1>2
<1> HIDE DEF next
<1> QED
  BY <1>4, <1>5 DEF IsPower

\* The powers do not depend on how many are computed.
LEMMA PowersAgree ==
  ASSUME NEW v \in Nat, NEW n \in Nat \ {0}, NEW c \in Nat, NEW d \in Nat, c <= d,
         NEW f, IsPower(f, v, c, n), NEW g, IsPower(g, v, d, n)
  PROVE  f[c] = g[c]
PROOF
<1>1. /\ f[0] = 1 % n /\ \A k \in 1 .. c : f[k] = (f[k - 1] * v) % n
      /\ g[0] = 1 % n /\ \A k \in 1 .. d : g[k] = (g[k - 1] * v) % n
  BY IsPowerTypes
<1> DEFINE S == {k \in 0 .. c : f[k] = g[k]}
<1>2. 0 \in S
  BY <1>1
<1>3. ASSUME NEW k \in S, k \in 0 .. c - 1
      PROVE  k + 1 \in S
  <2>1. k + 1 \in 1 .. c /\ k + 1 \in 1 .. d /\ k + 1 \in 0 .. c /\ (k + 1) - 1 = k /\ f[k] = g[k]
    BY <1>3
  <2>2. f[k + 1] = (f[k] * v) % n /\ g[k + 1] = (g[k] * v) % n
    BY <1>1, <2>1
  <2> QED
    BY <2>1, <2>2
<1>4. 0 .. c \subseteq S
  <2> HIDE DEF S
  <2> QED
    BY <1>2, <1>3, BoundedInduction
<1>5. c \in S
  BY <1>4
<1> QED
  BY <1>5

LEMMA PowerIs ==
  ASSUME NEW v \in Nat, NEW n \in Nat \ {0}, NEW c \in Nat, NEW k \in 0 .. c,
         NEW f, IsPower(f, v, c, n)
  PROVE  Power(v, k, n) = f[k]
PROOF
<1> DEFINE g == CHOOSE h : IsPower(h, v, k, n)
<1>1. k \in Nat /\ k <= c
  OBVIOUS
<1>2. IsPower(g, v, k, n)
  <2>1. \E h : IsPower(h, v, k, n)
    BY <1>1, PowersExist
  <2> QED
    BY <2>1
<1>3. Power(v, k, n) = g[k]
  BY DEF Power, IsPower
<1> HIDE DEF g
<1>4. g[k] = f[k]
  BY <1>1, <1>2, PowersAgree
<1> QED
  BY <1>3, <1>4

LEMMA PowerStep ==
  ASSUME NEW v \in Nat, NEW n \in Nat \ {0}, NEW k \in Nat
  PROVE  /\ Power(v, 0, n) = 1 % n
         /\ Power(v, k, n) \in 0 .. n - 1
         /\ Power(v, k + 1, n) = (Power(v, k, n) * v) % n
PROOF
<1>1. /\ k + 1 \in Nat /\ 0 \in 0 .. k + 1 /\ k \in 0 .. k + 1 /\ k + 1 \in 0 .. k + 1
      /\ k \in 0 .. k + 1 /\ k + 1 \in 1 .. k + 1 /\ (k + 1) - 1 = k
  OBVIOUS
<1>2. PICK f : IsPower(f, v, k + 1, n)
  BY <1>1, PowersExist
<1>3. Power(v, 0, n) = f[0] /\ Power(v, k, n) = f[k] /\ Power(v, k + 1, n) = f[k + 1]
  BY <1>1, <1>2, PowerIs
<1>4. /\ f[0] = 1 % n /\ f[k] \in 0 .. n - 1 /\ f[k + 1] = (f[(k + 1) - 1] * v) % n
  <2>1. /\ f[0] = 1 % n /\ \A j \in 1 .. k + 1 : f[j] = (f[j - 1] * v) % n
        /\ \A j \in 0 .. k + 1 : f[j] \in 0 .. n - 1
    BY <1>1, <1>2, IsPowerTypes
  <2> QED
    BY <1>1, <2>1
<1> QED
  BY <1>1, <1>3, <1>4

\* The same, up to multiples of n.
LEMMA PowerAlike ==
  ASSUME NEW v \in Nat, NEW n \in Nat \ {0}, NEW k \in Nat
  PROVE  /\ Power(v, k, n) \in Nat /\ Power(v, k, n) \in Int
         /\ Alike(n, Power(v, 0, n), 1)
         /\ Alike(n, Power(v, k + 1, n), Power(v, k, n) * v)
PROOF
<1> DEFINE x == Power(v, k, n)
<1>1. /\ Power(v, 0, n) = 1 % n /\ x \in 0 .. n - 1
      /\ Power(v, k + 1, n) = (x * v) % n
  BY PowerStep
<1> HIDE DEF x
<1>2. x \in Nat /\ x \in Int /\ x * v \in Int
  BY <1>1
<1>3. Alike(n, 1 % n, 1) /\ Alike(n, (x * v) % n, x * v)
  BY <1>2, AlikeRemainder
<1> QED
  BY <1>1, <1>2, <1>3 DEF x

\* A power modulo n, up to multiples of a divisor d of n, is the one modulo d.
LEMMA PowerOfDivisor ==
  ASSUME NEW d \in Nat \ {0}, NEW m \in Nat \ {0}, NEW n \in Nat \ {0}, n = d * m,
         NEW v \in Nat, NEW w \in Nat, Alike(d, v, w), NEW e \in Nat
  PROVE  Alike(d, Power(v, e, n), Power(w, e, d))
PROOF
<1>1. \A x, y \in Int : Alike(n, x, y) => Alike(d, x, y)
  <2> SUFFICES ASSUME NEW x \in Int, NEW y \in Int, Alike(n, x, y) PROVE Alike(d, x, y)
    OBVIOUS
  <2>1. PICK k \in Int : x - y = n * k
    BY DEF Alike
  <2>2. m * k \in Int /\ (d * m) * k = d * (m * k)
    OBVIOUS
  <2>3. x - y = d * (m * k)
    BY <2>1, <2>2
  <2> QED
    BY <2>2, <2>3 DEF Alike
<1> DEFINE S == {k \in 0 .. e : Alike(d, Power(v, k, n), Power(w, k, d))}
<1>2. 0 \in S
  <2>1. /\ Power(v, 0, n) \in Int /\ Alike(n, Power(v, 0, n), 1)
        /\ Power(w, 0, d) \in Int /\ Alike(d, Power(w, 0, d), 1) /\ 1 \in Int /\ d \in Int
    <3>1. 0 \in Nat /\ 1 \in Int /\ d \in Int
      OBVIOUS
    <3>2. Power(v, 0, n) \in Int /\ Alike(n, Power(v, 0, n), 1)
      BY <3>1, PowerAlike
    <3>3. Power(w, 0, d) \in Int /\ Alike(d, Power(w, 0, d), 1)
      BY <3>1, PowerAlike
    <3> QED
      BY <3>1, <3>2, <3>3
  <2>2. Alike(d, Power(v, 0, n), 1) /\ Alike(d, 1, Power(w, 0, d))
    BY <1>1, <2>1, AlikeBack
  <2>3. Alike(d, Power(v, 0, n), Power(w, 0, d))
    BY <2>1, <2>2, AlikeOn
  <2> QED
    BY <2>3
<1>3. ASSUME NEW k \in S, k \in 0 .. e - 1
      PROVE  k + 1 \in S
  <2> DEFINE x == Power(v, k, n)
             y == Power(w, k, d)
             x1 == Power(v, k + 1, n)
             y1 == Power(w, k + 1, d)
  <2>1. k \in Nat /\ k + 1 \in Nat /\ k + 1 \in 0 .. e /\ Alike(d, x, y)
    BY <1>3
  <2>2. /\ x \in Int /\ y \in Int /\ x1 \in Int /\ y1 \in Int
        /\ Alike(n, x1, x * v) /\ Alike(d, y1, y * w)
    BY <2>1, PowerAlike
  <2> HIDE DEF x, y, x1, y1
  <2>3. x * v \in Int /\ y * w \in Int /\ d \in Int /\ v \in Int /\ w \in Int
    BY <2>2
  <2>4. Alike(d, x1, x * v)
    BY <1>1, <2>2, <2>3
  <2>5. Alike(d, x * v, y * w)
    BY <2>1, <2>2, <2>3, AlikeProduct
  <2>6. Alike(d, y * w, y1)
    BY <2>2, <2>3, AlikeBack
  <2> DEFINE z == x * v
             u == y * w
  <2>7. z \in Int /\ u \in Int /\ Alike(d, x1, z) /\ Alike(d, z, u) /\ Alike(d, u, y1)
    BY <2>3, <2>4, <2>5, <2>6
  <2> HIDE DEF z, u
  <2>8. Alike(d, x1, u)
    BY <2>2, <2>3, <2>7, AlikeOn
  <2>9. Alike(d, x1, y1)
    BY <2>2, <2>3, <2>7, <2>8, AlikeOn
  <2> QED
    BY <2>1, <2>9 DEF x1, y1
<1>4. 0 .. e \subseteq S
  <2> HIDE DEF S
  <2> QED
    BY <1>2, <1>3, BoundedInduction
<1>5. e \in S
  BY <1>4
<1> QED
  BY <1>5

LEMMA AlikeOnOn ==
  ASSUME NEW d \in Int, NEW a \in Int, NEW b \in Int, NEW c \in Int, NEW e \in Int,
         Alike(d, a, b), Alike(d, b, c), Alike(d, c, e)
  PROVE  Alike(d, a, e)
PROOF
<1>1. Alike(d, a, c)
  BY AlikeOn
<1> QED
  BY <1>1, AlikeOn

\* A power is that of the same number up to multiples of n.
LEMMA PowerOfAlike ==
  ASSUME NEW n \in Nat \ {0}, NEW v \in Nat, NEW w \in Nat, Alike(n, v, w), NEW e \in Nat
  PROVE  Power(v, e, n) = Power(w, e, n)
PROOF
<1>1. 1 \in Nat \ {0} /\ n = n * 1
  OBVIOUS
<1>2. Alike(n, Power(v, e, n), Power(w, e, n))
  BY <1>1, PowerOfDivisor
<1>3. Power(v, e, n) \in 0 .. n - 1 /\ Power(w, e, n) \in 0 .. n - 1
  BY PowerStep
<1> DEFINE x == Power(v, e, n)
           y == Power(w, e, n)
<1>4. x \in 0 .. n - 1 /\ y \in 0 .. n - 1 /\ Alike(n, x, y)
  BY <1>2, <1>3
<1> HIDE DEF x, y
<1>5. x \in Int /\ y \in Int /\ x - y < n /\ y - x < n
  BY <1>4
<1>6. x = y
  BY <1>4, <1>5, AlikeSmall
<1> QED
  BY <1>6 DEF x, y

\* The power of a sum is the product of the powers.
LEMMA PowerOfSum ==
  ASSUME NEW v \in Nat, NEW n \in Nat \ {0}, NEW a \in Nat, NEW b \in Nat
  PROVE  Alike(n, Power(v, a + b, n), Power(v, a, n) * Power(v, b, n))
PROOF
<1> DEFINE S == {k \in 0 .. b : Alike(n, Power(v, a + k, n), Power(v, a, n) * Power(v, k, n))}
<1>1. n \in Int /\ Power(v, a, n) \in Int
  BY PowerAlike
<1>2. 0 \in S
  <2> DEFINE x == Power(v, a, n)
             y == Power(v, 0, n)
  <2>1. 0 \in Nat /\ a + 0 = a /\ 1 \in Int
    OBVIOUS
  <2>2. y \in Int /\ Alike(n, y, 1) /\ x \in Int
    BY <2>1, PowerAlike
  <2> HIDE DEF x, y
  <2>3. Alike(n, x, x) /\ Alike(n, 1, y)
    BY <1>1, <2>1, <2>2, AlikeSelf, AlikeBack
  <2>4. Alike(n, x * 1, x * y) /\ x * 1 = x
    BY <1>1, <2>1, <2>2, <2>3, AlikeProduct
  <2>5. Alike(n, x, x * y)
    BY <2>4
  <2> QED
    BY <2>1, <2>5 DEF x, y
<1>3. ASSUME NEW k \in S, k \in 0 .. b - 1
      PROVE  k + 1 \in S
  <2> DEFINE x == Power(v, a, n)
             y == Power(v, k, n)
             y1 == Power(v, k + 1, n)
             z == Power(v, a + k, n)
             z1 == Power(v, (a + k) + 1, n)
  <2>1. /\ k \in Nat /\ k + 1 \in Nat /\ a + k \in Nat /\ (a + k) + 1 \in Nat /\ k + 1 \in 0 .. b
        /\ (a + k) + 1 = a + (k + 1)
    BY <1>3
  <2>2. /\ x \in Int /\ y \in Int /\ y1 \in Int /\ z \in Int /\ z1 \in Int
        /\ Alike(n, y1, y * v) /\ Alike(n, z1, z * v)
    BY <2>1, PowerAlike
  <2>3. Alike(n, z, x * y)
    BY <1>3
  <2> HIDE DEF x, y, y1, z, z1
  <2>4. /\ z * v \in Int /\ y * v \in Int /\ x * y \in Int /\ (x * y) * v \in Int
        /\ x * (y * v) = (x * y) * v /\ x * y1 \in Int /\ v \in Int
    BY <2>2
  <2>5. Alike(n, v, v) /\ Alike(n, x, x) /\ Alike(n, y * v, y1)
    BY <1>1, <2>2, <2>4, AlikeSelf, AlikeBack
  <2>6. Alike(n, z * v, (x * y) * v)
    BY <1>1, <2>2, <2>3, <2>4, <2>5, AlikeProduct
  <2>7. Alike(n, x * (y * v), x * y1)
    BY <1>1, <2>2, <2>4, <2>5, AlikeProduct
  <2> DEFINE p1 == z * v
             p2 == (x * y) * v
             p3 == x * y1
  <2>8. /\ p1 \in Int /\ p2 \in Int /\ p3 \in Int /\ Alike(n, z1, p1) /\ Alike(n, p1, p2)
        /\ Alike(n, p2, p3)
    BY <2>2, <2>4, <2>6, <2>7
  <2> HIDE DEF p1, p2, p3
  <2>9. Alike(n, z1, p3)
    BY <1>1, <2>2, <2>8, AlikeOnOn
  <2> QED
    BY <2>1, <2>9 DEF p3, z1, x, y1
<1>4. 0 .. b \subseteq S
  <2> HIDE DEF S
  <2> QED
    BY <1>2, <1>3, BoundedInduction
<1>5. b \in S
  BY <1>4
<1> QED
  BY <1>5

\* A power of a power.
LEMMA PowerOfPower ==
  ASSUME NEW v \in Nat, NEW n \in Nat \ {0}, NEW a \in Nat, NEW b \in Nat
  PROVE  Power(Power(v, a, n), b, n) = Power(v, a * b, n)
PROOF
<1> DEFINE w == Power(v, a, n)
           S == {k \in 0 .. b : Alike(n, Power(w, k, n), Power(v, a * k, n))}
<1>1. n \in Int /\ w \in Nat /\ w \in Int
  BY PowerAlike
<1>2. 0 \in S
  <2>1. a * 0 = 0 /\ 0 \in Nat /\ 1 \in Int
    OBVIOUS
  <2> DEFINE x == Power(w, 0, n)
             y == Power(v, 0, n)
  <2>2. x \in Int /\ Alike(n, x, 1)
    <3> HIDE DEF w
    <3> QED
      BY <1>1, <2>1, PowerAlike
  <2>3. y \in Int /\ Alike(n, y, 1)
    BY <2>1, PowerAlike
  <2> HIDE DEF x, y
  <2>4. Alike(n, 1, y)
    BY <1>1, <2>1, <2>3, AlikeBack
  <2>5. Alike(n, x, y)
    BY <1>1, <2>1, <2>2, <2>3, <2>4, AlikeOn
  <2> QED
    BY <2>1, <2>5 DEF x, y
<1>3. ASSUME NEW k \in S, k \in 0 .. b - 1
      PROVE  k + 1 \in S
  <2> DEFINE x == Power(w, k, n)
             x1 == Power(w, k + 1, n)
             y == Power(v, a * k, n)
             y1 == Power(v, a * k + a, n)
  <2>1. /\ k \in Nat /\ k + 1 \in Nat /\ a * k \in Nat /\ a * k + a \in Nat /\ k + 1 \in 0 .. b
        /\ a * (k + 1) = a * k + a
    BY <1>3
  <2>2. x \in Int /\ x1 \in Int /\ Alike(n, x1, x * w)
    <3> HIDE DEF w
    <3> QED
      BY <1>1, <2>1, PowerAlike
  <2>3. y \in Int /\ y1 \in Int
    BY <2>1, PowerAlike
  <2>4. Alike(n, y1, y * w)
    BY <2>1, PowerOfSum
  <2>5. Alike(n, x, y)
    BY <1>3
  <2> HIDE DEF x, x1, y, y1, w
  <2> DEFINE p == x * w
             q == y * w
  <2>6. p \in Int /\ q \in Int
    BY <1>1, <2>2, <2>3
  <2>7. Alike(n, w, w)
    BY <1>1, AlikeSelf
  <2>8. Alike(n, p, q)
    BY <1>1, <2>2, <2>3, <2>5, <2>7, AlikeProduct
  <2>9. Alike(n, x1, p) /\ Alike(n, y1, q)
    BY <2>2, <2>4
  <2> HIDE DEF p, q
  <2>10. Alike(n, q, y1)
    BY <1>1, <2>3, <2>6, <2>9, AlikeBack
  <2>11. Alike(n, x1, y1)
    BY <1>1, <2>2, <2>3, <2>6, <2>8, <2>9, <2>10, AlikeOnOn
  <2> QED
    BY <2>1, <2>11 DEF x1, y1
<1>4. 0 .. b \subseteq S
  <2> HIDE DEF S, w
  <2> QED
    BY <1>2, <1>3, BoundedInduction
<1>5. b \in S
  BY <1>4
<1> DEFINE x == Power(w, b, n)
           y == Power(v, a * b, n)
<1>6. a * b \in Nat
  OBVIOUS
<1>7. x \in 0 .. n - 1
  <2> HIDE DEF w
  <2> QED
    BY <1>1, PowerStep
<1>8. y \in 0 .. n - 1
  BY <1>6, PowerStep
<1>9. Alike(n, x, y)
  BY <1>5
<1> HIDE DEF x, y
<1>10. x \in Int /\ y \in Int /\ x - y < n /\ y - x < n
  BY <1>7, <1>8
<1>11. x = y
  BY <1>9, <1>10, AlikeSmall
<1> QED
  BY <1>11 DEF x, y

\* The powers of 1, and those of 0 but the first.
LEMMA PowerOfOne ==
  ASSUME NEW n \in Nat \ {0}, NEW e \in Nat
  PROVE  Alike(n, Power(1, e, n), 1)
PROOF
<1> DEFINE S == {k \in 0 .. e : Alike(n, Power(1, k, n), 1)}
<1>1. 0 \in S
  BY PowerAlike
<1>2. ASSUME NEW k \in S, k \in 0 .. e - 1
      PROVE  k + 1 \in S
  <2> DEFINE x == Power(1, k, n)
             y == Power(1, k + 1, n)
  <2>1. k \in Nat /\ k + 1 \in Nat /\ k + 1 \in 0 .. e /\ 1 \in Nat /\ 1 \in Int /\ n \in Int
    BY <1>2
  <2>2. x \in Int /\ y \in Int /\ Alike(n, y, x * 1)
    BY <2>1, PowerAlike
  <2>3. Alike(n, x, 1)
    BY <1>2
  <2> HIDE DEF x, y
  <2>4. x * 1 = x
    BY <2>2
  <2>5. Alike(n, y, 1)
    BY <2>1, <2>2, <2>3, <2>4, AlikeOn
  <2> QED
    BY <2>1, <2>5 DEF y
<1>3. 0 .. e \subseteq S
  <2> HIDE DEF S
  <2> QED
    BY <1>1, <1>2, BoundedInduction
<1>4. e \in S
  BY <1>3
<1> QED
  BY <1>4

LEMMA PowerOfZero ==
  ASSUME NEW n \in Nat \ {0}, NEW e \in Nat \ {0}
  PROVE  Power(0, e, n) = 0
PROOF
<1> DEFINE k == e - 1
           x == Power(0, k, n)
<1>1. k \in Nat /\ e = k + 1 /\ 0 \in Nat
  OBVIOUS
<1>2. x \in 0 .. n - 1 /\ Power(0, k + 1, n) = (x * 0) % n
  <2> HIDE DEF k
  <2> QED
    BY <1>1, PowerStep
<1> HIDE DEF x, k
<1>3. x * 0 = 0 /\ 0 % n = 0
  <2>1. 0 \in 0 .. n - 1 /\ 0 = n * 0 + 0 /\ 0 \in Int
    OBVIOUS
  <2>2. 0 % n = 0
    BY <2>1, Remainders
  <2> QED
    BY <1>2, <2>2
<1> QED
  BY <1>1, <1>2, <1>3

-----------------------------------------------------------------------------
(* Fermat's little theorem.                                                *)

\* The products of the sets of numbers from 1 to c.
AreProducts(prod, c) ==
  /\ prod \in [SUBSET (1 .. c) -> Nat]
  /\ prod[{}] = 1
  /\ \A s \in SUBSET (1 .. c) : \A x \in (1 .. c) \ s : prod[s \cup {x}] = x * prod[s]

LEMMA ProductsExist ==
  ASSUME NEW c \in Nat
  PROVE  \E prod : AreProducts(prod, c)
PROOF
<1> DEFINE D == SUBSET (1 .. c)
           V == [D -> Nat]
           first == [s \in D |-> 1]
           next == [n \in 1 .. c |-> [g \in V |-> [s \in D |-> IF n \in s THEN n * g[s] ELSE g[s]]]]
<1>1. first \in V
  OBVIOUS
<1>2. next \in [1 .. c -> [V -> V]]
  <2>1. ASSUME NEW n \in 1 .. c, NEW g \in V
        PROVE  [s \in D |-> IF n \in s THEN n * g[s] ELSE g[s]] \in V
    <3>1. \A s \in D : g[s] \in Nat /\ n * g[s] \in Nat
      <4> SUFFICES ASSUME NEW s \in D PROVE g[s] \in Nat /\ n * g[s] \in Nat
        OBVIOUS
      <4>1. g[s] \in Nat /\ n \in Nat
        <5> HIDE DEF D
        <5> QED
          OBVIOUS
      <4> QED
        BY <4>1
    <3> QED
      BY <3>1
  <2> HIDE DEF D, V
  <2> QED
    BY <2>1
<1>3. PICK f \in [0 .. c -> V] :
        f[0] = first /\ \A n \in 1 .. c : f[n] = next[n][f[n - 1]]
  <2> HIDE DEF first, next, V
  <2>1. HasRecursion(c, V)
    BY RecursionExists, Zenon
  <2> QED
    BY <1>1, <1>2, <2>1, Zenon DEF HasRecursion
<1>4. ASSUME NEW n \in 1 .. c
      PROVE  /\ n - 1 \in 0 .. c /\ n \in 0 .. c
             /\ \A s \in D : f[n][s] = IF n \in s THEN n * f[n - 1][s] ELSE f[n - 1][s]
  <2>1. n - 1 \in 0 .. c /\ n \in 0 .. c
    OBVIOUS
  <2>2. f[n - 1] \in V
    <3> HIDE DEF V
    <3> QED
      BY <2>1
  <2>3. next[n][f[n - 1]] = [s \in D |-> IF n \in s THEN n * f[n - 1][s] ELSE f[n - 1][s]]
    <3> HIDE DEF V, D
    <3> QED
      BY <2>2
  <2>4. f[n] = next[n][f[n - 1]]
    <3> HIDE DEF next, V
    <3> QED
      BY <1>3
  <2> HIDE DEF next, V, D
  <2> QED
    BY <2>1, <2>3, <2>4
<1>5. \A n \in 0 .. c : f[n] \in V
  <2> HIDE DEF V
  <2> QED
    OBVIOUS
<1>6. \A n \in 0 .. c : \A s \in D : f[n][s] \in Nat
  <2> HIDE DEF D
  <2> QED
    BY <1>5
<1>7. \A s \in D : f[0][s] = 1
  <2> HIDE DEF D, next, V
  <2> QED
    BY <1>3
<1>8. f[c][{}] = 1
  <2> DEFINE S == {n \in 0 .. c : f[n][{}] = 1}
  <2>1. 0 \in S
    <3>1. {} \in D
      OBVIOUS
    <3> HIDE DEF D, first, next, V
    <3> QED
      BY <1>7, <3>1
  <2>2. ASSUME NEW k \in S, k \in 0 .. c - 1
        PROVE  k + 1 \in S
    <3>1. k + 1 \in 1 .. c /\ k + 1 \in 0 .. c /\ (k + 1) - 1 = k /\ f[k][{}] = 1
      BY <2>2
    <3>2. {} \in D /\ k + 1 \notin {}
      OBVIOUS
    <3>3. f[k + 1][{}] = f[(k + 1) - 1][{}]
      <4> HIDE DEF D, V, first, next
      <4> QED
        BY <1>4, <3>1, <3>2
    <3> HIDE DEF first, next, V, D
    <3> QED
      BY <3>1, <3>3
  <2>3. 0 .. c \subseteq S
    <3> HIDE DEF S, D, V, first, next
    <3> QED
      BY <2>1, <2>2, BoundedInduction
  <2>4. c \in S
    <3> HIDE DEF S
    <3> QED
      BY <2>3
  <2> HIDE DEF D, V, first, next
  <2> QED
    BY <2>4
<1>9. ASSUME NEW s \in D, NEW x \in (1 .. c) \ s
      PROVE  f[c][s \cup {x}] = x * f[c][s]
  <2> DEFINE u == s \cup {x}
             S == {n \in 0 .. c : f[n][u] = IF n < x THEN f[n][s] ELSE x * f[n][s]}
  <2>1. u \in D /\ x \in 1 .. c /\ x \in u /\ x \notin s
    OBVIOUS
  <2>2. \A n \in 1 .. c : n # x => (n \in u <=> n \in s)
    OBVIOUS
  <2> HIDE DEF u, D, V, first, next
  <2>3. 0 \in S
    <3>1. 0 \in 0 .. c /\ 0 < x
      BY <2>1
    <3> QED
      BY <1>7, <2>1, <3>1
  <2>4. ASSUME NEW k \in S, k \in 0 .. c - 1
        PROVE  k + 1 \in S
    <3> DEFINE n == k + 1
    <3>1. n \in 1 .. c /\ n \in 0 .. c /\ n - 1 = k /\ k \in Nat /\ n = k + 1
      BY <2>4
    <3>2. f[k][u] = IF k < x THEN f[k][s] ELSE x * f[k][s]
      BY <2>4
    <3> HIDE DEF n
    <3> DEFINE a == f[k][s]
               b == f[k][u]
    <3>3. a \in Nat /\ b \in Nat
      BY <1>6, <2>1, <2>4
    <3>4. /\ f[n][u] = IF n \in u THEN n * b ELSE b
          /\ f[n][s] = IF n \in s THEN n * a ELSE a
      BY <1>4, <2>1, <3>1
    <3>5. b = IF k < x THEN a ELSE x * a
      BY <3>2
    <3> HIDE DEF a, b
    <3>6. CASE n = x
      <4>1. f[n][u] = n * b /\ f[n][s] = a
        BY <2>1, <3>4, <3>6
      <4>2. k < x /\ ~ (n < x)
        BY <3>1, <3>6
      <4>3. f[n][u] = x * f[n][s]
        BY <3>5, <3>6, <4>1, <4>2
      <4> QED
        BY <3>1, <4>2, <4>3 DEF n
    <3>7. CASE n # x
      <4>1. n \in u <=> n \in s
        BY <2>2, <3>1, <3>7
      <4>2. (n < x) <=> (k < x)
        BY <2>1, <3>1, <3>7
      <4>3. CASE n \in s
        <5>1. f[n][u] = n * b /\ f[n][s] = n * a
          BY <3>4, <4>1, <4>3
        <5>2. CASE n < x
          <6>1. f[n][u] = f[n][s]
            BY <3>5, <4>2, <5>1, <5>2
          <6> QED
            BY <3>1, <5>2, <6>1 DEF n
        <5>3. CASE ~ (n < x)
          <6>1. f[n][u] = n * (x * a)
            BY <3>5, <4>2, <5>1, <5>3
          <6>2. n * (x * a) = x * (n * a)
            BY <2>1, <3>1, <3>3
          <6>3. f[n][u] = x * f[n][s]
            BY <5>1, <6>1, <6>2
          <6> QED
            BY <3>1, <5>3, <6>3 DEF n
        <5> QED
          BY <5>2, <5>3
      <4>4. CASE n \notin s
        <5>1. f[n][u] = b /\ f[n][s] = a
          BY <3>4, <4>1, <4>4
        <5>2. f[n][u] = IF n < x THEN f[n][s] ELSE x * f[n][s]
          BY <3>5, <4>2, <5>1
        <5> QED
          BY <3>1, <5>2 DEF n
      <4> QED
        BY <4>3, <4>4
    <3> QED
      BY <3>6, <3>7
  <2>5. 0 .. c \subseteq S
    <3> HIDE DEF S
    <3> QED
      BY <2>3, <2>4, BoundedInduction
  <2>6. c \in S /\ ~ (c < x)
    BY <2>1, <2>5
  <2> QED
    BY <2>6 DEF u
<1>10. f[c] \in [SUBSET (1 .. c) -> Nat]
  <2>1. c \in 0 .. c
    OBVIOUS
  <2> QED
    BY <1>5, <2>1
<1>11. \A s \in SUBSET (1 .. c) : \A x \in (1 .. c) \ s : f[c][s \cup {x}] = x * f[c][s]
  BY <1>9
<1> HIDE DEF V, D, first, next
<1>12. AreProducts(f[c], c)
  BY <1>8, <1>10, <1>11 DEF AreProducts
<1> QED
  BY <1>12

\* The product of 1 to k is no multiple of a larger prime.
LEMMA NoMultiple ==
  ASSUME NEW p, IsPrime(p), NEW prod, AreProducts(prod, p - 1)
  PROVE  ~ Alike(p, prod[1 .. p - 1], 0)
PROOF
<1> DEFINE c == p - 1
           S == {k \in 0 .. c : ~ Alike(p, prod[1 .. k], 0)}
<1>1. p \in Nat \ {0} /\ p \in Int /\ p > 1 /\ c \in Nat /\ 0 \in Int /\ 1 \in Int /\ c < p
  BY DEF IsPrime
<1>2. /\ prod \in [SUBSET (1 .. c) -> Nat] /\ prod[{}] = 1
      /\ \A s \in SUBSET (1 .. c) : \A x \in (1 .. c) \ s : prod[s \cup {x}] = x * prod[s]
  BY DEF AreProducts
<1> HIDE DEF c
<1>3. \A x \in 1 .. c : ~ Alike(p, x, 0)
  <2> SUFFICES ASSUME NEW x \in 1 .. c, Alike(p, x, 0) PROVE FALSE
    OBVIOUS
  <2>1. x \in Int /\ x - 0 < p /\ 0 - x < p
    BY <1>1
  <2>2. x = 0
    BY <1>1, <2>1, AlikeSmall
  <2> QED
    BY <2>2
<1>4. 0 \in S
  <2>1. 1 .. 0 = {} /\ 0 \in 0 .. c
    BY <1>1
  <2>2. ~ Alike(p, 1, 0)
    <3>1. 1 \in 1 .. c
      BY <1>1 DEF c
    <3> QED
      BY <1>3, <3>1
  <2> QED
    BY <1>2, <2>1, <2>2
<1>5. ASSUME NEW k \in S, k \in 0 .. c - 1
      PROVE  k + 1 \in S
  <2> DEFINE y == prod[1 .. k]
             x == k + 1
  <2>1. /\ x \in 1 .. c /\ x \in Int /\ x \in 0 .. c /\ 1 .. k \in SUBSET (1 .. c)
        /\ x \in (1 .. c) \ (1 .. k) /\ 1 .. x = (1 .. k) \cup {x} /\ ~ Alike(p, y, 0)
    BY <1>1, <1>5
  <2>2. y \in Int
    BY <1>2, <2>1
  <2>3. prod[1 .. x] = x * y
    BY <1>2, <2>1
  <2> HIDE DEF x, y
  <2>4. ~ Alike(p, x * y, 0)
    BY <1>3, <2>1, <2>2, PrimeFactor
  <2> QED
    BY <2>1, <2>3, <2>4 DEF x
<1>6. 0 .. c \subseteq S
  <2> HIDE DEF S
  <2> QED
    BY <1>1, <1>4, <1>5, BoundedInduction
<1>7. c \in S
  BY <1>1, <1>6
<1> QED
  BY <1>7 DEF c

\* The multiples of a number prime to p are, up to p, other numbers.
LEMMA OtherMultiples ==
  ASSUME NEW p, IsPrime(p), NEW a \in Int, ~ Alike(p, a, 0),
         NEW i \in 1 .. p - 1
  PROVE  /\ (a * i) % p \in 1 .. p - 1
         /\ \A j \in 1 .. p - 1 : (a * i) % p = (a * j) % p => i = j
PROOF
<1>1. p \in Nat \ {0} /\ p \in Int /\ p > 1 /\ i \in Int /\ 0 \in Int
  BY DEF IsPrime
<1>2. ASSUME NEW x \in Int, x < p, 0 - x < p, Alike(p, a * x, 0)
      PROVE  x = 0
  <2>1. Alike(p, x, 0)
    BY <1>2, PrimeFactor
  <2>2. x - 0 < p /\ 0 - x < p
    BY <1>2
  <2> QED
    BY <1>1, <2>1, <2>2, AlikeSmall
<1>3. (a * i) % p \in 1 .. p - 1
  <2> DEFINE y == a * i
             r == y % p
  <2>1. y \in Int
    BY <1>1
  <2>2. r \in 0 .. p - 1 /\ Alike(p, r, y)
    <3> HIDE DEF y
    <3> QED
      BY <1>1, <2>1, AlikeRemainder
  <2> HIDE DEF r
  <2>3. CASE r = 0
    <3>1. Alike(p, a * i, 0)
      <4> HIDE DEF y
      <4>1. Alike(p, y, 0)
        BY <1>1, <2>1, <2>2, <2>3, AlikeBack
      <4> QED
        BY <4>1 DEF y
    <3>2. i < p /\ 0 - i < p /\ i # 0
      BY <1>1
    <3> QED
      BY <1>1, <1>2, <3>1, <3>2
  <2>4. CASE r # 0
    <3>1. r \in 1 .. p - 1
      BY <1>1, <2>2, <2>4
    <3> QED
      BY <3>1 DEF r
  <2> QED
    BY <2>3, <2>4
<1>4. ASSUME NEW j \in 1 .. p - 1, (a * i) % p = (a * j) % p
      PROVE  i = j
  <2> DEFINE y == a * i
             z == a * j
             r == y % p
  <2>1. y \in Int /\ z \in Int /\ j \in Int /\ i - j \in Int /\ i - j < p /\ 0 - (i - j) < p
    BY <1>1
  <2>2. Alike(p, r, y) /\ r \in Int
    <3>1. r \in 0 .. p - 1 /\ Alike(p, r, y)
      <4> HIDE DEF y
      <4> QED
        BY <1>1, <2>1, AlikeRemainder
    <3> QED
      BY <1>1, <3>1
  <2>3. Alike(p, r, z)
    <3>1. r = z % p
      BY <1>4
    <3>2. Alike(p, z % p, z)
      <4> HIDE DEF z
      <4> QED
        BY <1>1, <2>1, AlikeRemainder
    <3> QED
      BY <3>1, <3>2
  <2>4. y - z = a * (i - j)
    BY <1>1, <2>1
  <2> HIDE DEF y, z, r
  <2>5. Alike(p, r - r, y - z) /\ r - r = 0 /\ y - z \in Int
    BY <1>1, <2>1, <2>2, <2>3, AlikeSum
  <2>6. Alike(p, y - z, 0)
    BY <1>1, <2>5, AlikeBack
  <2>7. Alike(p, a * (i - j), 0)
    BY <2>4, <2>6
  <2>8. i - j = 0
    BY <1>2, <2>1, <2>7
  <2> QED
    BY <1>1, <2>1, <2>8
<1> QED
  BY <1>3, <1>4

\* Fermat's little theorem: the power p - 1 of a number prime to p is 1.
LEMMA FermatLittle ==
  ASSUME NEW p, IsPrime(p), NEW a \in Nat, ~ Alike(p, a, 0)
  PROVE  Alike(p, Power(a, p - 1, p), 1)
PROOF
<1> DEFINE c == p - 1
<1>1. /\ p \in Nat \ {0} /\ p \in Int /\ p > 1 /\ c \in Nat /\ c \in Int
      /\ 0 \in Int /\ 1 \in Int /\ a \in Int
  BY DEF IsPrime
<1>2. PICK prod : AreProducts(prod, c)
  BY <1>1, ProductsExist
<1>3. /\ prod \in [SUBSET (1 .. c) -> Nat] /\ prod[{}] = 1
      /\ \A s \in SUBSET (1 .. c) : \A x \in (1 .. c) \ s : prod[s \cup {x}] = x * prod[s]
  BY <1>2 DEF AreProducts
<1>4. ~ Alike(p, prod[1 .. c], 0)
  BY <1>2, NoMultiple
<1>5. \A i \in 1 .. c : /\ (a * i) % p \in 1 .. c
                        /\ \A j \in 1 .. c : (a * i) % p = (a * j) % p => i = j
  BY <1>1, OtherMultiples
<1> DEFINE T(k) == {(a * i) % p : i \in 1 .. k}
<1> HIDE DEF c
<1>6. ASSUME NEW k \in 0 .. c - 1
      PROVE  /\ k + 1 \in 0 .. c /\ k + 1 \in 1 .. c
             /\ T(k) \in SUBSET (1 .. c)
             /\ (a * (k + 1)) % p \in (1 .. c) \ T(k)
             /\ T(k + 1) = T(k) \cup {(a * (k + 1)) % p}
  <2>1. k + 1 \in 0 .. c /\ k + 1 \in 1 .. c /\ \A i \in 1 .. k : i \in 1 .. c /\ i # k + 1
    BY <1>1
  <2>2. T(k) \in SUBSET (1 .. c)
    <3>1. ASSUME NEW i \in 1 .. k PROVE (a * i) % p \in 1 .. c
      <4>1. i \in 1 .. c
        BY <2>1
      <4> QED
        BY <1>5, <4>1
    <3> QED
      BY <3>1
  <2>3. (a * (k + 1)) % p \in (1 .. c) \ T(k)
    BY <1>5, <2>1
  <2>4. 1 .. k + 1 = (1 .. k) \cup {k + 1}
    BY <1>1
  <2>5. T(k + 1) = T(k) \cup {(a * (k + 1)) % p}
    BY <2>4
  <2> QED
    BY <2>1, <2>2, <2>3, <2>5
<1>7. T(0) = {} /\ 1 .. 0 = {}
  OBVIOUS
<1> DEFINE S == {k \in 0 .. c : /\ IsFiniteSet(T(k)) /\ Cardinality(T(k)) = k
                                /\ T(k) \in SUBSET (1 .. c)
                                /\ Alike(p, prod[T(k)], Power(a, k, p) * prod[1 .. k])}
<1>8. 0 \in S
  <2> DEFINE x == Power(a, 0, p)
  <2>1. x \in Int /\ Alike(p, x, 1)
    BY <1>1, PowerAlike
  <2> HIDE DEF x
  <2>2. Alike(p, 1, x) /\ x * 1 = x
    BY <1>1, <2>1, AlikeBack
  <2>3. Alike(p, prod[T(0)], x * prod[1 .. 0])
    BY <1>3, <1>7, <2>2
  <2>4. IsFiniteSet(T(0)) /\ Cardinality(T(0)) = 0
    BY <1>7, FS_EmptySet
  <2>5. 0 \in 0 .. c /\ T(0) \in SUBSET (1 .. c)
    BY <1>1, <1>7
  <2> QED
    BY <2>3, <2>4, <2>5 DEF x
<1>9. ASSUME NEW k \in S, k \in 0 .. c - 1
      PROVE  k + 1 \in S
  <2> DEFINE m == k + 1
             t == (a * m) % p
             old == T(k)
             new == T(m)
             x == Power(a, k, p)
             y == Power(a, m, p)
             f == prod[1 .. k]
             g == prod[1 .. m]
             u == prod[old]
             w == prod[new]
  <2>1. /\ m \in 0 .. c /\ m \in 1 .. c /\ old \in SUBSET (1 .. c)
        /\ t \in (1 .. c) \ old /\ new = old \cup {t}
    BY <1>6, <1>9
  <2>2. IsFiniteSet(old) /\ Cardinality(old) = k /\ Alike(p, u, x * f)
    BY <1>9
  <2>3. k \in Nat /\ m = k + 1 /\ a * m \in Int
    BY <1>1, <1>9
  <2>4. x \in Int /\ y \in Int /\ Alike(p, y, x * a)
    BY <1>1, <2>3, PowerAlike
  <2>5. t \in Int /\ Alike(p, t, a * m)
    <3> DEFINE z == a * m
    <3>1. z \in Int
      BY <2>3
    <3>2. z % p \in 0 .. p - 1 /\ Alike(p, z % p, z)
      <4> HIDE DEF z
      <4> QED
        BY <1>1, <3>1, AlikeRemainder
    <3> QED
      BY <1>1, <3>2
  <2>6. 1 .. m = (1 .. k) \cup {m} /\ m \in (1 .. c) \ (1 .. k) /\ 1 .. k \in SUBSET (1 .. c)
    BY <1>1, <2>1, <2>3
  <2>7. g = m * f /\ f \in Int /\ w = t * u /\ u \in Int
    <3> HIDE DEF t, old, new, m
    <3>1. g = m * f /\ w = t * u
      BY <1>3, <2>1, <2>6
    <3>2. f \in Nat /\ u \in Nat
      BY <1>3, <2>1, <2>6
    <3> QED
      BY <3>1, <3>2
  <2>8. IsFiniteSet(new) /\ Cardinality(new) = m
    <3> HIDE DEF t, old, new, m
    <3>1. IsFiniteSet(old \cup {t}) /\ Cardinality(old \cup {t}) = Cardinality(old) + 1
      BY <2>1, <2>2, FS_AddElement
    <3> QED
      BY <2>1, <2>2, <2>3, <3>1
  <2>9. new \in SUBSET (1 .. c)
    BY <2>1
  <2> HIDE DEF t, old, new, x, y, f, g, u, w, m
  <2>10. m \in Int /\ x * f \in Int /\ (a * m) * (x * f) = (x * a) * (m * f) /\ x * a \in Int /\ m * f \in Int
    BY <1>1, <2>1, <2>4, <2>7
  <2>11. Alike(p, t * u, (a * m) * (x * f))
    BY <1>1, <2>2, <2>3, <2>5, <2>7, <2>10, AlikeProduct
  <2> DEFINE mf == m * f
             xa == x * a
  <2>12. Alike(p, y * mf, xa * mf)
    <3>1. mf \in Int /\ xa \in Int /\ Alike(p, y, xa)
      BY <2>4, <2>10
    <3> HIDE DEF mf, xa
    <3>2. p \in Int /\ y \in Int
      BY <1>1, <2>4
    <3>3. Alike(p, mf, mf)
      BY <3>1, <3>2, AlikeSelf
    <3> QED
      BY <3>1, <3>2, <3>3, AlikeProduct
  <2> DEFINE p1 == xa * mf
             p2 == y * mf
  <2>13. Alike(p, w, p1) /\ Alike(p, p2, p1) /\ p1 \in Int /\ p2 \in Int /\ w \in Int
    <3>1. p1 \in Int /\ p2 \in Int
      <4>1. mf \in Int /\ xa \in Int /\ y \in Int
        BY <2>4, <2>10
      <4> HIDE DEF mf, xa
      <4> QED
        BY <4>1
    <3>2. Alike(p, w, p1)
      BY <2>7, <2>10, <2>11
    <3>3. w \in Int
      BY <2>5, <2>7
    <3> QED
      BY <2>12, <3>1, <3>2, <3>3
  <2>14. p2 = y * g
    BY <2>7
  <2> HIDE DEF p1, p2
  <2>15. Alike(p, p1, p2)
    BY <1>1, <2>13, AlikeBack
  <2>16. Alike(p, w, p2)
    BY <1>1, <2>13, <2>15, AlikeOn
  <2>17. Alike(p, prod[T(m)], Power(a, m, p) * prod[1 .. m])
    BY <2>14, <2>16 DEF w, y, g, new
  <2> QED
    BY <2>1, <2>8, <2>9, <2>17 DEF new, m
<1>10. 0 .. c \subseteq S
  <2> HIDE DEF S
  <2> QED
    BY <1>1, <1>8, <1>9, BoundedInduction
<1>11. /\ IsFiniteSet(T(c)) /\ Cardinality(T(c)) = c /\ T(c) \in SUBSET (1 .. c)
       /\ Alike(p, prod[T(c)], Power(a, c, p) * prod[1 .. c])
  <2>1. c \in S
    <3>1. c \in 0 .. c
      BY <1>1
    <3> HIDE DEF S
    <3> QED
      BY <1>10, <3>1
  <2> QED
    BY <2>1
<1>12. T(c) = 1 .. c
  <2> DEFINE all == 1 .. c
             some == T(c)
  <2>1. IsFiniteSet(all) /\ Cardinality(all) = c
    <3>1. 1 \in Int /\ (IF 1 > c THEN 0 ELSE c - 1 + 1) = c
      BY <1>1
    <3> QED
      BY <1>1, <3>1, FS_Interval
  <2>2. some \in SUBSET all /\ Cardinality(some) = c
    BY <1>11
  <2> HIDE DEF all, some
  <2>3. all = some
    BY <2>1, <2>2, FS_Subset
  <2> QED
    BY <2>3 DEF all, some
<1> DEFINE x == Power(a, c, p)
           f == prod[1 .. c]
<1>13. x \in Int /\ f \in Int /\ Alike(p, f, x * f) /\ ~ Alike(p, f, 0)
  <2>1. x \in Int
    BY <1>1, PowerAlike
  <2>2. 1 .. c \in SUBSET (1 .. c)
    OBVIOUS
  <2>3. f \in Nat
    BY <1>3, <2>2
  <2>4. Alike(p, f, x * f)
    BY <1>11, <1>12
  <2> QED
    BY <1>4, <2>1, <2>3, <2>4
<1> HIDE DEF x, f, T, S
<1>14. Alike(p, x * f - f, 0)
  <2> DEFINE z == x * f
  <2>1. z \in Int
    BY <1>13
  <2>2. Alike(p, f, z)
    BY <1>13
  <2> HIDE DEF z
  <2>3. Alike(p, f, f)
    BY <1>1, <1>13, AlikeSelf
  <2>4. Alike(p, z, f)
    BY <1>1, <1>13, <2>1, <2>2, AlikeBack
  <2>5. Alike(p, z - f, f - f) /\ f - f = 0
    BY <1>1, <1>13, <2>1, <2>3, <2>4, AlikeSum
  <2>6. Alike(p, z - f, 0)
    BY <2>5
  <2> QED
    BY <2>6 DEF z
<1>15. x * f - f = (x - 1) * f /\ x - 1 \in Int
  BY <1>13
<1>16. Alike(p, x - 1, 0)
  BY <1>13, <1>14, <1>15, PrimeFactor
<1>17. Alike(p, 1, 1)
  BY <1>1, AlikeSelf
<1>18. Alike(p, (x - 1) + 1, 0 + 1)
  BY <1>1, <1>15, <1>16, <1>17, AlikeSum
<1>19. (x - 1) + 1 = x /\ 0 + 1 = 1
  BY <1>13
<1>20. Alike(p, x, 1)
  BY <1>18, <1>19
<1> QED
  BY <1>20 DEF x, c

\* The power 1 + k * (p - 1) of every number is the number.
LEMMA PowerReturns ==
  ASSUME NEW p, IsPrime(p), NEW m \in Nat, NEW k \in Nat
  PROVE  Alike(p, Power(m, 1 + k * (p - 1), p), m)
PROOF
<1> DEFINE c == p - 1
           e == k * c
<1>1. /\ p \in Nat \ {0} /\ p \in Int /\ p > 1 /\ c \in Nat /\ 0 \in Int /\ 1 \in Int /\ m \in Int
      /\ 0 \in Nat
  BY DEF IsPrime
<1>2. e \in Nat /\ e + 1 \in Nat \ {0} /\ 1 + e = e + 1 /\ e = c * k
  <2> HIDE DEF c
  <2> QED
    BY <1>1
<1>3. CASE Alike(p, m, 0)
  <2>1. Power(m, e + 1, p) = Power(0, e + 1, p)
    <3> HIDE DEF e
    <3> QED
      BY <1>1, <1>2, <1>3, PowerOfAlike
  <2>2. Power(0, e + 1, p) = 0
    <3> HIDE DEF e
    <3> QED
      BY <1>1, <1>2, PowerOfZero
  <2>3. Alike(p, 0, m)
    BY <1>1, <1>3, AlikeBack
  <2> QED
    BY <1>2, <2>1, <2>2, <2>3
<1>4. CASE ~ Alike(p, m, 0)
  <2> DEFINE w == Power(m, c, p)
             x == Power(m, e, p)
             y == Power(m, e + 1, p)
  <2>1. Alike(p, w, 1)
    BY <1>4, FermatLittle
  <2>2. w \in Nat
    <3> HIDE DEF c
    <3> QED
      BY <1>1, PowerAlike
  <2>3. Power(w, k, p) = Power(1, k, p)
    <3> HIDE DEF w
    <3> QED
      BY <1>1, <2>1, <2>2, PowerOfAlike
  <2>4. Power(w, k, p) = Power(m, c * k, p)
    <3> HIDE DEF c
    <3> QED
      BY <1>1, PowerOfPower
  <2>5. Alike(p, Power(1, k, p), 1)
    BY <1>1, PowerOfOne
  <2>6. Alike(p, x, 1)
    <3> HIDE DEF c
    <3> QED
      BY <1>2, <2>3, <2>4, <2>5
  <2>7. x \in Int /\ y \in Int /\ Alike(p, y, x * m)
    <3> HIDE DEF e
    <3> QED
      BY <1>1, <1>2, PowerAlike
  <2> HIDE DEF x, y, e, w
  <2>8. Alike(p, x * m, 1 * m) /\ 1 * m = m /\ x * m \in Int
    <3>1. Alike(p, m, m)
      BY <1>1, AlikeSelf
    <3> QED
      BY <1>1, <2>6, <2>7, <3>1, AlikeProduct
  <2> DEFINE z == x * m
  <2>9. z \in Int /\ Alike(p, y, z) /\ Alike(p, z, m)
    BY <2>7, <2>8
  <2> HIDE DEF z
  <2>10. Alike(p, y, m)
    BY <1>1, <2>7, <2>9, AlikeOn
  <2> QED
    BY <1>2, <2>10 DEF y, e
<1> QED
  BY <1>3, <1>4

-----------------------------------------------------------------------------
(* RSA.                                                                    *)

\* A power modulo p * q that is 1 modulo both p - 1 and q - 1 returns.
LEMMA PowerReturnsModulo ==
  ASSUME NEW p, IsPrime(p), NEW q, IsPrime(q), p < q, NEW t \in Nat,
         NEW m \in 0 .. p * q - 1
  PROVE  Power(m, 1 + ((p - 1) * (q - 1)) * t, p * q) = m
PROOF
<1> DEFINE n == p * q
           x == 1 + ((p - 1) * (q - 1)) * t
           z == Power(m, x, n)
<1>1. /\ p \in Nat \ {0} /\ q \in Nat \ {0} /\ p \in Int /\ q \in Int /\ p > 1 /\ q > 1
      /\ m \in Nat /\ m \in Int /\ 0 \in Int
  BY DEF IsPrime
<1>2. n \in Nat \ {0} /\ n \in Int /\ n = q * p /\ m < n
  BY <1>1
<1> DEFINE j == (q - 1) * t
           k == (p - 1) * t
<1>3. /\ j \in Nat /\ k \in Nat /\ x \in Nat
      /\ x = 1 + j * (p - 1) /\ x = 1 + k * (q - 1)
  BY <1>1
<1>4. Alike(p, Power(m, x, p), m)
  <2> HIDE DEF x, j
  <2> QED
    BY <1>1, <1>3, PowerReturns
<1>5. Alike(q, Power(m, x, q), m)
  <2> HIDE DEF x, k
  <2> QED
    BY <1>1, <1>3, PowerReturns
<1>6. z \in 0 .. n - 1 /\ z \in Int
  <2>1. z \in 0 .. n - 1
    <3> HIDE DEF x, n
    <3> QED
      BY <1>1, <1>2, <1>3, PowerStep
  <2> HIDE DEF z
  <2> QED
    BY <1>2, <2>1
<1>7. Power(m, x, p) \in Int /\ Power(m, x, q) \in Int
  <2> HIDE DEF x
  <2> QED
    BY <1>1, <1>3, PowerAlike
<1>8. Alike(p, m, m) /\ Alike(q, m, m)
  BY <1>1, AlikeSelf
<1>9. Alike(p, z, Power(m, x, p))
  <2> HIDE DEF x, n
  <2>1. n = p * q
    BY DEF n
  <2> QED
    BY <1>1, <1>2, <1>3, <1>8, <2>1, PowerOfDivisor
<1>10. Alike(q, z, Power(m, x, q))
  <2> HIDE DEF x, n
  <2> QED
    BY <1>1, <1>2, <1>3, <1>8, PowerOfDivisor
<1> DEFINE zp == Power(m, x, p)
           zq == Power(m, x, q)
<1>11. /\ zp \in Int /\ zq \in Int /\ Alike(p, z, zp) /\ Alike(p, zp, m)
       /\ Alike(q, z, zq) /\ Alike(q, zq, m)
  BY <1>4, <1>5, <1>7, <1>9, <1>10
<1> HIDE DEF zp, zq, z, x, j, k, n
<1>12. Alike(p, z, m) /\ Alike(q, z, m)
  BY <1>1, <1>6, <1>11, AlikeOn
<1>13. PICK a \in Int : z - m = p * a
  BY <1>12 DEF Alike
<1>14. Alike(q, p * a, 0)
  <2>1. PICK b \in Int : z - m = q * b
    BY <1>12 DEF Alike
  <2>2. p * a \in Int /\ p * a - 0 = q * b
    BY <1>1, <1>13, <2>1
  <2> QED
    BY <2>2 DEF Alike
<1>15. ~ Alike(q, p, 0)
  <2> SUFFICES ASSUME Alike(q, p, 0) PROVE FALSE
    OBVIOUS
  <2>1. p - 0 < q /\ 0 - p < q
    BY <1>1
  <2>2. p = 0
    BY <1>1, <2>1, AlikeSmall
  <2> QED
    BY <1>1, <2>2
<1>16. Alike(q, a, 0)
  BY <1>1, <1>14, <1>15, PrimeFactor
<1>17. PICK b \in Int : a - 0 = q * b
  BY <1>16 DEF Alike
<1>18. z - m = n * b
  <2>1. a = q * b
    BY <1>17
  <2>2. p * (q * b) = (p * q) * b
    BY <1>1
  <2> QED
    BY <1>13, <2>1, <2>2 DEF n
<1>19. Alike(n, z, m)
  BY <1>18 DEF Alike
<1>20. z - m < n /\ m - z < n
  BY <1>1, <1>2, <1>6
<1>21. z = m
  BY <1>1, <1>2, <1>6, <1>19, <1>20, AlikeSmall
<1> QED
  BY <1>21 DEF z, x, n

\* What a generated key is made of.
IsKey(key, p, q) ==
  /\ p \in Primes /\ q \in Primes /\ p < q
  /\ key.n = p * q /\ key.e \in Primes
  /\ key.d \in 1 .. baseTo[MessageSize]
  /\ (key.e * key.d) % ((p - 1) * (q - 1)) = 1

LEMMA KeysAre ==
  ASSUME NEW key \in GenerateKeys
  PROVE  \E p, q \in Primes : IsKey(key, p, q)
PROOF
<1> DEFINE N == 1 .. baseTo[MessageSize]
<1>1. PICK k \in Primes \X Primes \X Primes \X N :
        /\ key = [n |-> k[1] * k[2], e |-> k[3], d |-> k[4]]
        /\ k[1] < k[2] /\ (k[3] * k[4]) % ((k[1] - 1) * (k[2] - 1)) = 1
  <2> HIDE DEF N
  <2> QED
    BY DEF GenerateKeys, N
<1>2. k[1] \in Primes /\ k[2] \in Primes /\ k[3] \in Primes /\ k[4] \in N
  <2> HIDE DEF N
  <2> QED
    OBVIOUS
<1>3. key.n = k[1] * k[2] /\ key.e = k[3] /\ key.d = k[4]
  BY <1>1
<1>4. IsKey(key, k[1], k[2])
  BY <1>1, <1>2, <1>3 DEF IsKey
<1> QED
  BY <1>2, <1>4

LEMMA PrimesArePrime == \A p \in Primes : IsPrime(p) /\ p \in Nat /\ p > 1
PROOF
<1> SUFFICES ASSUME NEW p \in Primes PROVE IsPrime(p) /\ p \in Nat /\ p > 1
  OBVIOUS
<1>1. p \in Nat \ {0, 1} /\ \A d \in 2 .. p - 1 : p % d # 0
  BY CodecAssumption
<1>2. p \in Nat /\ p > 1
  BY <1>1
<1> QED
  BY <1>1, <1>2 DEF IsPrime

\* Decoding returns what was encoded.
LEMMA DecodeReturns ==
  ASSUME NEW key \in GenerateKeys, NEW m \in Nat, m < key.n
  PROVE  Decode(key, Encode(key, m)) = m
PROOF
<1>1. PICK p \in Primes, q \in Primes : IsKey(key, p, q)
  BY KeysAre
<1> DEFINE secret == (p - 1) * (q - 1)
           e == key.e
           d == key.d
           n == key.n
<1>2. /\ p < q /\ n = p * q /\ e \in Primes /\ d \in 1 .. baseTo[MessageSize]
      /\ (e * d) % secret = 1
  BY <1>1 DEF IsKey
<1>3. IsPrime(p) /\ IsPrime(q) /\ p \in Nat /\ q \in Nat /\ p > 1 /\ q > 1
  BY PrimesArePrime
<1>4. e \in Nat
  BY <1>2, PrimesArePrime
<1> HIDE DEF e, d, n
<1>5. d \in Nat
  BY <1>2
<1>6. secret \in Nat \ {0} /\ n \in Nat \ {0} /\ e * d \in Nat
  <2>1. p - 1 \in Nat \ {0} /\ q - 1 \in Nat \ {0}
    BY <1>3
  <2>2. secret \in Nat \ {0}
    <3> DEFINE a == p - 1
               b == q - 1
    <3>1. a \in Nat \ {0} /\ b \in Nat \ {0}
      BY <2>1
    <3> HIDE DEF a, b
    <3>2. a * b \in Nat \ {0}
      BY <3>1
    <3> QED
      BY <3>2 DEF a, b
  <2> QED
    BY <1>2, <1>3, <1>4, <1>5, <2>2
<1> DEFINE ed == e * d
           t == ed \div secret
<1>7. t \in Nat /\ ed = secret * t + 1
  <2> HIDE DEF secret, ed
  <2>1. ed \in Nat
    BY <1>6 DEF ed
  <2>2. ed \div secret \in Nat /\ ed = secret * (ed \div secret) + (ed % secret)
    BY <1>6, <2>1, Remainders
  <2>3. ed % secret = 1
    BY <1>2 DEF ed
  <2> QED
    BY <2>2, <2>3
<1>8. ed = 1 + secret * t
  <2> HIDE DEF t, secret, ed
  <2> QED
    BY <1>6, <1>7
<1>9. m \in 0 .. p * q - 1
  BY <1>2, <1>3, <1>6 DEF n
<1>10. Power(m, 1 + secret * t, p * q) = m
  <2> HIDE DEF t
  <2> QED
    BY <1>2, <1>3, <1>7, <1>9, PowerReturnsModulo
<1>11. Power(Power(m, e, n), d, n) = Power(m, e * d, n)
  BY <1>4, <1>5, <1>6, PowerOfPower
<1>12. Power(m, e * d, n) = m
  BY <1>2, <1>8, <1>10
<1>13. Decode(key, Encode(key, m)) = Power(Power(m, e, n), d, n)
  BY DEF Decode, Encode, e, d, n
<1> QED
  BY <1>11, <1>12, <1>13

-----------------------------------------------------------------------------
(* Digits.                                                                 *)

LEMMA CodecSizes ==
  /\ Base \in Nat \ {0, 1} /\ KeySize \in Nat \ {0} /\ MessageSize \in Nat \ {0}
  /\ MessageSize = KeySize + KeySize
PROOF
  BY CodecAssumption DEF MessageSize

LEMMA BaseToEquations ==
  /\ baseTo[0] = 1
  /\ \A n \in 1 .. MessageSize : baseTo[n] = Base * baseTo[n - 1]
PROOF
<1> DEFINE last == MessageSize
           Body(f) == [n \in 0 .. last |-> IF n = 0 THEN 1 ELSE Base * f[n - 1]]
           next == [n \in 1 .. last |-> [smaller \in Nat |-> Base * smaller]]
<1>1. next \in [1 .. last -> [Nat -> Nat]] /\ last \in Nat
  BY CodecSizes
<1>2. PICK f \in [0 .. last -> Nat] :
        f[0] = 1 /\ \A n \in 1 .. last : f[n] = next[n][f[n - 1]]
  <2> HIDE DEF next, Body, last
  <2>1. HasRecursion(last, Nat)
    BY <1>1, RecursionExists, Zenon
  <2>2. 1 \in Nat
    OBVIOUS
  <2> QED
    BY <1>1, <2>1, <2>2, Zenon DEF HasRecursion
<1>3. f = Body(f)
  <2>1. ASSUME NEW n \in 1 .. last
        PROVE  f[n] = Base * f[n - 1]
    <3>1. n - 1 \in 0 .. last
      BY <1>1
    <3>2. f[n - 1] \in Nat
      BY <1>2, <3>1
    <3>3. next[n][f[n - 1]] = Base * f[n - 1]
      BY <3>2
    <3> QED
      BY <1>2, <3>3
  <2>2. \A n \in 0 .. last : n = 0 \/ n \in 1 .. last
    BY <1>1
  <2>3. \A n \in 0 .. last : f[n] = Body(f)[n]
    BY <1>2, <2>1, <2>2
  <2> QED
    BY <1>2, <2>3
<1>4. baseTo = CHOOSE g : g = Body(g)
  BY DEF baseTo
<1>5. baseTo = Body(baseTo)
  <2> HIDE DEF Body
  <2> QED
    BY <1>3, <1>4
<1>6. \A n \in 0 .. last : baseTo[n] = Body(baseTo)[n]
  BY <1>5
<1>7. baseTo[0] = 1
  <2>1. 0 \in 0 .. last
    BY <1>1
  <2> QED
    BY <1>6, <2>1
<1>8. ASSUME NEW n \in 1 .. last
      PROVE  baseTo[n] = Base * baseTo[n - 1]
  <2>1. n \in 0 .. last /\ n # 0
    BY <1>1
  <2> QED
    BY <1>6, <2>1
<1> QED
  BY <1>7, <1>8

LEMMA BaseToTypes == \A n \in 0 .. MessageSize : baseTo[n] \in Nat \ {0}
PROOF
<1> DEFINE S == {n \in 0 .. MessageSize : baseTo[n] \in Nat \ {0}}
<1>1. 0 \in S /\ MessageSize \in Nat
  BY BaseToEquations, CodecSizes
<1>2. ASSUME NEW n \in S, n \in 0 .. MessageSize - 1
      PROVE  n + 1 \in S
  <2>1. n + 1 \in 1 .. MessageSize /\ n + 1 \in 0 .. MessageSize /\ (n + 1) - 1 = n
    BY <1>1, <1>2
  <2>2. baseTo[n + 1] = Base * baseTo[n]
    BY <2>1, BaseToEquations
  <2>3. baseTo[n] \in Nat \ {0} /\ Base \in Nat \ {0}
    BY CodecSizes
  <2> DEFINE x == baseTo[n]
  <2>4. Base * x \in Nat \ {0}
    <3> HIDE DEF x
    <3>1. x \in Nat \ {0}
      BY <2>3 DEF x
    <3> QED
      BY <2>3, <3>1
  <2> QED
    BY <2>1, <2>2, <2>4
<1>3. 0 .. MessageSize \subseteq S
  <2> HIDE DEF S
  <2> QED
    BY <1>1, <1>2, BoundedInduction
<1> QED
  BY <1>3

\* The powers of the base grow.
LEMMA BaseToGrows ==
  ASSUME NEW a \in 0 .. MessageSize, NEW b \in 0 .. MessageSize, a <= b
  PROVE  baseTo[a] <= baseTo[b]
PROOF
<1> DEFINE c == b - a
           S == {k \in 0 .. c : baseTo[a] <= baseTo[a + k]}
<1>1. c \in Nat /\ a + c = b /\ a + 0 = a
  OBVIOUS
<1>2. 0 \in S
  <2>1. baseTo[a] \in Nat
    BY BaseToTypes
  <2> QED
    BY <1>1, <2>1
<1>3. ASSUME NEW k \in S, k \in 0 .. c - 1
      PROVE  k + 1 \in S
  <2> DEFINE n == a + k
  <2>1. /\ n \in 0 .. MessageSize /\ n + 1 \in 1 .. MessageSize /\ (n + 1) - 1 = n
        /\ k + 1 \in 0 .. c /\ n + 1 = a + (k + 1) /\ n + 1 \in 0 .. MessageSize
    BY <1>3, CodecSizes
  <2>2. baseTo[a] <= baseTo[n]
    BY <1>3
  <2> HIDE DEF n
  <2> DEFINE x == baseTo[n]
             y == baseTo[n + 1]
             z == baseTo[a]
  <2>3. x \in Nat \ {0} /\ y \in Nat /\ z \in Nat
    BY <2>1, BaseToTypes
  <2>4. y = Base * x
    BY <2>1, BaseToEquations
  <2>5. z <= x
    BY <2>2
  <2> HIDE DEF x, y, z
  <2>6. x <= Base * x
    BY <2>3, CodecSizes
  <2>7. z <= y
    BY <2>3, <2>4, <2>5, <2>6
  <2> QED
    BY <2>1, <2>7 DEF z, y
<1>4. 0 .. c \subseteq S
  <2> HIDE DEF S, c
  <2> QED
    BY <1>1, <1>2, <1>3, BoundedInduction
<1>5. c \in S
  <2> HIDE DEF S, c
  <2>1. c \in 0 .. c
    BY <1>1
  <2> QED
    BY <1>4, <2>1
<1> QED
  BY <1>1, <1>5

LEMMA BaseToSum ==
  ASSUME NEW a \in Nat, NEW b \in Nat, a + b <= MessageSize
  PROVE  baseTo[a + b] = baseTo[a] * baseTo[b]
PROOF
<1> DEFINE S == {n \in 0 .. b : baseTo[a + n] = baseTo[a] * baseTo[n]}
<1>1. a \in 0 .. MessageSize /\ MessageSize \in Nat
  BY CodecSizes
<1>2. 0 \in S
  BY <1>1, BaseToEquations, BaseToTypes
<1>3. ASSUME NEW n \in S, n \in 0 .. b - 1
      PROVE  n + 1 \in S
  <2>1. /\ n + 1 \in 1 .. MessageSize /\ (n + 1) - 1 = n
        /\ a + (n + 1) \in 1 .. MessageSize /\ (a + (n + 1)) - 1 = a + n
        /\ n \in 0 .. MessageSize
    BY <1>1, <1>3
  <2>2. baseTo[n + 1] = Base * baseTo[n] /\ baseTo[a + (n + 1)] = Base * baseTo[a + n]
    BY <2>1, BaseToEquations
  <2>3. baseTo[a + n] = baseTo[a] * baseTo[n]
    OBVIOUS
  <2> DEFINE x == baseTo[a]
             y == baseTo[n]
  <2>4. x \in Nat /\ y \in Nat
    BY <1>1, <2>1, BaseToTypes
  <2>5. Base * (x * y) = x * (Base * y)
    <3> HIDE DEF x, y
    <3> QED
      BY <2>4, CodecSizes
  <2> QED
    BY <1>3, <2>2, <2>3, <2>5
<1>4. 0 .. b \subseteq S
  <2> HIDE DEF S
  <2> QED
    BY <1>2, <1>3, BoundedInduction
<1> QED
  BY <1>4

LEMMA DigitsAre ==
  ASSUME NEW a \in Int
  PROVE  a % Base \in Digit /\ Digit = 0 .. Base - 1
PROOF
<1>1. Base \in Nat \ {0}
  BY CodecSizes
<1>2. a % Base \in 0 .. Base - 1
  BY <1>1, AlikeRemainder
<1> QED
  BY <1>2 DEF Digit

\* Dividing twice.
LEMMA DivisionTwice ==
  ASSUME NEW a \in Nat, NEW b \in Nat \ {0}, NEW c \in Nat \ {0}
  PROVE  (a \div b) \div c = a \div (b * c)
PROOF
<1> DEFINE q == a \div b
           r == a % b
           s == q \div c
           u == q % c
           n == b * c
           x == a \div n
           y == a % n
<1>1. q \in Nat /\ r \in 0 .. b - 1 /\ a = b * q + r
  BY Remainders
<1>2. s \in Nat /\ u \in 0 .. c - 1 /\ q = c * s + u
  <2> HIDE DEF q
  <2> QED
    BY <1>1, Remainders
<1>3. n \in Nat \ {0}
  OBVIOUS
<1>4. x \in Nat /\ y \in 0 .. n - 1 /\ a = n * x + y
  <2> HIDE DEF n
  <2> QED
    BY <1>3, Remainders
<1> HIDE DEF q, r, s, u, x, y
<1> DEFINE z == b * u + r
<1>5. z \in Nat /\ z < n
  <2>1. b * u <= b * (c - 1)
    BY <1>2
  <2>2. b * (c - 1) = n - b
    OBVIOUS
  <2>3. b * u \in Nat
    BY <1>2
  <2> QED
    BY <1>1, <1>3, <2>1, <2>2, <2>3
<1>6. a = n * s + z
  <2>1. b * q = n * s + b * u
    <3>1. b * (c * s + u) = (b * c) * s + b * u
      BY <1>2
    <3> QED
      BY <1>2, <3>1
  <2> QED
    BY <1>1, <1>2, <1>3, <2>1
<1> HIDE DEF z, n
<1>7. n * (s - x) = y - z
  <2>1. n * (s - x) = n * s - n * x
    BY <1>2, <1>3, <1>4
  <2> QED
    BY <1>2, <1>3, <1>4, <1>5, <1>6, <2>1
<1>8. y - z < n /\ y - z > 0 - n /\ s - x \in Int
  BY <1>2, <1>3, <1>4, <1>5
<1>9. s - x = 0
  BY <1>3, <1>7, <1>8, SmallMultiple
<1>10. s = x
  BY <1>2, <1>4, <1>9
<1> QED
  BY <1>10 DEF s, x, q, n

\* A number divided by the next power of the base.
LEMMA NextDivision ==
  ASSUME NEW a \in Nat, NEW k \in 0 .. MessageSize - 1
  PROVE  /\ (a \div baseTo[k]) \div Base = a \div baseTo[k + 1]
         /\ a \div baseTo[k] = Base * (a \div baseTo[k + 1]) + ((a \div baseTo[k]) % Base)
         /\ a \div baseTo[k] \in Nat /\ a \div baseTo[k + 1] \in Nat
PROOF
<1> DEFINE x == baseTo[k]
           y == baseTo[k + 1]
<1>1. /\ k \in 0 .. MessageSize /\ k + 1 \in 1 .. MessageSize /\ (k + 1) - 1 = k
      /\ k + 1 \in 0 .. MessageSize /\ Base \in Nat \ {0}
  BY CodecSizes
<1>2. x \in Nat \ {0} /\ y \in Nat \ {0}
  BY <1>1, BaseToTypes
<1>3. y = Base * x
  BY <1>1, BaseToEquations
<1> HIDE DEF x, y
<1>4. y = x * Base
  BY <1>1, <1>2, <1>3
<1> DEFINE q == a \div x
<1>5. q \in Nat
  BY <1>2, Remainders
<1>6. q \div Base = a \div y
  BY <1>1, <1>2, <1>4, DivisionTwice
<1> HIDE DEF q
<1>7. q = Base * (q \div Base) + (q % Base) /\ q \div Base \in Nat
  BY <1>1, <1>5, Remainders
<1> QED
  BY <1>5, <1>6, <1>7 DEF q, x, y

\* The numbers the first digits make.
AreNumbers(f, digits, size) ==
  /\ f[0] = 0 /\ f[0] \in Nat
  /\ \A k \in 1 .. size : f[k] = Base * f[k - 1] + digits[k] /\ f[k] \in Nat

LEMMA LengthIs ==
  ASSUME NEW size \in Nat, NEW D, NEW digits \in [1 .. size -> D]
  PROVE  Len(digits) = size /\ digits \in Seq(D)
PROOF
  OBVIOUS

LEMMA ImportIs ==
  ASSUME NEW size \in Nat, NEW digits \in [1 .. size -> Digit]
  PROVE  \E f : AreNumbers(f, digits, size) /\ ImportBits(digits) = f[size]
PROOF
<1> DEFINE Body(f) == [n \in 0 .. Len(digits) |->
                         IF n = 0 THEN 0 ELSE Base * f[n - 1] + digits[n]]
           next == [n \in 1 .. size |-> [before \in Nat |-> Base * before + digits[n]]]
           g == CHOOSE h : h = Body(h)
<1>1. Len(digits) = size
  BY LengthIs
<1>2. Base \in Nat /\ Digit \subseteq Nat
  BY CodecSizes DEF Digit
<1>3. \A n \in 1 .. size : digits[n] \in Nat
  BY <1>2
<1>4. next \in [1 .. size -> [Nat -> Nat]]
  <2>1. ASSUME NEW n \in 1 .. size, NEW before \in Nat
        PROVE  Base * before + digits[n] \in Nat
    <3> DEFINE x == digits[n]
    <3>1. x \in Nat
      BY <1>3
    <3> HIDE DEF x
    <3>2. Base * before + x \in Nat
      BY <1>2, <3>1
    <3> QED
      BY <3>2 DEF x
  <2> QED
    BY <2>1
<1>5. PICK f \in [0 .. size -> Nat] :
        f[0] = 0 /\ \A n \in 1 .. size : f[n] = next[n][f[n - 1]]
  <2> HIDE DEF next, Body
  <2>1. HasRecursion(size, Nat)
    BY RecursionExists, Zenon
  <2>2. 0 \in Nat
    OBVIOUS
  <2> QED
    BY <1>4, <2>1, <2>2, Zenon DEF HasRecursion
<1>6. f = Body(f)
  <2>1. ASSUME NEW n \in 1 .. size
        PROVE  f[n] = Base * f[n - 1] + digits[n]
    <3>1. n - 1 \in 0 .. size
      OBVIOUS
    <3>2. f[n - 1] \in Nat
      BY <1>5, <3>1
    <3>3. next[n][f[n - 1]] = Base * f[n - 1] + digits[n]
      BY <3>2
    <3> QED
      BY <1>5, <3>3
  <2>2. \A n \in 0 .. size : n = 0 \/ n \in 1 .. size
    OBVIOUS
  <2>3. \A n \in 0 .. size : f[n] = IF n = 0 THEN 0 ELSE Base * f[n - 1] + digits[n]
    BY <1>5, <2>1, <2>2
  <2> QED
    BY <1>1, <1>5, <2>3
<1>7. g = Body(g)
  <2> HIDE DEF Body
  <2> QED
    BY <1>6
<1>8. ImportBits(digits) = g[size]
  BY <1>1 DEF ImportBits
<1> HIDE DEF g
<1>9. \A n \in 0 .. size : g[n] = IF n = 0 THEN 0 ELSE Base * g[n - 1] + digits[n]
  <2>1. g = [n \in 0 .. size |-> IF n = 0 THEN 0 ELSE Base * g[n - 1] + digits[n]]
    BY <1>1, <1>7
  <2> QED
    BY <2>1
<1>10. g[0] = 0
  <2>1. 0 \in 0 .. size
    OBVIOUS
  <2> QED
    BY <1>9, <2>1
<1>11. ASSUME NEW k \in 1 .. size
       PROVE  g[k] = Base * g[k - 1] + digits[k]
  <2>1. k \in 0 .. size /\ k # 0
    OBVIOUS
  <2> QED
    BY <1>9, <2>1
<1> DEFINE S == {k \in 0 .. size : g[k] \in Nat}
<1>12. 0 \in S
  BY <1>10
<1>13. ASSUME NEW k \in S, k \in 0 .. size - 1
       PROVE  k + 1 \in S
  <2>1. k + 1 \in 1 .. size /\ k + 1 \in 0 .. size /\ (k + 1) - 1 = k /\ g[k] \in Nat
    BY <1>13
  <2>2. g[k + 1] = Base * g[k] + digits[k + 1] /\ digits[k + 1] \in Nat
    BY <1>3, <1>11, <2>1
  <2>3. g[k + 1] \in Nat
    <3> DEFINE x == g[k]
               y == digits[k + 1]
    <3>1. x \in Nat /\ y \in Nat /\ g[k + 1] = Base * x + y
      BY <2>1, <2>2
    <3> HIDE DEF x, y
    <3>2. Base * x + y \in Nat
      BY <1>2, <3>1
    <3> QED
      BY <3>1, <3>2
  <2> QED
    BY <2>1, <2>3
<1>14. 0 .. size \subseteq S
  <2> HIDE DEF S
  <2> QED
    BY <1>12, <1>13, BoundedInduction
<1>15. \A k \in 1 .. size : g[k] \in Nat
  <2>1. \A k \in 1 .. size : k \in 0 .. size
    OBVIOUS
  <2> QED
    BY <1>14, <2>1
<1>16. AreNumbers(g, digits, size)
  BY <1>10, <1>11, <1>15 DEF AreNumbers
<1> QED
  BY <1>8, <1>16

\* A number of k digits is less than the power k of the base.
LEMMA ImportBound ==
  ASSUME NEW size \in 0 .. MessageSize, NEW digits \in [1 .. size -> Digit]
  PROVE  ImportBits(digits) \in Nat /\ ImportBits(digits) < baseTo[size]
PROOF
<1>1. PICK f : AreNumbers(f, digits, size) /\ ImportBits(digits) = f[size]
  <2>1. size \in Nat
    OBVIOUS
  <2> QED
    BY <2>1, ImportIs
<1>2. /\ f[0] = 0 /\ \A k \in 1 .. size : f[k] = Base * f[k - 1] + digits[k]
  BY <1>1 DEF AreNumbers
<1> DEFINE S == {k \in 0 .. size : f[k] \in Nat /\ f[k] < baseTo[k]}
<1>3. 0 \in S
  BY <1>2, BaseToEquations
<1>4. ASSUME NEW k \in S, k \in 0 .. size - 1
      PROVE  k + 1 \in S
  <2> DEFINE x == f[k]
             y == baseTo[k]
             t == digits[k + 1]
  <2>1. /\ k + 1 \in 1 .. size /\ k + 1 \in 0 .. size /\ k + 1 \in 1 .. MessageSize /\ (k + 1) - 1 = k
        /\ k \in 0 .. MessageSize
    BY <1>4, CodecSizes
  <2>2. x \in Nat /\ x < y
    BY <1>4
  <2>3. y \in Nat /\ baseTo[k + 1] = Base * y
    BY <2>1, BaseToTypes, BaseToEquations
  <2>4. t \in 0 .. Base - 1
    BY <2>1 DEF Digit
  <2>5. f[k + 1] = Base * x + t
    BY <1>2, <2>1
  <2> HIDE DEF x, y, t
  <2>6. Base * x + t \in Nat /\ Base * x + t < Base * y
    <3>1. Base \in Nat \ {0}
      BY CodecSizes
    <3>2. Base * (x + 1) <= Base * y
      BY <2>2, <2>3, <3>1
    <3>3. Base * (x + 1) = Base * x + Base /\ Base * x \in Nat /\ Base * y \in Nat
      BY <2>2, <2>3, <3>1
    <3> QED
      BY <2>4, <3>1, <3>2, <3>3
  <2> QED
    BY <2>1, <2>3, <2>5, <2>6
<1>5. 0 .. size \subseteq S
  <2> HIDE DEF S
  <2> QED
    BY <1>3, <1>4, BoundedInduction
<1>6. size \in S
  <2>1. size \in 0 .. size
    OBVIOUS
  <2> HIDE DEF S
  <2> QED
    BY <1>5, <2>1
<1> QED
  BY <1>1, <1>6

\* The digits exported: no more than the number needs.
LEMMA ExportIs ==
  ASSUME NEW number \in Nat, number < baseTo[MessageSize]
  PROVE  \E size \in 1 .. MessageSize :
           /\ number < baseTo[size] /\ (size > 1 => number >= baseTo[size - 1])
           /\ ExportBits(number) = [i \in 1 .. size |-> (number \div baseTo[size - i]) % Base]
           /\ ExportBits(number) \in [1 .. size -> Digit]
PROOF
<1> DEFINE Fits(n) == number < baseTo[n] /\ (n > 1 => number >= baseTo[n - 1])
           S == {n \in 1 .. MessageSize : number < baseTo[n]}
           size == CHOOSE n \in 1 .. MessageSize : Fits(n)
<1>1. MessageSize \in Nat \ {0}
  BY CodecSizes
<1>2. PICK l \in S : \A k \in S : l <= k
  <2>1. S \in SUBSET (0 .. MessageSize) /\ MessageSize \in S
    BY <1>1
  <2> HIDE DEF S
  <2>2. S # {} /\ MessageSize \in Nat
    BY <1>1, <2>1
  <2> QED
    BY <2>1, <2>2, Least
<1>3. Fits(l)
  <2>1. ASSUME l > 1
        PROVE  number >= baseTo[l - 1]
    <3>1. l - 1 \in 1 .. MessageSize /\ ~ (l <= l - 1) /\ l - 1 \in 0 .. MessageSize
      BY <1>1, <2>1
    <3>2. ~ (number < baseTo[l - 1])
      BY <1>2, <3>1
    <3>3. baseTo[l - 1] \in Nat
      BY <3>1, BaseToTypes
    <3> QED
      BY <3>2, <3>3
  <2> QED
    BY <1>2, <2>1
<1>4. l \in 1 .. MessageSize
  OBVIOUS
<1>5. size \in 1 .. MessageSize /\ Fits(size)
  <2> HIDE DEF Fits
  <2> QED
    BY <1>3, <1>4
<1>6. ExportBits(number) = [i \in 1 .. size |-> (number \div baseTo[size - i]) % Base]
  BY DEF ExportBits
<1> HIDE DEF size
<1>7. ASSUME NEW i \in 1 .. size
      PROVE  (number \div baseTo[size - i]) % Base \in Digit
  <2>1. size - i \in 0 .. MessageSize
    BY <1>1, <1>5
  <2>2. baseTo[size - i] \in Nat \ {0}
    BY <2>1, BaseToTypes
  <2> DEFINE x == number \div baseTo[size - i]
  <2>3. x \in Nat
    BY <2>2, Remainders
  <2> HIDE DEF x
  <2>4. x % Base \in Digit
    BY <2>3, DigitsAre
  <2> QED
    BY <2>4 DEF x
<1>8. ExportBits(number) \in [1 .. size -> Digit]
  BY <1>6, <1>7
<1> QED
  BY <1>5, <1>6, <1>8

\* A number that fills a size has that many digits.
LEMMA ExportFills ==
  ASSUME NEW size \in 1 .. MessageSize, NEW number \in Nat,
         number < baseTo[size], Fills(number, size)
  PROVE  /\ ExportBits(number) = [i \in 1 .. size |-> (number \div baseTo[size - i]) % Base]
         /\ ExportBits(number) \in [1 .. size -> Digit]
PROOF
<1>1. MessageSize \in Nat \ {0} /\ size \in 0 .. MessageSize /\ size - 1 \in 0 .. MessageSize
      /\ MessageSize \in 0 .. MessageSize
  BY CodecSizes
<1>2. number < baseTo[MessageSize]
  <2>1. baseTo[size] <= baseTo[MessageSize]
    BY <1>1, BaseToGrows
  <2>2. baseTo[size] \in Nat /\ baseTo[MessageSize] \in Nat
    BY <1>1, BaseToTypes
  <2> QED
    BY <2>1, <2>2
<1>3. PICK n \in 1 .. MessageSize :
        /\ number < baseTo[n] /\ (n > 1 => number >= baseTo[n - 1])
        /\ ExportBits(number) = [i \in 1 .. n |-> (number \div baseTo[n - i]) % Base]
        /\ ExportBits(number) \in [1 .. n -> Digit]
  BY <1>2, ExportIs
<1>4. n = size
  <2>1. number >= baseTo[size - 1]
    BY DEF Fills
  <2>2. n \in 0 .. MessageSize /\ n - 1 \in 0 .. MessageSize
    BY <1>1
  <2>3. CASE n < size
    <3>1. baseTo[n] <= baseTo[size - 1]
      BY <1>1, <2>2, <2>3, BaseToGrows
    <3>2. baseTo[n] \in Nat /\ baseTo[size - 1] \in Nat
      BY <1>1, <2>2, BaseToTypes
    <3> QED
      BY <1>3, <2>1, <3>1, <3>2
  <2>4. CASE size < n
    <3>1. baseTo[size] <= baseTo[n - 1] /\ n > 1
      BY <1>1, <2>2, <2>4, BaseToGrows
    <3>2. baseTo[size] \in Nat /\ baseTo[n - 1] \in Nat
      BY <1>1, <2>2, BaseToTypes
    <3> QED
      BY <1>3, <3>1, <3>2
  <2> QED
    BY <1>1, <2>3, <2>4
<1> QED
  BY <1>3, <1>4

\* What is exported is imported.
LEMMA ImportReturns ==
  ASSUME NEW size \in 1 .. MessageSize, NEW number \in Nat,
         number < baseTo[size], Fills(number, size)
  PROVE  ImportBits(ExportBits(number)) = number
PROOF
<1> DEFINE digits == ExportBits(number)
<1>1. /\ size \in Nat /\ digits \in [1 .. size -> Digit]
      /\ digits = [i \in 1 .. size |-> (number \div baseTo[size - i]) % Base]
  BY ExportFills
<1> HIDE DEF digits
<1>2. PICK f : AreNumbers(f, digits, size) /\ ImportBits(digits) = f[size]
  BY <1>1, ImportIs
<1>3. f[0] = 0 /\ \A k \in 1 .. size : f[k] = Base * f[k - 1] + digits[k]
  BY <1>2 DEF AreNumbers
<1> DEFINE S == {k \in 0 .. size : f[k] = number \div baseTo[size - k]}
<1>4. 0 \in S
  <2>1. size \in 0 .. MessageSize /\ size - 0 = size
    BY CodecSizes
  <2> DEFINE d == baseTo[size]
             q == number \div d
             r == number % d
  <2>2. d \in Nat \ {0}
    BY <2>1, BaseToTypes
  <2>3. number < d
    OBVIOUS
  <2> HIDE DEF d
  <2>4. q \in Nat /\ r \in 0 .. d - 1 /\ number = d * q + r
    BY <2>2, Remainders
  <2> HIDE DEF q, r
  <2>5. d * q < d /\ d * q > 0 - d
    <3>1. d * q \in Nat
      BY <2>2, <2>4
    <3> QED
      BY <2>2, <2>3, <2>4, <3>1
  <2>6. q = 0
    BY <2>2, <2>4, <2>5, SmallMultiple
  <2> QED
    BY <1>1, <1>3, <2>1, <2>6 DEF q, d
<1>5. ASSUME NEW k \in S, k \in 0 .. size - 1
      PROVE  k + 1 \in S
  <2> DEFINE j == size - (k + 1)
  <2>1. /\ k + 1 \in 1 .. size /\ k + 1 \in 0 .. size /\ (k + 1) - 1 = k
        /\ j \in 0 .. MessageSize - 1 /\ j + 1 = size - k
    BY <1>1, <1>5, CodecSizes
  <2>2. f[k] = number \div baseTo[j + 1]
    BY <1>5, <2>1
  <2>3. f[k + 1] = Base * f[k] + digits[k + 1]
    BY <1>3, <2>1
  <2>4. digits[k + 1] = (number \div baseTo[j]) % Base
    BY <1>1, <2>1
  <2> HIDE DEF j
  <2>5. number \div baseTo[j] = Base * (number \div baseTo[j + 1]) + ((number \div baseTo[j]) % Base)
    BY <2>1, NextDivision
  <2>6. f[k + 1] = number \div baseTo[j]
    BY <2>2, <2>3, <2>4, <2>5
  <2> QED
    BY <2>1, <2>6 DEF j
<1>6. 0 .. size \subseteq S
  <2> HIDE DEF S
  <2> QED
    BY <1>1, <1>4, <1>5, BoundedInduction
<1>7. f[size] = number \div baseTo[size - size]
  <2>1. size \in 0 .. size
    BY <1>1
  <2>2. size \in S
    <3> HIDE DEF S
    <3> QED
      BY <1>6, <2>1
  <2> QED
    BY <2>2
<1>8. number \div baseTo[size - size] = number
  <2>1. size - size = 0 /\ baseTo[0] = 1
    BY <1>1, BaseToEquations
  <2>2. number \div 1 = number
    OBVIOUS
  <2> QED
    BY <2>1, <2>2
<1> QED
  BY <1>2, <1>7, <1>8 DEF digits

\* And what is imported is exported, when its first digit is no zero.
LEMMA ExportReturns ==
  ASSUME NEW size \in 1 .. MessageSize, NEW digits \in [1 .. size -> Digit],
         Fills(ImportBits(digits), size)
  PROVE  ExportBits(ImportBits(digits)) = digits
PROOF
<1> DEFINE number == ImportBits(digits)
<1>1. size \in Nat /\ size \in 0 .. MessageSize
  BY CodecSizes
<1>2. number \in Nat /\ number < baseTo[size]
  BY <1>1, ImportBound
<1>3. Fills(number, size)
  OBVIOUS
<1>4. PICK f : AreNumbers(f, digits, size) /\ number = f[size]
  BY <1>1, ImportIs
<1> HIDE DEF number
<1>5. /\ f[0] \in Nat
      /\ \A k \in 1 .. size : f[k] = Base * f[k - 1] + digits[k] /\ f[k] \in Nat
  BY <1>4 DEF AreNumbers
<1>6. ASSUME NEW k \in 1 .. size
      PROVE  f[k] \div Base = f[k - 1] /\ f[k] % Base = digits[k]
  <2> DEFINE x == f[k]
             y == f[k - 1]
             t == digits[k]
             q == x \div Base
             r == x % Base
  <2>1. x \in Nat /\ x = Base * y + t
    BY <1>5
  <2>2. t \in 0 .. Base - 1 /\ Base \in Nat \ {0}
    BY CodecSizes DEF Digit
  <2>3. y \in Nat
    <3>1. k - 1 = 0 \/ k - 1 \in 1 .. size
      BY <1>1
    <3> QED
      BY <1>5, <3>1
  <2> HIDE DEF x, y, t
  <2>4. q \in Nat /\ r \in 0 .. Base - 1 /\ x = Base * q + r
    BY <2>1, <2>2, Remainders
  <2>5. r = t
    <3>1. y \in Int
      BY <2>3
    <3>2. (Base * y + t) % Base = t
      BY <2>2, <3>1, Remainders
    <3> QED
      BY <2>1, <3>2
  <2> HIDE DEF q, r
  <2>6. Base * q = Base * y
    <3>1. Base * q \in Int /\ Base * y \in Int
      BY <2>2, <2>3, <2>4
    <3> QED
      BY <2>1, <2>2, <2>4, <2>5, <3>1
  <2>7. Base * (q - y) = 0 /\ q - y \in Int
    BY <2>2, <2>3, <2>4, <2>6
  <2>8. q - y = 0
    BY <2>2, <2>7, SmallMultiple
  <2>9. q = y
    BY <2>3, <2>4, <2>8
  <2> QED
    BY <2>5, <2>9 DEF q, r, x, y, t
<1> DEFINE S == {j \in 0 .. size - 1 : number \div baseTo[j] = f[size - j]}
<1>7. 0 \in S
  <2>1. baseTo[0] = 1 /\ number \div 1 = number /\ size - 0 = size /\ 0 \in 0 .. size - 1
    BY <1>1, <1>2, BaseToEquations
  <2> QED
    BY <1>4, <2>1
<1>8. ASSUME NEW j \in S, j \in 0 .. (size - 1) - 1
      PROVE  j + 1 \in S
  <2> DEFINE k == size - j
  <2>1. /\ j \in 0 .. MessageSize - 1 /\ j + 1 \in 0 .. size - 1 /\ k \in 1 .. size
        /\ k - 1 = size - (j + 1)
    BY <1>1, <1>8, CodecSizes
  <2>2. number \div baseTo[j] = f[k]
    BY <1>8
  <2> HIDE DEF k
  <2>3. (number \div baseTo[j]) \div Base = number \div baseTo[j + 1]
    BY <1>2, <2>1, NextDivision
  <2>4. number \div baseTo[j + 1] = f[k - 1]
    BY <1>6, <2>1, <2>2, <2>3
  <2> QED
    BY <2>1, <2>4
<1>9. 0 .. size - 1 \subseteq S
  <2>1. size - 1 \in Nat
    BY <1>1
  <2> HIDE DEF S
  <2> QED
    BY <1>7, <1>8, <2>1, BoundedInduction
<1>10. ASSUME NEW i \in 1 .. size
       PROVE  (number \div baseTo[size - i]) % Base = digits[i]
  <2>1. size - i \in 0 .. size - 1 /\ size - (size - i) = i
    BY <1>1
  <2>2. size - i \in S
    <3> HIDE DEF S
    <3> QED
      BY <1>9, <2>1
  <2>3. number \div baseTo[size - i] = f[i]
    BY <2>1, <2>2
  <2>4. f[i] % Base = digits[i]
    BY <1>6
  <2> QED
    BY <2>3, <2>4
<1>11. ExportBits(number) = [i \in 1 .. size |-> (number \div baseTo[size - i]) % Base]
  BY <1>2, <1>3, ExportFills
<1>12. digits = [i \in 1 .. size |-> digits[i]]
  OBVIOUS
<1>13. ExportBits(number) = digits
  BY <1>10, <1>11, <1>12
<1> QED
  BY <1>13 DEF number

LEMMA OverTypes ==
  ASSUME NEW size \in Nat, NEW buffer \in [1 .. size -> Digit],
         NEW k \in Nat, NEW digits \in [1 .. k -> Digit]
  PROVE  Over(buffer, digits) \in [1 .. size -> Digit]
PROOF
<1>1. Len(digits) = k /\ DOMAIN buffer = 1 .. size
  BY LengthIs
<1>2. Over(buffer, digits) = [i \in 1 .. size |-> IF i <= k THEN digits[i] ELSE buffer[i]]
  BY <1>1 DEF Over
<1>3. ASSUME NEW i \in 1 .. size
      PROVE  (IF i <= k THEN digits[i] ELSE buffer[i]) \in Digit
  <2>1. CASE i <= k
    <3>1. i \in 1 .. k
      BY <2>1
    <3> QED
      BY <2>1, <3>1
  <2> QED
    BY <2>1
<1> QED
  BY <1>2, <1>3

\* Digits that fill the buffer leave nothing of it.
LEMMA OverFull ==
  ASSUME NEW size \in Nat, NEW buffer \in [1 .. size -> Digit],
         NEW digits \in [1 .. size -> Digit]
  PROVE  Over(buffer, digits) = digits
PROOF
<1>1. Len(digits) = size /\ DOMAIN buffer = 1 .. size
  BY LengthIs
<1>2. Over(buffer, digits) = [i \in 1 .. size |-> IF i <= size THEN digits[i] ELSE buffer[i]]
  BY <1>1 DEF Over
<1>3. \A i \in 1 .. size : (IF i <= size THEN digits[i] ELSE buffer[i]) = digits[i]
  OBVIOUS
<1>4. digits = [i \in 1 .. size |-> digits[i]]
  OBVIOUS
<1> QED
  BY <1>2, <1>3, <1>4

LEMMA NoneIsNoKey == None \notin GenerateKeys
PROOF
<1> SUFFICES ASSUME NEW key \in GenerateKeys, key = None PROVE FALSE
  OBVIOUS
<1> DEFINE N == 1 .. baseTo[MessageSize]
<1>1. PICK k \in Primes \X Primes \X Primes \X N :
        key = [n |-> k[1] * k[2], e |-> k[3], d |-> k[4]]
  <2> HIDE DEF N
  <2> QED
    BY DEF GenerateKeys, N
<1>2. DOMAIN key = {"n", "e", "d"}
  BY <1>1
<1>3. DOMAIN None = {}
  BY DEF None
<1> QED
  BY <1>2, <1>3

\* A message of the full size is some message.
LEMMA MessageIsSome ==
  ASSUME NEW size \in Nat \ {0}, NEW message \in [1 .. size -> Digit]
  PROVE  message # <<>>
PROOF
<1>1. DOMAIN message = 1 .. size /\ 1 \in 1 .. size
  OBVIOUS
<1>2. DOMAIN <<>> = {}
  OBVIOUS
<1> QED
  BY <1>1, <1>2

\* What a key's numbers are.
LEMMA KeyNumbers ==
  ASSUME NEW key \in GenerateKeys
  PROVE  /\ key.n \in Nat \ {0} /\ key.n < baseTo[MessageSize]
         /\ key.e \in Nat /\ key.e < baseTo[KeySize]
PROOF
<1>1. PICK p \in Primes, q \in Primes : IsKey(key, p, q)
  BY KeysAre
<1>2. key.n = p * q /\ key.e \in Primes
  BY <1>1 DEF IsKey
<1>3. \A r \in Primes : r \in Nat \ {0} /\ r < baseTo[KeySize]
  BY CodecAssumption
<1> DEFINE b == baseTo[KeySize]
<1>4. KeySize \in Nat /\ KeySize + KeySize = MessageSize /\ KeySize \in 0 .. MessageSize
  BY CodecSizes
<1>5. b \in Nat /\ baseTo[MessageSize] = b * b
  <2>1. b \in Nat
    BY <1>4, BaseToTypes
  <2>2. baseTo[KeySize + KeySize] = b * b
    BY <1>4, BaseToSum
  <2> QED
    BY <1>4, <2>1, <2>2
<1>6. p \in Nat \ {0} /\ q \in Nat \ {0} /\ p < b /\ q < b
  BY <1>3
<1> HIDE DEF b
<1>7. p * q \in Nat \ {0} /\ p * q < b * b
  <2>1. p * q < p * b
    BY <1>5, <1>6
  <2>2. p * b <= b * b
    BY <1>5, <1>6
  <2>3. p * q \in Nat \ {0} /\ p * b \in Nat /\ b * b \in Nat
    BY <1>5, <1>6
  <2> QED
    BY <2>1, <2>2, <2>3
<1> QED
  BY <1>2, <1>3, <1>5, <1>7

-----------------------------------------------------------------------------
(* The inductive invariant.                                                *)

\* The message with the client's key.
KeySent(message) ==
  \E n \in Stale(MessageSize), e \in Stale(KeySize) :
    message = Over(n, ExportBits(rsaKey.n)) \o Over(e, ExportBits(rsaKey.e))

\* The message with the session key.
SessionKeySent(message) ==
  \E buffer \in Stale(MessageSize) :
    message = Over(buffer, ExportBits(Encode(rsaPublicKey, ImportBits(sessionKeyDigits))))

\* The session has read the key that was sent.
KeyRead ==
  Fills(rsaKey.n, MessageSize) /\ Fills(rsaKey.e, KeySize)
  => rsaPublicKey.n = rsaKey.n /\ rsaPublicKey.e = rsaKey.e

KeyInv ==
  /\ wire # <<>> \/ rsaPublicKey # None \/ clientDigits # None => rsaKey \in GenerateKeys
  /\ rsaPublicKey = None => clientDigits = None /\ (wire # <<>> => KeySent(wire))
  /\ rsaPublicKey # None => /\ sessionKeyDigits \in Stale(KeySize)
                            /\ KeyRead
                            /\ wire # <<>> => SessionKeySent(wire)
  /\ KeyArrives

LEMMA KeyInitInv == KeyInit => KeyInv
PROOF
<1> SUFFICES ASSUME KeyInit PROVE KeyInv
  OBVIOUS
<1>1. rsaKey = None /\ rsaPublicKey = None /\ wire = <<>> /\ clientDigits = None
  BY DEF KeyInit
<1> QED
  BY <1>1 DEF KeyInv, KeyArrives

LEMMA SendRSAKeyInv == KeyInv /\ SendRSAKey => KeyInv'
PROOF
<1> SUFFICES ASSUME KeyInv, SendRSAKey PROVE KeyInv'
  OBVIOUS
<1>1. /\ rsaKey = None /\ rsaKey' \in GenerateKeys
      /\ \E n \in Stale(MessageSize), e \in Stale(KeySize) :
           wire' = Over(n, ExportBits(rsaKey'.n)) \o Over(e, ExportBits(rsaKey'.e))
      /\ rsaPublicKey' = rsaPublicKey /\ clientDigits' = clientDigits
  BY DEF SendRSAKey
<1>2. rsaPublicKey = None /\ clientDigits = None
  BY <1>1, NoneIsNoKey DEF KeyInv
<1>3. KeySent(wire)'
  BY <1>1 DEF KeySent
<1>4. KeyArrives'
  BY <1>1, <1>2 DEF KeyArrives
<1> QED
  BY <1>1, <1>2, <1>3, <1>4 DEF KeyInv

\* The number at its place in the message, when it fills it.
LEMMA NumberReceived ==
  ASSUME NEW size \in 1 .. MessageSize, NEW buffer \in [1 .. size -> Digit],
         NEW number \in Nat, number < baseTo[size], Fills(number, size)
  PROVE  ImportBits(Over(buffer, ExportBits(number))) = number
PROOF
<1>1. ExportBits(number) \in [1 .. size -> Digit] /\ size \in Nat
  BY ExportFills
<1>2. Over(buffer, ExportBits(number)) = ExportBits(number)
  BY <1>1, OverFull
<1> QED
  BY <1>2, ImportReturns

\* A message whose first k digits are a, and the others b.
HasParts(message, k, a, b) ==
  SubSeq(message, 1, k) = a /\ SubSeq(message, k + 1, Len(message)) = b

\* The two parts of a message.
LEMMA PartsOfMessage ==
  ASSUME NEW k \in Nat, NEW l \in Nat,
         NEW a \in [1 .. k -> Digit], NEW b \in [1 .. l -> Digit]
  PROVE  HasParts(a \o b, k, a, b)
PROOF
<1>1. Len(a) = k /\ Len(b) = l /\ a \in Seq(Digit) /\ b \in Seq(Digit)
  BY LengthIs
<1> DEFINE c == a \o b
<1>2. /\ c \in Seq(Digit) /\ Len(c) = k + l
      /\ \A i \in 1 .. k + l : c[i] = IF i <= k THEN a[i] ELSE b[i - k]
  BY <1>1, ConcatProperties
<1> HIDE DEF c
<1>3. SubSeq(c, 1, k) = [i \in 1 .. k |-> a[i]]
  <2>1. SubSeq(c, 1, k) = [i \in 1 .. k |-> c[i]]
    BY <1>2
  <2>2. \A i \in 1 .. k : c[i] = a[i]
    BY <1>2
  <2> QED
    BY <2>1, <2>2
<1>4. SubSeq(c, k + 1, k + l) = [i \in 1 .. l |-> b[i]]
  <2>1. SubSeq(c, k + 1, k + l) = [i \in 1 .. l |-> c[i + k]]
    BY <1>2
  <2>2. \A i \in 1 .. l : c[i + k] = b[i]
    BY <1>2
  <2> QED
    BY <2>1, <2>2
<1>5. a = [i \in 1 .. k |-> a[i]] /\ b = [i \in 1 .. l |-> b[i]]
  OBVIOUS
<1> QED
  BY <1>2, <1>3, <1>4, <1>5 DEF c, HasParts

LEMMA ReadRSAKeyInv == KeyInv /\ ReadRSAKey => KeyInv'
PROOF
<1> SUFFICES ASSUME KeyInv, ReadRSAKey PROVE KeyInv'
  OBVIOUS
<1>1. /\ rsaPublicKey = None /\ wire # <<>> /\ wire' = <<>>
      /\ sessionKeyDigits' \in Stale(KeySize)
      /\ rsaPublicKey' = [n |-> ImportBits(SubSeq(wire, 1, MessageSize)),
                          e |-> ImportBits(SubSeq(wire, MessageSize + 1, Len(wire)))]
      /\ rsaKey' = rsaKey /\ clientDigits' = clientDigits
  BY DEF ReadRSAKey
<1>2. rsaKey \in GenerateKeys /\ clientDigits = None /\ KeySent(wire)
  BY <1>1 DEF KeyInv
<1>3. PICK n \in Stale(MessageSize), e \in Stale(KeySize) :
        wire = Over(n, ExportBits(rsaKey.n)) \o Over(e, ExportBits(rsaKey.e))
  BY <1>2 DEF KeySent
<1>4. /\ n \in [1 .. MessageSize -> Digit] /\ e \in [1 .. KeySize -> Digit]
      /\ KeySize \in 1 .. MessageSize /\ MessageSize \in 1 .. MessageSize
      /\ KeySize \in Nat /\ MessageSize \in Nat
  BY CodecSizes DEF Stale
<1>5. KeyRead'
  <2> SUFFICES ASSUME Fills(rsaKey.n, MessageSize), Fills(rsaKey.e, KeySize)
               PROVE  rsaPublicKey'.n = rsaKey.n /\ rsaPublicKey'.e = rsaKey.e
    BY <1>1 DEF KeyRead
  <2> DEFINE a == Over(n, ExportBits(rsaKey.n))
             b == Over(e, ExportBits(rsaKey.e))
             keyN == rsaKey.n
             keyE == rsaKey.e
  <2>1. keyN \in Nat /\ keyN < baseTo[MessageSize] /\ keyE \in Nat /\ keyE < baseTo[KeySize]
    BY <1>2, KeyNumbers
  <2>2. Fills(keyN, MessageSize) /\ Fills(keyE, KeySize)
    OBVIOUS
  <2>3. wire = a \o b
    BY <1>3
  <2>4. a = Over(n, ExportBits(keyN)) /\ b = Over(e, ExportBits(keyE))
    OBVIOUS
  <2> HIDE DEF keyN, keyE, a, b
  <2>5. ExportBits(keyN) \in [1 .. MessageSize -> Digit]
    BY <1>4, <2>1, <2>2, ExportFills
  <2>6. ExportBits(keyE) \in [1 .. KeySize -> Digit]
    BY <1>4, <2>1, <2>2, ExportFills
  <2>7. a \in [1 .. MessageSize -> Digit] /\ b \in [1 .. KeySize -> Digit]
    BY <1>4, <2>4, <2>5, <2>6, OverFull
  <2>8. SubSeq(wire, 1, MessageSize) = a /\ SubSeq(wire, MessageSize + 1, Len(wire)) = b
    <3>1. MessageSize \in Nat /\ KeySize \in Nat
      BY <1>4
    <3>2. HasParts(a \o b, MessageSize, a, b)
      BY <2>7, <3>1, PartsOfMessage
    <3> QED
      BY <2>3, <3>2 DEF HasParts
  <2>9. ImportBits(a) = keyN
    BY <1>4, <2>1, <2>2, <2>4, NumberReceived
  <2>10. ImportBits(b) = keyE
    BY <1>4, <2>1, <2>2, <2>4, NumberReceived
  <2>11. rsaPublicKey'.n = ImportBits(a) /\ rsaPublicKey'.e = ImportBits(b)
    BY <1>1, <2>8
  <2> QED
    BY <2>9, <2>10, <2>11 DEF keyN, keyE
<1>6. KeyArrives'
  BY <1>1, <1>2 DEF KeyArrives
<1> QED
  BY <1>1, <1>2, <1>5, <1>6 DEF KeyInv

LEMMA WriteSessionKeyInv == KeyInv /\ WriteSessionKey => KeyInv'
PROOF
<1> SUFFICES ASSUME KeyInv, WriteSessionKey PROVE KeyInv'
  OBVIOUS
<1>1. PICK generated \in 0 .. baseTo[KeySize] - 1, buffer \in Stale(MessageSize) :
        LET digits == Over(sessionKeyDigits, ExportBits(generated)) IN
        /\ sessionKeyDigits' = digits
        /\ wire' = Over(buffer, ExportBits(Encode(rsaPublicKey, ImportBits(digits))))
  BY DEF WriteSessionKey
<1>2. /\ rsaPublicKey # None /\ wire = <<>>
      /\ rsaKey' = rsaKey /\ rsaPublicKey' = rsaPublicKey /\ clientDigits' = clientDigits
  BY DEF WriteSessionKey
<1>3. rsaKey \in GenerateKeys /\ sessionKeyDigits \in Stale(KeySize) /\ KeyRead
  BY <1>2 DEF KeyInv
<1>4. /\ sessionKeyDigits \in [1 .. KeySize -> Digit] /\ KeySize \in Nat
      /\ buffer \in [1 .. MessageSize -> Digit] /\ MessageSize \in Nat \ {0}
      /\ KeySize \in 0 .. MessageSize /\ MessageSize \in 0 .. MessageSize
  BY <1>3, CodecSizes DEF Stale
<1>5. generated \in Nat /\ generated < baseTo[MessageSize]
  <2>1. baseTo[KeySize] <= baseTo[MessageSize]
    BY <1>4, BaseToGrows
  <2>2. baseTo[KeySize] \in Nat /\ baseTo[MessageSize] \in Nat
    BY <1>4, BaseToTypes
  <2> QED
    BY <2>1, <2>2
<1>6. sessionKeyDigits' \in Stale(KeySize)
  <2>1. PICK size \in 1 .. MessageSize : ExportBits(generated) \in [1 .. size -> Digit]
    BY <1>5, ExportIs
  <2>2. size \in Nat
    BY <1>4
  <2>3. Over(sessionKeyDigits, ExportBits(generated)) \in [1 .. KeySize -> Digit]
    BY <1>4, <2>1, <2>2, OverTypes
  <2> QED
    BY <1>1, <2>3 DEF Stale
<1>7. SessionKeySent(wire)'
  BY <1>1, <1>2 DEF SessionKeySent
<1>8. KeyRead'
  BY <1>2, <1>3 DEF KeyRead
<1>9. wire' # <<>>
  <2>1. DOMAIN wire' = 1 .. MessageSize
    BY <1>1, <1>4 DEF Over
  <2>2. 1 \in 1 .. MessageSize /\ DOMAIN <<>> = {}
    BY <1>4
  <2> QED
    BY <2>1, <2>2
<1>10. KeyArrives'
  BY <1>9 DEF KeyArrives
<1> QED
  BY <1>2, <1>3, <1>6, <1>7, <1>8, <1>10 DEF KeyInv

LEMMA ReadSessionKeyInv == KeyInv /\ ReadSessionKey => KeyInv'
PROOF
<1> SUFFICES ASSUME KeyInv, ReadSessionKey PROVE KeyInv'
  OBVIOUS
<1> DEFINE cleared == [i \in 1 .. MessageSize |-> 0]
           received == Decode(rsaKey, ImportBits(wire))
           digits == Over(cleared, ExportBits(received))
           key == ImportBits(sessionKeyDigits)
<1>1. /\ rsaPublicKey # None /\ wire # <<>> /\ wire' = <<>>
      /\ clientDigits' = SubSeq(digits, 1, KeySize)
      /\ downcast' = (\A i \in KeySize + 1 .. MessageSize : digits[i] = 0)
      /\ rsaKey' = rsaKey /\ rsaPublicKey' = rsaPublicKey
      /\ sessionKeyDigits' = sessionKeyDigits
  BY DEF ReadSessionKey
<1>2. /\ rsaKey \in GenerateKeys /\ sessionKeyDigits \in Stale(KeySize) /\ KeyRead
      /\ SessionKeySent(wire)
  BY <1>1 DEF KeyInv
<1>3. /\ sessionKeyDigits \in [1 .. KeySize -> Digit]
      /\ KeySize \in 1 .. MessageSize /\ MessageSize \in 1 .. MessageSize
      /\ KeySize \in Nat /\ MessageSize \in Nat /\ KeySize \in 0 .. MessageSize
      /\ MessageSize = KeySize + KeySize
  BY <1>2, CodecSizes DEF Stale
<1> HIDE DEF cleared, received, digits, key
<1>4. KeyArrives'
  <2> SUFFICES ASSUME Fills(rsaKey.n, MessageSize), Fills(rsaKey.e, KeySize),
                      Fills(key, KeySize), Fills(Encode(rsaKey, key), MessageSize)
               PROVE  clientDigits' = sessionKeyDigits /\ downcast'
    <3> DEFINE keyNext == ImportBits(sessionKeyDigits')
    <3>1. keyNext = key
      BY <1>1 DEF key
    <3>2. KeyArrives' =
            (/\ wire' = <<>> /\ clientDigits' # None
             /\ Fills(rsaKey.n, MessageSize) /\ Fills(rsaKey.e, KeySize)
             /\ Fills(key, KeySize) /\ Fills(Encode(rsaKey, key), MessageSize)
             => clientDigits' = sessionKeyDigits /\ downcast')
      BY <1>1, <3>1 DEF KeyArrives, Encode, Fills, key
    <3> QED
      BY <3>2
  <2> DEFINE sent == Encode(rsaKey, key)
             n == rsaKey.n
  <2>1. rsaPublicKey.n = rsaKey.n /\ rsaPublicKey.e = rsaKey.e
    BY <1>2 DEF KeyRead
  <2>2. Encode(rsaPublicKey, key) = sent
    BY <2>1 DEF Encode
  <2>3. n \in Nat \ {0} /\ n < baseTo[MessageSize] /\ rsaKey.e \in Nat
    BY <1>2, KeyNumbers
  <2>4. key \in Nat /\ key < baseTo[KeySize]
    BY <1>3, ImportBound DEF key
  <2>5. sent \in 0 .. n - 1
    BY <2>3, <2>4, PowerStep DEF Encode
  <2>6. Fills(n, MessageSize) /\ Fills(sent, MessageSize)
    OBVIOUS
  <2>7. Decode(rsaKey, sent) = key
    <3>1. key < n
      <4>1. n >= baseTo[MessageSize - 1]
        BY <2>6 DEF Fills
      <4>2. MessageSize - 1 \in 0 .. MessageSize /\ KeySize <= MessageSize - 1
        BY <1>3, CodecSizes
      <4>3. baseTo[KeySize] <= baseTo[MessageSize - 1]
        BY <1>3, <4>2, BaseToGrows
      <4>4. baseTo[KeySize] \in Nat /\ baseTo[MessageSize - 1] \in Nat
        BY <1>3, <4>2, BaseToTypes
      <4> QED
        BY <2>3, <2>4, <4>1, <4>3, <4>4
    <3> QED
      BY <1>2, <2>4, <3>1, DecodeReturns
  <2> HIDE DEF sent, n
  <2>8. sent \in Nat /\ sent < baseTo[MessageSize]
    <3>1. baseTo[MessageSize] \in Nat
      BY <1>3, BaseToTypes, CodecSizes
    <3> QED
      BY <2>3, <2>5, <3>1
  <2>9. ImportBits(wire) = sent
    <3>1. PICK buffer \in Stale(MessageSize) : wire = Over(buffer, ExportBits(sent))
      BY <1>2, <2>2 DEF SessionKeySent, key
    <3>2. buffer \in [1 .. MessageSize -> Digit]
      BY DEF Stale
    <3> QED
      BY <1>3, <2>6, <2>8, <3>1, <3>2, NumberReceived
  <2>10. received = key
    BY <2>7, <2>9 DEF received
  <2>11. ExportBits(received) = sessionKeyDigits
    BY <1>3, <2>10, ExportReturns DEF key
  <2>12. digits = [i \in 1 .. MessageSize |-> IF i <= KeySize THEN sessionKeyDigits[i] ELSE 0]
    <3>1. Len(sessionKeyDigits) = KeySize
      BY <1>3, LengthIs
    <3>2. digits = [i \in DOMAIN cleared |-> IF i <= Len(sessionKeyDigits) THEN sessionKeyDigits[i] ELSE cleared[i]]
      BY <2>11 DEF digits, Over
    <3>3. DOMAIN cleared = 1 .. MessageSize /\ \A i \in 1 .. MessageSize : cleared[i] = 0
      BY DEF cleared
    <3> QED
      BY <3>1, <3>2, <3>3
  <2>13. downcast'
    <3>1. \A i \in KeySize + 1 .. MessageSize : i \in 1 .. MessageSize /\ ~ (i <= KeySize)
      BY <1>3
    <3>2. \A i \in KeySize + 1 .. MessageSize : digits[i] = 0
      BY <2>12, <3>1
    <3> QED
      BY <1>1, <3>2
  <2>14. clientDigits' = sessionKeyDigits
    <3>1. SubSeq(digits, 1, KeySize) = [i \in 1 .. KeySize |-> digits[i]]
      <4>1. \A i \in 1 .. MessageSize :
              (IF i <= KeySize THEN sessionKeyDigits[i] ELSE 0) \in Digit
        <5>1. 0 \in Digit
          BY CodecSizes DEF Digit
        <5>2. \A i \in 1 .. MessageSize : i <= KeySize => i \in 1 .. KeySize
          BY <1>3
        <5> QED
          BY <1>3, <5>1, <5>2
      <4>2. digits \in [1 .. MessageSize -> Digit]
        BY <2>12, <4>1
      <4>3. digits \in Seq(Digit) /\ Len(digits) = MessageSize
        BY <1>3, <4>2, LengthIs
      <4> QED
        BY <1>3, <4>3
    <3>2. \A i \in 1 .. KeySize : digits[i] = sessionKeyDigits[i]
      BY <1>3, <2>12
    <3>3. sessionKeyDigits = [i \in 1 .. KeySize |-> sessionKeyDigits[i]]
      BY <1>3
    <3> QED
      BY <1>1, <3>1, <3>2, <3>3
  <2> QED
    BY <2>13, <2>14
<1>5. KeyRead'
  BY <1>1, <1>2 DEF KeyRead
<1> QED
  BY <1>1, <1>2, <1>4, <1>5 DEF KeyInv

LEMMA KeyNextInv == KeyInv /\ [KeyNext]_keyVars => KeyInv'
PROOF
<1> SUFFICES ASSUME KeyInv, [KeyNext]_keyVars PROVE KeyInv'
  OBVIOUS
<1>1. CASE SendRSAKey
  BY <1>1, SendRSAKeyInv
<1>2. CASE ReadRSAKey
  BY <1>2, ReadRSAKeyInv
<1>3. CASE WriteSessionKey
  BY <1>3, WriteSessionKeyInv
<1>4. CASE ReadSessionKey
  BY <1>4, ReadSessionKeyInv
<1>5. CASE UNCHANGED keyVars
  BY <1>5 DEF keyVars, KeyInv, KeyArrives, KeySent, SessionKeySent, KeyRead
<1> QED
  BY <1>1, <1>2, <1>3, <1>4, <1>5 DEF KeyNext

\* Whatever was in the buffers, and whatever the primes, the key a client has
\* read is the session's and the dummy client takes it, unless one of the four
\* numbers that were sent begins with a zero.
THEOREM KeyReachesClient == KeySpec => []KeyArrives
PROOF
<1>1. KeyInv => KeyArrives
  BY DEF KeyInv
<1> QED
  BY <1>1, KeyInitInv, KeyNextInv, PTL DEF KeySpec
===============================================================================
