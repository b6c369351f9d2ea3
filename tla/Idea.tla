--------------------------------- MODULE Idea ---------------------------------
(***************************************************************************)
(* The cipher of Lab2 and its chaining (Lab2/Shared/Idea.cpp, Idea.hpp)    *)
(* with words of WordBits bits in the place of 16: a key has eight words, a*)
(* block four, and 2^WordBits + 1 is a prime as 65537 is. The rounds, the  *)
(* 52 subkeys and the order in which decrypt takes them are the code's.    *)
(*                                                                         *)
(* A chain of blocks is encoded, and what came out is decoded again.       *)
(***************************************************************************)
EXTENDS Integers, Sequences

CONSTANTS
  WordBits,  \* the width of uint16_t
  KeyShift,  \* 9: how far a subkey is shifted to the left
  IdeaKeys,  \* bound of the model: the keys
  Chains     \* bound of the model: sequences of an initial block and others

twoTo[n \in 0 .. WordBits] == IF n = 0 THEN 1 ELSE 2 * twoTo[n - 1]

Words == twoTo[WordBits]
Modulus == Words + 1
WordSet == 0 .. Words - 1

ASSUME WidthAssumption ==
  /\ WordBits \in Nat /\ KeyShift \in 1 .. WordBits - 1
  /\ \A d \in 2 .. Words : Modulus % d # 0

ASSUME InputAssumption ==
  /\ IdeaKeys \subseteq [1 .. 8 -> WordSet]
  /\ \A c \in Chains : c # <<>> /\ c \in Seq([1 .. 4 -> WordSet])

\* Wrapped to a word, as an assignment to uint16_t is.
Word(n) == n % Words

\* The exclusive or of the lowest n bits of two words.
xor[n \in 0 .. WordBits] ==
  [a \in WordSet |-> [b \in WordSet |->
     IF n = 0 THEN 0 ELSE 2 * xor[n - 1][a \div 2][b \div 2] + ((a + b) % 2)]]

XorTable == xor[WordBits]
XorWords(a, b) == XorTable[a][b]
XorBlocks(a, b) == [i \in DOMAIN a |-> XorWords(a[i], b[i])]

\* The product modulo Modulus, with 0 for Modulus - 1.
MulMod65537(a, b) ==
  LET c == a * b
      hi == c \div Words
      lo == c % Words
  IN  IF a = 0 THEN Word(1 - b)
      ELSE IF b = 0 THEN Word(1 - a)
      ELSE IF lo > hi THEN lo - hi ELSE Word(lo - hi + 1)

\* A turn of the loop of modInverse: the remainders and the coefficients of a.
\* C++ divides towards zero, and nothing is negative but the coefficients.
Turn(s) ==
  IF s.a > 1 THEN [a |-> s.m, m |-> s.a % s.m, x0 |-> s.x1 - (s.a \div s.m) * s.x0, x1 |-> s.x0]
             ELSE s

\* The variables of the loop after each turn. The remainder m gets smaller in
\* each, so that there are no more than Modulus.
Euclid(a) ==
  LET loop[i \in 0 .. Modulus] ==
        IF i = 0 THEN [a |-> a, m |-> Modulus, x0 |-> 0, x1 |-> 1] ELSE Turn(loop[i - 1])
  IN  loop

\* It is 1 for 0, which stands for Modulus - 1 and should be its own inverse.
ModInverse(a) ==
  LET x1 == Euclid(a)[Modulus].x1 IN Word(IF x1 < 0 THEN x1 + Modulus ELSE x1)

-----------------------------------------------------------------------------
(* The subkeys. *)

Shifted(high, low) ==
  Word(high * twoTo[KeyShift]) + (low \div twoTo[WordBits - KeyShift])

EncryptSubKeys(key) ==
  LET subKey[i \in 0 .. 51] ==
        CASE i < 8      -> key[i + 1]
          [] i >= 8 /\ i % 8 = 6 -> Shifted(subKey[i - 7], subKey[i - 14])
          [] i >= 8 /\ i % 8 = 7 -> Shifted(subKey[i - 15], subKey[i - 14])
          [] OTHER      -> Shifted(subKey[i - 7], subKey[i - 6])
  IN  subKey

\* Mutant: the half round is swapped too.
DecryptSubKeysSwapped(key) ==
  LET K == EncryptSubKeys(key)
      Four(i) ==
        LET at == 48 - i
            swap == i # 0
        IN  <<ModInverse(K[at]),
              Word(-K[IF swap THEN at + 2 ELSE at + 1]),
              Word(-K[IF swap THEN at + 1 ELSE at + 2]),
              ModInverse(K[at + 3])>>
  IN  [i \in 0 .. 51 |->
         LET round == i \div 6
             part == i % 6
         IN  IF part < 4 THEN Four(6 * round)[part + 1]
                         ELSE K[46 - 6 * round + part - 4]]

\* The subkeys of a round of decryption and the half round, which begin at
\* subkey i and are those of encryption from the other end: the middle two are
\* swapped as the blocks are, except in the first and in the half round.
DecryptSubKeys(key) ==
  LET K == EncryptSubKeys(key)
      Four(i) ==
        LET at == 48 - i
            swap == i \notin {0, 48}
        IN  <<ModInverse(K[at]),
              Word(-K[IF swap THEN at + 2 ELSE at + 1]),
              Word(-K[IF swap THEN at + 1 ELSE at + 2]),
              ModInverse(K[at + 3])>>
  IN  [i \in 0 .. 51 |->
         LET round == i \div 6
             part == i % 6
         IN  IF part < 4 THEN Four(6 * round)[part + 1]
                         ELSE K[46 - 6 * round + part - 4]]

-----------------------------------------------------------------------------
(* IDEA: eight rounds and a half. *)

\* Steps 1 to 10 and the swap of X1 and X2, which are the words 2 and 3.
Round(X, sub, at) ==
  LET x0 == MulMod65537(X[1], sub[at])
      x1 == Word(X[2] + sub[at + 1])
      x2 == Word(X[3] + sub[at + 2])
      x3 == MulMod65537(X[4], sub[at + 3])
      step7 == MulMod65537(XorWords(x0, x2), sub[at + 4])
      tmp2 == MulMod65537(Word(XorWords(x1, x3) + step7), sub[at + 5])
      tmp1 == Word(step7 + tmp2)
  IN  <<XorWords(x0, tmp2), XorWords(x2, tmp2), XorWords(x1, tmp1), XorWords(x3, tmp1)>>

IDEA(data, sub) ==
  LET X[i \in 0 .. 8] == IF i = 0 THEN data ELSE Round(X[i - 1], sub, 6 * (i - 1))
      last == X[8]
  IN  <<MulMod65537(last[1], sub[48]), Word(last[3] + sub[49]),
        Word(last[2] + sub[50]), MulMod65537(last[4], sub[51])>>

EncodeBlock(block, key) == IDEA(block, EncryptSubKeys(key))
DecodeBlock(block, key) == IDEA(block, DecryptSubKeys(key))

-----------------------------------------------------------------------------
(* The chain. *)

VARIABLES
  ideaKey, chain,   \* the key, and the initial block with the blocks after it
  chainState,       \* the variable state of EncodeCBC and DecodeCBC
  encoded, decoded  \* what they have given to their consumers

ideaVars == <<ideaKey, chain, chainState, encoded, decoded>>

IdeaInit ==
  /\ ideaKey = <<>> /\ chain = <<>> /\ chainState = <<>>
  /\ encoded = <<>> /\ decoded = <<>>

Blocks == IF chain = <<>> THEN <<>> ELSE Tail(chain)

\* EncodeCBC is called.
StartChain ==
  /\ chain = <<>>
  /\ ideaKey' \in IdeaKeys /\ chain' \in Chains
  /\ chainState' = Head(chain')
  /\ UNCHANGED <<encoded, decoded>>

\* A block of EncodeCBC. After the last one DecodeCBC starts at the initial block.
EncodeCBC ==
  /\ Len(encoded) < Len(Blocks)
  /\ LET working == EncodeBlock(XorBlocks(Blocks[Len(encoded) + 1], chainState), ideaKey)
     IN  /\ encoded' = Append(encoded, working)
         /\ chainState' = IF Len(encoded) + 1 = Len(Blocks) THEN Head(chain) ELSE working
  /\ UNCHANGED <<ideaKey, chain, decoded>>

DecodeCBC ==
  /\ Len(encoded) = Len(Blocks) /\ Len(decoded) < Len(Blocks)
  /\ LET working == encoded[Len(decoded) + 1]
     IN  /\ decoded' = Append(decoded, XorBlocks(DecodeBlock(working, ideaKey), chainState))
         /\ chainState' = working
  /\ UNCHANGED <<ideaKey, chain, encoded>>

IdeaNext == StartChain \/ EncodeCBC \/ DecodeCBC

IdeaSpec == IdeaInit /\ [][IdeaNext]_ideaVars

-----------------------------------------------------------------------------
(* Properties. *)

\* The subkeys that decryption inverts.
Inverted == {i \in 0 .. 51 : i % 6 \in {0, 3}}

\* What is decoded is what was encoded, for every key that has no zero among
\* the subkeys that decryption inverts; with one it may not be (Idea.cpp:35).
DecodingUndoesEncoding ==
  chain # <<>> /\ (\A i \in Inverted : EncryptSubKeys(ideaKey)[i] # 0) =>
    decoded = SubSeq(Blocks, 1, Len(decoded))

\* TestShared/Idea.cpp:17 and :93 of any key and any blocks.
BlocksRoundTrip == decoded = SubSeq(Blocks, 1, Len(decoded))
===============================================================================
