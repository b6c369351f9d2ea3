---------------------------- MODULE Vigenere_proof ----------------------------
(***************************************************************************)
(* Proofs about the three programs of Lab1, for every alphabet, every text,*)
(* every key file and every length of the repeated substrings: the encoder *)
(* and the decoder, then the search of the cracker, the length it predicts *)
(* and the key it finds.                                                   *)
(***************************************************************************)
EXTENDS Kasiski, NaturalRecursion

IsLetter(symbol) == IsVigenereSupportedSymbol(symbol)

-----------------------------------------------------------------------------
(* Remainders.                                                             *)

\* A number is a multiple and its remainder, and no other of those below the
\* divisor.
LEMMA Remainder ==
  ASSUME NEW d \in Nat \ {0}, NEW q \in Nat, NEW r \in 0 .. d - 1
  PROVE  (d * q + r) % d = r
OBVIOUS

\* An index that is stepped on around a key is the remainder of the number of
\* the steps.
LEMMA NextRemainder ==
  ASSUME NEW d \in Nat \ {0}, NEW n \in Nat
  PROVE  ((n % d) + 1) % d = (n + 1) % d
PROOF
<1> DEFINE q == n \div d
           r == n % d
<1>1. q \in Nat /\ r \in 0 .. d - 1 /\ n = (d * q) + r
  OBVIOUS
<1> HIDE DEF q, r
<1>2. CASE r + 1 < d
  <2>1. n + 1 = (d * q) + (r + 1) /\ r + 1 \in 0 .. d - 1
    BY <1>1, <1>2
  <2>2. (n + 1) % d = r + 1
    BY <1>1, <2>1, Remainder
  <2>3. r + 1 = (d * 0) + (r + 1)
    BY <1>1
  <2>4. (r + 1) % d = r + 1
    BY <2>1, <2>3, Remainder
  <2> QED
    BY <2>2, <2>4 DEF r
<1>3. CASE r + 1 = d
  <2>1. n + 1 = (d * (q + 1)) + 0 /\ q + 1 \in Nat /\ 0 \in 0 .. d - 1
    BY <1>1, <1>3
  <2>2. (n + 1) % d = 0
    BY <2>1, Remainder
  <2>3. r + 1 = (d * 1) + 0
    BY <1>1, <1>3
  <2>4. (r + 1) % d = 0
    BY <2>1, <2>3, Remainder
  <2> QED
    BY <2>2, <2>4 DEF r
<1> QED
  BY <1>1, <1>2, <1>3

\* A letter stays a letter of the alphabet when it is shifted, and is what it
\* was when it is shifted back.
LEMMA ShiftedBack ==
  ASSUME NEW symbol \in Letter, NEW shift \in Code
  PROVE  /\ EncodeSymbol(symbol, shift) \in Letter
         /\ DecodeSymbol(EncodeSymbol(symbol, shift), shift) = symbol
PROOF
<1> DEFINE A == AlphabetSize
           sum == symbol.code + shift
           code == sum % A
<1>1. A \in Nat \ {0} /\ symbol.code \in 0 .. A - 1 /\ shift \in 0 .. A - 1
  BY AlphabetAssumption DEF Letter, Code
<1>2. symbol = [case |-> symbol.case, code |-> symbol.code]
      /\ symbol.case \in {"lower", "upper"}
  BY DEF Letter
<1>3. EncodeSymbol(symbol, shift) = [case |-> symbol.case, code |-> code]
  BY <1>2 DEF EncodeSymbol
<1>4. \/ sum < A /\ code = sum
      \/ ~ (sum < A) /\ code = sum - A
  <2> HIDE DEF A
  <2>1. CASE sum < A
    <3>1. sum = (A * 0) + sum /\ sum \in 0 .. A - 1
      BY <1>1, <2>1
    <3> HIDE DEF sum
    <3>2. sum % A = sum
      BY <1>1, <3>1, Remainder
    <3> QED
      BY <2>1, <3>2
  <2>2. CASE ~ (sum < A)
    <3>1. sum = (A * 1) + (sum - A) /\ sum - A \in 0 .. A - 1
      BY <1>1, <2>2
    <3> HIDE DEF sum
    <3>2. sum % A = sum - A
      BY <1>1, <3>1, Remainder
    <3> QED
      BY <2>2, <3>2
  <2> QED
    BY <2>1, <2>2
<1>5. code \in 0 .. A - 1
  <2> HIDE DEF A, code
  <2> QED
    BY <1>1, <1>4
<1>6. EncodeSymbol(symbol, shift) \in Letter
  BY <1>2, <1>3, <1>5 DEF Letter, Code
<1> DEFINE back == code - shift
<1>7. (IF back < 0 THEN (A + back) % A ELSE back % A) = symbol.code
  <2>1. CASE back < 0
    <3>1. A + back = (A * 0) + symbol.code
      <4> HIDE DEF A, code
      <4> QED
        BY <1>1, <1>4, <2>1
    <3>2. (A + back) % A = symbol.code
      <4> HIDE DEF A, back
      <4> QED
        BY <1>1, <3>1, Remainder
    <3> QED
      BY <2>1, <3>2
  <2>2. CASE ~ (back < 0)
    <3>1. back = (A * 0) + symbol.code
      <4> HIDE DEF A, code
      <4> QED
        BY <1>1, <1>4, <2>2
    <3>2. back % A = symbol.code
      <4> HIDE DEF A, back
      <4> QED
        BY <1>1, <3>1, Remainder
    <3> QED
      BY <2>2, <3>2
  <2> QED
    BY <2>1, <2>2
<1>8. DecodeSymbol([case |-> symbol.case, code |-> code], shift) =
        [case |-> symbol.case,
         code |-> IF back < 0 THEN (A + back) % A ELSE back % A]
  <2> HIDE DEF code
  <2> QED
    BY DEF DecodeSymbol
<1> QED
  <2> HIDE DEF A, back, code
  <2> QED
    BY <1>2, <1>3, <1>6, <1>7, <1>8

-----------------------------------------------------------------------------
(* The letters of a file, and the key that is read from it.                *)

LettersUpTo(file, n) == Letters(SubSeq(file, 1, n))
OneIf(condition) == IF condition THEN 1 ELSE 0

\* The places of letters among the first n symbols.
LEMMA LetterPlacesUpTo ==
  ASSUME NEW S, NEW file \in Seq(S), NEW n \in 0 .. Len(file)
  PROVE  /\ LettersUpTo(file, n) =
              Cardinality({i \in 1 .. n : IsLetter(file[i])})
         /\ IsFiniteSet({i \in 1 .. n : IsLetter(file[i])})
         /\ LettersUpTo(file, n) \in Nat
PROOF
<1> DEFINE part == SubSeq(file, 1, n)
           places == {i \in 1 .. n : IsLetter(file[i])}
<1>1. DOMAIN part = 1 .. n /\ \A i \in 1 .. n : part[i] = file[i]
  OBVIOUS
<1>2. {i \in DOMAIN part : IsVigenereSupportedSymbol(part[i])} = places
  BY <1>1 DEF IsLetter
<1>3. LettersUpTo(file, n) = Cardinality(places)
  BY <1>2 DEF LettersUpTo, Letters, Quantify
<1>4. IsFiniteSet(places)
  <2>1. IsFiniteSet(1 .. n) /\ places \subseteq 1 .. n
    BY FS_Interval
  <2> QED
    BY <2>1, FS_Subset
<1>5. Cardinality(places) \in Nat
  BY <1>4, FS_CardinalityType
<1> QED
  BY <1>3, <1>4, <1>5

\* With each symbol they are one more, or as many.
LEMMA LettersCount ==
  ASSUME NEW S, NEW file \in Seq(S)
  PROVE  /\ LettersUpTo(file, 0) = 0
         /\ \A n \in 0 .. Len(file) : LettersUpTo(file, n) \in Nat
         /\ \A n \in 0 .. Len(file) - 1 :
              LettersUpTo(file, n + 1) =
                LettersUpTo(file, n) + OneIf(IsLetter(file[n + 1]))
PROOF
<1>1. Len(file) \in Nat
  OBVIOUS
<1>2. LettersUpTo(file, 0) = 0
  <2>1. {i \in 1 .. 0 : IsLetter(file[i])} = {}
    OBVIOUS
  <2>2. 0 \in 0 .. Len(file)
    BY <1>1
  <2>3. LettersUpTo(file, 0) = Cardinality({i \in 1 .. 0 : IsLetter(file[i])})
    BY <2>2, LetterPlacesUpTo
  <2> QED
    BY <2>1, <2>3, FS_EmptySet
<1>3. ASSUME NEW n \in 0 .. Len(file) - 1
      PROVE  LettersUpTo(file, n + 1) =
               LettersUpTo(file, n) + OneIf(IsLetter(file[n + 1]))
  <2> DEFINE before == {i \in 1 .. n : IsLetter(file[i])}
             after == {i \in 1 .. n + 1 : IsLetter(file[i])}
  <2>1. n \in 0 .. Len(file) /\ n + 1 \in 0 .. Len(file) /\ n \in Nat
    BY <1>1
  <2>2. /\ LettersUpTo(file, n) = Cardinality(before)
        /\ IsFiniteSet(before) /\ LettersUpTo(file, n) \in Nat
    BY <2>1, LetterPlacesUpTo
  <2>3. LettersUpTo(file, n + 1) = Cardinality(after)
    BY <2>1, LetterPlacesUpTo
  <2>4. CASE IsLetter(file[n + 1])
    <3>1. after = before \cup {n + 1} /\ n + 1 \notin before
      BY <2>1, <2>4
    <3>2. Cardinality(after) = Cardinality(before) + 1
      BY <2>2, <3>1, FS_AddElement
    <3> HIDE DEF before, after
    <3> QED
      BY <2>2, <2>3, <2>4, <3>2 DEF OneIf
  <2>5. CASE ~ IsLetter(file[n + 1])
    <3>1. after = before
      BY <2>1, <2>5
    <3> HIDE DEF before, after
    <3> QED
      BY <2>2, <2>3, <2>5, <3>1 DEF OneIf
  <2> QED
    BY <2>4, <2>5
<1>4. \A n \in 0 .. Len(file) : LettersUpTo(file, n) \in Nat
  BY LetterPlacesUpTo
<1> QED
  BY <1>2, <1>3, <1>4

\* All of them are those up to its end.
LEMMA LettersOfAll ==
  ASSUME NEW S, NEW file \in Seq(S)
  PROVE  /\ Letters(file) = LettersUpTo(file, Len(file))
         /\ Letters(file) \in Nat
PROOF
<1>1. SubSeq(file, 1, Len(file)) = file /\ Len(file) \in 0 .. Len(file)
  OBVIOUS
<1> QED
  BY <1>1, LetterPlacesUpTo DEF LettersUpTo

\* A file with a letter has one to count.
LEMMA LettersThere ==
  ASSUME NEW S, NEW file \in Seq(S), NEW i \in 1 .. Len(file),
         IsLetter(file[i])
  PROVE  Letters(file) > 0
PROOF
<1> DEFINE places == {j \in 1 .. Len(file) : IsLetter(file[j])}
<1>1. Len(file) \in 0 .. Len(file)
  OBVIOUS
<1>2. Letters(file) = Cardinality(places) /\ IsFiniteSet(places)
  BY <1>1, LetterPlacesUpTo, LettersOfAll
<1>3. places # {}
  OBVIOUS
<1>4. Cardinality(places) \in Nat /\ Cardinality(places) # 0
  BY <1>2, <1>3, FS_EmptySet, FS_CardinalityType
<1> QED
  BY <1>2, <1>4

\* One symbol of a key file.
KeyStep(symbol, before) ==
  IF IsVigenereSupportedSymbol(symbol) THEN Append(before, symbol.code)
                                       ELSE before

\* The key grows with the letters of the file.
LEMMA KeyEquations ==
  ASSUME NEW S, NEW file \in Seq(S)
  PROVE  /\ KeyAfter(file)[0] = <<>>
         /\ \A n \in 1 .. Len(file) :
              KeyAfter(file)[n] = KeyStep(file[n], KeyAfter(file)[n - 1])
PROOF
<1> DEFINE last == Len(file)
           Codes == {file[i].code : i \in 1 .. last}
           Body(f) == [n \in 0 .. last |->
                         IF n = 0 THEN <<>>
                         ELSE IF IsVigenereSupportedSymbol(file[n])
                           THEN Append(f[n - 1], file[n].code)
                           ELSE f[n - 1]]
           turn == [n \in 1 .. last |->
                      [before \in Seq(Codes) |-> KeyStep(file[n], before)]]
<1>1. last \in Nat
  OBVIOUS
<1>2. turn \in [1 .. last -> [Seq(Codes) -> Seq(Codes)]]
  <2> SUFFICES ASSUME NEW n \in 1 .. last, NEW before \in Seq(Codes)
               PROVE  KeyStep(file[n], before) \in Seq(Codes)
    OBVIOUS
  <2>1. file[n].code \in Codes
    OBVIOUS
  <2> HIDE DEF Codes
  <2> QED
    BY <2>1 DEF KeyStep
<1>3. PICK f \in [0 .. last -> Seq(Codes)] :
        f[0] = <<>> /\ \A n \in 1 .. last : f[n] = turn[n][f[n - 1]]
  <2>1. <<>> \in Seq(Codes)
    OBVIOUS
  <2> HIDE DEF turn, last, Body, Codes
  <2>2. HasRecursion(last, Seq(Codes))
    BY <1>1, RecursionExists, Zenon
  <2> QED
    BY <1>2, <2>1, <2>2 DEF HasRecursion
<1>4. \A n \in 1 .. last : f[n - 1] \in Seq(Codes)
  <2> HIDE DEF Codes, last
  <2> QED
    BY <1>1, <1>3
<1>5. \A n \in 1 .. last : f[n] = KeyStep(file[n], f[n - 1])
  <2> HIDE DEF Codes, last
  <2> QED
    BY <1>3, <1>4
<1>6. f = Body(f)
  <2> HIDE DEF Codes, last
  <2>0. f[0] = Body(f)[0]
    BY <1>1, <1>3
  <2>1. ASSUME NEW n \in 0 .. last
        PROVE  f[n] = Body(f)[n]
    <3>1. CASE n # 0
      <4>1. n \in 1 .. last
        BY <1>1, <3>1
      <4>2. f[n] = KeyStep(file[n], f[n - 1])
        BY <1>5, <4>1
      <4> QED
        BY <3>1, <4>2 DEF KeyStep
    <3> QED
      BY <2>0, <3>1
  <2>2. f = [n \in 0 .. last |-> f[n]]
    BY <1>3
  <2>3. Body(f) = [n \in 0 .. last |-> Body(f)[n]]
    OBVIOUS
  <2> HIDE DEF Body
  <2> QED
    BY <2>1, <2>2, <2>3
<1>7. KeyAfter(file) = CHOOSE g : g = Body(g)
  BY DEF KeyAfter
<1>8. KeyAfter(file) = Body(KeyAfter(file))
  <2> HIDE DEF Body
  <2> QED
    BY <1>6, <1>7
<1>9. ASSUME NEW key_, key_ = Body(key_)
      PROVE  /\ key_[0] = <<>>
             /\ \A n \in 1 .. last : key_[n] = KeyStep(file[n], key_[n - 1])
  <2> HIDE DEF last
  <2>1. \A n \in 0 .. last : key_[n] = Body(key_)[n]
    BY <1>9
  <2>2. key_[0] = <<>>
    BY <1>1, <2>1
  <2>3. ASSUME NEW n \in 1 .. last
        PROVE  key_[n] = KeyStep(file[n], key_[n - 1])
    <3>1. n \in 0 .. last /\ n # 0
      BY <1>1
    <3> QED
      BY <2>1, <3>1 DEF KeyStep
  <2> QED
    BY <2>2, <2>3
<1> QED
  BY <1>8, <1>9

\* The key has as many symbols as the file has letters, and each is the code
\* of one.
LEMMA KeyRead ==
  ASSUME NEW S, NEW file \in Seq(S), NEW C,
         \A i \in 1 .. Len(file) : IsLetter(file[i]) => file[i].code \in C
  PROVE  /\ ReadVigenereKey(file) \in Seq(C)
         /\ Len(ReadVigenereKey(file)) = Letters(file)
PROOF
<1> DEFINE last == Len(file)
           IsKey(n) == /\ KeyAfter(file)[n] \in Seq(C)
                       /\ Len(KeyAfter(file)[n]) = LettersUpTo(file, n)
           N == {n \in 0 .. last : IsKey(n)}
<1>1. last \in Nat
  OBVIOUS
<1>2. 0 \in N
  <2>1. KeyAfter(file)[0] = <<>> /\ LettersUpTo(file, 0) = 0
    BY KeyEquations, LettersCount
  <2>2. IsKey(0)
    <3> HIDE DEF last
    <3> QED
      BY <2>1
  <2> HIDE DEF IsKey
  <2> QED
    BY <1>1, <2>2
<1>3. ASSUME NEW n \in N, n \in 0 .. last - 1
      PROVE  n + 1 \in N
  <2>1. n + 1 \in 1 .. last /\ (n + 1) - 1 = n /\ n + 1 \in 0 .. last
    BY <1>1, <1>3
  <2>2. KeyAfter(file)[n + 1] = KeyStep(file[n + 1], KeyAfter(file)[n])
    BY <2>1, KeyEquations
  <2>3. LettersUpTo(file, n + 1) =
          LettersUpTo(file, n) + OneIf(IsLetter(file[n + 1]))
    BY <1>3, LettersCount
  <2>4. IsKey(n)
    BY <1>3
  <2>5. CASE IsLetter(file[n + 1])
    <3>1. KeyAfter(file)[n + 1] = Append(KeyAfter(file)[n], file[n + 1].code)
      BY <2>2, <2>5 DEF KeyStep, IsLetter
    <3>2. LettersUpTo(file, n + 1) = LettersUpTo(file, n) + 1
      BY <2>3, <2>5 DEF OneIf
    <3>3. file[n + 1].code \in C
      BY <2>1, <2>5
    <3>4. IsKey(n + 1)
      <4> HIDE DEF last
      <4> QED
        BY <2>4, <3>1, <3>2, <3>3
    <3> QED
      BY <2>1, <3>4
  <2>6. CASE ~ IsLetter(file[n + 1])
    <3>1. KeyAfter(file)[n + 1] = KeyAfter(file)[n]
      BY <2>2, <2>6 DEF KeyStep, IsLetter
    <3>2. LettersUpTo(file, n + 1) = LettersUpTo(file, n)
      <4>1. LettersUpTo(file, n) \in Nat
        BY LettersCount
      <4> QED
        BY <2>3, <2>6, <4>1 DEF OneIf
    <3> QED
      BY <2>1, <2>4, <3>1, <3>2
  <2> QED
    BY <2>5, <2>6
<1>4. 0 .. last \subseteq N
  <2> HIDE DEF N, last
  <2> QED
    BY <1>1, <1>2, <1>3, BoundedInduction
<1>5. IsKey(last)
  BY <1>1, <1>4
<1> QED
  BY <1>5, LettersOfAll DEF ReadVigenereKey

-----------------------------------------------------------------------------
(* The cipher.                                                             *)

\* The index into the key after n symbols of a text, and what the i-th symbol
\* of it becomes.
IndexAt(plain, keyText, n) ==
  IF Letters(keyText) = 0 THEN 0 ELSE LettersUpTo(plain, n) % Letters(keyText)
ShiftAt(plain, keyText, i) ==
  ReadVigenereKey(keyText)[IndexAt(plain, keyText, i - 1) + 1]
Enciphered(plain, keyText, i) ==
  IF IsLetter(plain[i])
    THEN EncodeSymbol(plain[i], ShiftAt(plain, keyText, i)) ELSE plain[i]

\* A symbol of a file is a letter or the other symbol.
LEMMA SymbolKinds ==
  ASSUME NEW symbol \in Symbol
  PROVE  IF IsLetter(symbol) THEN symbol \in Letter ELSE symbol = Other
BY DEF Symbol, Letter, Other, IsLetter, IsVigenereSupportedSymbol

\* A key file gives codes.
LEMMA KeyOfSymbols ==
  ASSUME NEW keyText \in Seq(Symbol)
  PROVE  /\ ReadVigenereKey(keyText) \in Seq(Code)
         /\ Len(ReadVigenereKey(keyText)) = Letters(keyText)
         /\ Letters(keyText) \in Nat
PROOF
<1>1. ASSUME NEW i \in 1 .. Len(keyText), IsLetter(keyText[i])
      PROVE  keyText[i].code \in Code
  <2>1. keyText[i] \in Symbol
    OBVIOUS
  <2>2. keyText[i] \in Letter
    BY <1>1, <2>1, SymbolKinds
  <2> QED
    BY <2>2 DEF Letter
<1> QED
  BY <1>1, KeyRead, LettersOfAll

\* The index goes around the key, a step with each letter.
LEMMA IndexSteps ==
  ASSUME NEW plain \in Seq(Symbol), NEW keyText \in Seq(Symbol)
  PROVE  /\ IndexAt(plain, keyText, 0) = 0
         /\ \A n \in 0 .. Len(plain) :
              Letters(keyText) > 0 =>
                IndexAt(plain, keyText, n) \in 0 .. Letters(keyText) - 1
         /\ \A n \in 0 .. Len(plain) - 1 :
              IndexAt(plain, keyText, n + 1) =
                IF IsLetter(plain[n + 1]) /\ Letters(keyText) > 0
                  THEN (IndexAt(plain, keyText, n) + 1) % Letters(keyText)
                  ELSE IndexAt(plain, keyText, n)
PROOF
<1> DEFINE L == Letters(keyText)
<1>1. L \in Nat
  BY KeyOfSymbols
<1>2. /\ LettersUpTo(plain, 0) = 0
      /\ \A n \in 0 .. Len(plain) : LettersUpTo(plain, n) \in Nat
  BY LettersCount
<1>3. CASE L = 0
  <2>1. ~ (L > 0)
    BY <1>3
  <2> QED
    BY <1>3, <2>1 DEF IndexAt
<1>4. CASE L # 0
  <2>1. L \in Nat \ {0} /\ L > 0
    BY <1>1, <1>4
  <2>2. \A n \in 0 .. Len(plain) :
          IndexAt(plain, keyText, n) = LettersUpTo(plain, n) % L
    BY <1>4 DEF IndexAt
  <2>3. IndexAt(plain, keyText, 0) = 0
    <3>1. 0 % L = 0
      <4>1. 0 = (L * 0) + 0 /\ 0 \in 0 .. L - 1
        BY <2>1
      <4> HIDE DEF L
      <4> QED
        BY <2>1, <4>1, Remainder
    <3> QED
      BY <1>2, <1>4, <3>1 DEF IndexAt
  <2>4. ASSUME NEW n \in 0 .. Len(plain)
        PROVE  IndexAt(plain, keyText, n) \in 0 .. L - 1
    <3>1. LettersUpTo(plain, n) \in Nat
      BY <1>2
    <3>2. LettersUpTo(plain, n) % L \in 0 .. L - 1
      <4> HIDE DEF L
      <4> QED
        BY <2>1, <3>1
    <3> QED
      BY <2>2, <3>2
  <2>5. ASSUME NEW n \in 0 .. Len(plain) - 1
        PROVE  IndexAt(plain, keyText, n + 1) =
                 IF IsLetter(plain[n + 1])
                   THEN (IndexAt(plain, keyText, n) + 1) % L
                   ELSE IndexAt(plain, keyText, n)
    <3>1. n \in 0 .. Len(plain) /\ n + 1 \in 0 .. Len(plain)
      OBVIOUS
    <3>2. /\ IndexAt(plain, keyText, n) = LettersUpTo(plain, n) % L
          /\ IndexAt(plain, keyText, n + 1) = LettersUpTo(plain, n + 1) % L
          /\ LettersUpTo(plain, n) \in Nat
      BY <1>2, <2>2, <3>1
    <3>3. LettersUpTo(plain, n + 1) =
            LettersUpTo(plain, n) + OneIf(IsLetter(plain[n + 1]))
      BY LettersCount
    <3> HIDE DEF L
    <3>4. CASE IsLetter(plain[n + 1])
      <4>1. LettersUpTo(plain, n + 1) = LettersUpTo(plain, n) + 1
        BY <3>3, <3>4 DEF OneIf
      <4>2. ((LettersUpTo(plain, n) % L) + 1) % L =
              (LettersUpTo(plain, n) + 1) % L
        BY <2>1, <3>2, NextRemainder
      <4> QED
        BY <3>2, <3>4, <4>1, <4>2
    <3>5. CASE ~ IsLetter(plain[n + 1])
      <4>1. LettersUpTo(plain, n + 1) = LettersUpTo(plain, n)
        BY <3>2, <3>3, <3>5 DEF OneIf
      <4> QED
        BY <3>2, <3>5, <4>1
    <3> QED
      BY <3>4, <3>5
  <2> QED
    BY <2>1, <2>3, <2>4, <2>5
<1> QED
  BY <1>3, <1>4

\* With a key, what is enciphered is letter for letter, and comes back with the
\* same shift.
LEMMA Deciphered ==
  ASSUME NEW plain \in Seq(Symbol), NEW keyText \in Seq(Symbol),
         NEW i \in 1 .. Len(plain),
         IsLetter(plain[i]) => Letters(keyText) > 0
  PROVE  /\ Enciphered(plain, keyText, i) \in Symbol
         /\ IsLetter(Enciphered(plain, keyText, i)) <=> IsLetter(plain[i])
         /\ IsLetter(plain[i]) =>
              DecodeSymbol(Enciphered(plain, keyText, i),
                           ShiftAt(plain, keyText, i)) = plain[i]
         /\ ~ IsLetter(plain[i]) => Enciphered(plain, keyText, i) = plain[i]
PROOF
<1>1. plain[i] \in Symbol
  OBVIOUS
<1>2. CASE IsLetter(plain[i])
  <2>1. plain[i] \in Letter
    BY <1>1, <1>2, SymbolKinds
  <2>2. ShiftAt(plain, keyText, i) \in Code
    <3>1. i - 1 \in 0 .. Len(plain)
      OBVIOUS
    <3>2. IndexAt(plain, keyText, i - 1) \in 0 .. Letters(keyText) - 1
      BY <1>2, <3>1, IndexSteps
    <3> QED
      BY <3>2, KeyOfSymbols DEF ShiftAt
  <2> DEFINE code == EncodeSymbol(plain[i], ShiftAt(plain, keyText, i))
  <2>3. code \in Letter /\ DecodeSymbol(code, ShiftAt(plain, keyText, i)) = plain[i]
    BY <2>1, <2>2, ShiftedBack
  <2>4. Enciphered(plain, keyText, i) = code
    BY <1>2 DEF Enciphered
  <2>5. code \in Symbol /\ IsLetter(code)
    <3> HIDE DEF code
    <3> QED
      BY <2>3 DEF Symbol, Letter, IsLetter, IsVigenereSupportedSymbol
  <2> QED
    BY <1>2, <2>3, <2>4, <2>5
<1>3. CASE ~ IsLetter(plain[i])
  BY <1>1, <1>3 DEF Enciphered
<1> QED
  BY <1>2, <1>3

-----------------------------------------------------------------------------
(* The programs.                                                           *)

\* The files that a script is given, and how far its encoder has come: every
\* symbol it wrote is the enciphered one, and it wrote no letter without a key.
FilesOK ==
  /\ script \in Script /\ text \in Seq(Symbol) /\ secret \in Seq(Symbol)
  /\ encoded \in Seq(Symbol) /\ Len(encoded) <= Len(text)
  /\ \A i \in 1 .. Len(encoded) :
       /\ encoded[i] = Enciphered(text, secret, i)
       /\ IsLetter(text[i]) => Letters(secret) > 0

EncoderOK ==
  program = "encoder" =>
    /\ phase \in {"open", "loop", "end"}
    /\ keyFile = secret /\ decoded = <<>> /\ exit # "0"
    /\ phase = "open" => encoded = <<>> /\ exit = Running
    /\ phase = "loop" =>
         /\ exit = Running /\ secret # <<>>
         /\ position = Len(encoded)
         /\ key = ReadVigenereKey(secret)
         /\ keyIndex = IndexAt(text, secret, position)
    /\ exit = "CRASH" =>
         secret # <<>> /\ Letters(secret) = 0 /\ Letters(text) > 0

\* What the cracker searches with are numbers; it counts only when it has
\* found a length.
CrackerOK ==
  /\ encodedPosition \in Nat
  /\ \A window \in DOMAIN occurrences : occurrences[window] \in Nat
  /\ \A distance \in DOMAIN distances : distance \in Int
  /\ left \subseteq Nat /\ keyLength \in Nat
  /\ program = "cracker" =>
       /\ script = "crack" /\ phase \in {"find", "predict", "count"}
       /\ Len(encoded) = Len(text) /\ decoded = <<>> /\ exit = Running
       /\ phase = "count" => keyLength > 0

\* The decoder has the key of the encoder, or one that is not empty.
DecoderOK ==
  program = "decoder" =>
    /\ phase \in {"open", "loop", "end"}
    /\ Len(encoded) = Len(text) /\ exit # "CRASH"
    /\ phase = "open" => decoded = <<>> /\ exit = Running
    /\ phase = "loop" => exit = Running /\ position \in 0 .. Len(text)
    /\ script = "roundTrip" =>
         /\ keyFile = secret
         /\ Len(decoded) <= Len(text)
         /\ decoded = SubSeq(text, 1, Len(decoded))
         /\ exit = "0" => decoded = text
         /\ phase = "loop" =>
              /\ position = Len(decoded)
              /\ key = ReadVigenereKey(secret)
              /\ keyIndex = IndexAt(text, secret, position)
    /\ script = "crack" =>
         /\ keyFile = <<>> \/ Len(ReadVigenereKey(keyFile)) \in Nat \ {0}
         /\ phase = "loop" =>
              /\ Len(key) \in Nat \ {0}
              /\ keyIndex \in 0 .. Len(key) - 1

ScriptInv ==
  /\ FilesOK /\ EncoderOK /\ CrackerOK /\ DecoderOK
  /\ program \in {"encoder", "cracker", "decoder"}

\* A script starts with its files and the encoder.
LEMMA ScriptStarts == Init => ScriptInv
PROOF
<1> SUFFICES ASSUME Init PROVE ScriptInv
  OBVIOUS
<1>1. script \in Script /\ text \in Seq(Symbol) /\ secret \in Seq(Symbol)
  BY FilesAssumption DEF Init, CipherInit
<1>2. /\ encoded = <<>> /\ decoded = <<>> /\ keyFile = secret
      /\ program = "encoder" /\ phase = "open" /\ exit = Running
      /\ encodedPosition = 0 /\ occurrences = <<>> /\ distances = <<>>
      /\ left = {} /\ keyLength = 0
  BY DEF Init, CipherInit
<1>3. FilesOK
  BY <1>1, <1>2 DEF FilesOK
<1>4. EncoderOK /\ DecoderOK
  BY <1>2 DEF EncoderOK, DecoderOK, Running
<1>5. CrackerOK
  BY <1>2 DEF CrackerOK
<1> QED
  BY <1>2, <1>3, <1>4, <1>5 DEF ScriptInv

\* The files are as they were.
LEMMA FilesKept ==
  ASSUME FilesOK, UNCHANGED <<inputs, encoded>>
  PROVE  FilesOK'
BY DEF FilesOK, inputs

\* Outside the cracker, what it searches with is as it was.
LEMMA SearchKept ==
  ASSUME CrackerOK, UNCHANGED crackerVars, program' # "cracker"
  PROVE  CrackerOK'
BY DEF CrackerOK, crackerVars, searchVars

\* The encoder opens its files.
LEMMA EncoderOpens ==
  ASSUME ScriptInv, program = "encoder", Open, UNCHANGED crackerVars
  PROVE  ScriptInv'
PROOF
<1>1. /\ UNCHANGED <<inputs, keyFile, program, encoded, decoded>>
      /\ phase = "open"
  BY DEF Open
<1>2. FilesOK'
  BY <1>1, FilesKept DEF ScriptInv
<1>3. CrackerOK' /\ DecoderOK'
  BY <1>1, SearchKept DEF ScriptInv, DecoderOK
<1>4. EncoderOK'
  <2>1. /\ keyFile = secret /\ decoded = <<>> /\ encoded = <<>>
        /\ exit = Running
    BY <1>1 DEF ScriptInv, EncoderOK
  <2>2. CASE phase' = "end" /\ exit' \in {ERROR_NO_INPUT, ERROR_NO_KEY}
    BY <1>1, <2>1, <2>2
    DEF EncoderOK, ERROR_NO_INPUT, ERROR_NO_KEY, inputs
  <2>3. CASE /\ ~ IsEmptyFile(keyFile) /\ key' = ReadVigenereKey(keyFile)
             /\ keyIndex' = 0 /\ position' = 0 /\ phase' = "loop"
             /\ exit' = exit
    <3>1. IndexAt(text, secret, 0) = 0
      BY IndexSteps DEF ScriptInv, FilesOK
    <3>2. Len(encoded) = 0
      BY <2>1
    <3>3. secret # <<>>
      BY <2>1, <2>3 DEF IsEmptyFile
    <3> QED
      BY <1>1, <2>1, <2>3, <3>1, <3>2, <3>3 DEF EncoderOK, inputs, Running
  <2> QED
    BY <2>2, <2>3 DEF Open, Exit
<1> QED
  BY <1>1, <1>2, <1>3, <1>4 DEF ScriptInv

\* It writes the next symbol.
LEMMA FilesGrow ==
  ASSUME FilesOK, position = Len(encoded), position < Len(text),
         IsLetter(text[position + 1]) => Letters(secret) > 0,
         encoded' = Append(encoded, Enciphered(text, secret, position + 1)),
         UNCHANGED inputs
  PROVE  FilesOK' /\ Len(encoded') = position + 1
PROOF
<1> DEFINE symbol == Enciphered(text, secret, position + 1)
<1>1. /\ text \in Seq(Symbol) /\ secret \in Seq(Symbol)
      /\ encoded \in Seq(Symbol) /\ position \in Nat
      /\ position + 1 \in 1 .. Len(text)
  BY DEF FilesOK
<1>2. symbol \in Symbol
  BY <1>1, Deciphered
<1> HIDE DEF symbol
<1>3. /\ encoded' \in Seq(Symbol) /\ Len(encoded') = position + 1
      /\ \A i \in 1 .. Len(encoded) : encoded'[i] = encoded[i]
      /\ encoded'[position + 1] = symbol
  BY <1>1, <1>2 DEF symbol
<1>4. ASSUME NEW i \in 1 .. Len(encoded')
      PROVE  /\ encoded'[i] = Enciphered(text, secret, i)
             /\ IsLetter(text[i]) => Letters(secret) > 0
  <2>1. CASE i = position + 1
    BY <1>3, <2>1 DEF symbol
  <2>2. CASE i # position + 1
    <3>1. i \in 1 .. Len(encoded)
      BY <1>1, <1>3, <2>2
    <3> QED
      BY <1>3, <3>1 DEF FilesOK
  <2> QED
    BY <2>1, <2>2
<1>5. script' = script /\ text' = text /\ secret' = secret
  BY DEF inputs
<1> QED
  BY <1>1, <1>3, <1>4, <1>5 DEF FilesOK

\* The encoder reads a symbol.
LEMMA EncoderReads ==
  ASSUME ScriptInv, program = "encoder", Read, UNCHANGED crackerVars
  PROVE  ScriptInv'
PROOF
<1> DEFINE symbol == text[position + 1]
           K == ReadVigenereKey(secret)
<1>1. /\ phase = "loop" /\ Input = text /\ position < Len(text)
      /\ position' = position + 1
      /\ UNCHANGED <<inputs, keyFile, program, key>>
      /\ ShiftLetter(symbol) \/ CopyOther(symbol)
  BY DEF Read, Input
<1>2. /\ keyFile = secret /\ decoded = <<>> /\ exit = Running
      /\ secret # <<>> /\ position = Len(encoded)
      /\ key = K /\ keyIndex = IndexAt(text, secret, position)
  BY <1>1 DEF ScriptInv, EncoderOK
<1>3. /\ text \in Seq(Symbol) /\ secret \in Seq(Symbol) /\ FilesOK
      /\ encoded \in Seq(Symbol)
  BY DEF ScriptInv, FilesOK
<1>4. /\ position \in 0 .. Len(text) - 1 /\ position \in 0 .. Len(text)
      /\ position + 1 \in 1 .. Len(text) /\ (position + 1) - 1 = position
  BY <1>1, <1>2, <1>3
<1>5. Len(K) = Letters(secret) /\ Letters(secret) \in Nat
  BY <1>3, KeyOfSymbols
<1>6. CrackerOK' /\ DecoderOK'
  BY <1>1, SearchKept DEF ScriptInv, DecoderOK
<1>7. IndexAt(text, secret, position + 1) =
        IF IsLetter(symbol) /\ Letters(secret) > 0
          THEN (keyIndex + 1) % Letters(secret) ELSE keyIndex
  BY <1>2, <1>3, <1>4, IndexSteps
<1>8. CASE IsLetter(symbol) /\ keyIndex >= Len(key)
  <2>1. /\ phase' = "end" /\ exit' = "CRASH"
        /\ UNCHANGED <<keyIndex, encoded, decoded>>
    BY <1>1, <1>8 DEF ShiftLetter, CopyOther, IsLetter, Exit
  <2>2. Letters(secret) = 0
    <3>1. Letters(secret) > 0 => keyIndex \in 0 .. Letters(secret) - 1
      BY <1>2, <1>3, <1>4, IndexSteps
    <3> HIDE DEF K
    <3> QED
      BY <1>2, <1>5, <1>8, <3>1
  <2>3. Letters(text) > 0
    BY <1>3, <1>4, <1>8, LettersThere
  <2>4. FilesOK'
    BY <1>1, <1>3, <2>1, FilesKept
  <2>5. EncoderOK'
    BY <1>1, <1>2, <2>1, <2>2, <2>3 DEF EncoderOK, inputs
  <2> QED
    BY <1>1, <1>6, <2>4, <2>5 DEF ScriptInv
<1>9. CASE ~ (IsLetter(symbol) /\ keyIndex >= Len(key))
  <2>1. /\ encoded' = Append(encoded, Enciphered(text, secret, position + 1))
        /\ UNCHANGED <<decoded, phase, exit>>
        /\ keyIndex' = IndexAt(text, secret, position + 1)
        /\ IsLetter(symbol) => Letters(secret) > 0
    <3>1. CASE IsLetter(symbol)
      <4>1. /\ encoded' = Append(encoded, EncodeSymbol(symbol, key[keyIndex + 1]))
            /\ UNCHANGED <<decoded, phase, exit>>
            /\ keyIndex' = (keyIndex + 1) % Len(key)
        BY <1>1, <1>9, <3>1
        DEF ShiftLetter, CopyOther, IsLetter, Put, Shifted
      <4>2. key[keyIndex + 1] = ShiftAt(text, secret, position + 1)
        BY <1>2, <1>4 DEF ShiftAt
      <4>3. Letters(secret) > 0
        <5>1. Letters(secret) = 0 => keyIndex = 0
          BY <1>2 DEF IndexAt
        <5> HIDE DEF K
        <5> QED
          BY <1>2, <1>5, <1>9, <3>1, <5>1
      <4> QED
        BY <1>2, <1>5, <1>7, <3>1, <4>1, <4>2, <4>3 DEF Enciphered
    <3>2. CASE ~ IsLetter(symbol)
      <4>1. /\ encoded' = Append(encoded, symbol)
            /\ UNCHANGED <<decoded, phase, exit, keyIndex>>
        BY <1>1, <3>2 DEF ShiftLetter, CopyOther, IsLetter, Put
      <4> QED
        BY <1>7, <3>2, <4>1 DEF Enciphered
    <3> QED
      BY <3>1, <3>2
  <2>2. FilesOK' /\ Len(encoded') = position'
    BY <1>1, <1>2, <1>3, <2>1, FilesGrow
  <2>3. EncoderOK'
    <3>1. text' = text /\ secret' = secret /\ key' = key
      BY <1>1 DEF inputs
    <3> HIDE DEF K
    <3> QED
      BY <1>1, <1>2, <2>1, <2>2, <3>1 DEF EncoderOK, K, Running
  <2> QED
    BY <1>1, <1>6, <2>2, <2>3 DEF ScriptInv
<1> QED
  BY <1>8, <1>9

\* The encoder ends, and the decoder or the cracker goes on with its file.
LEMMA EncoderLeaves ==
  ASSUME ScriptInv, EncoderEnds, UNCHANGED crackerVars
  PROVE  ScriptInv'
PROOF
<1>1. /\ phase = "loop" /\ program = "encoder" /\ position = Len(text)
      /\ UNCHANGED <<inputs, keyFile, encoded, decoded, exit>>
      /\ \/ /\ script = "crack"
            /\ program' = "cracker" /\ phase' = "find"
         \/ /\ script # "crack"
            /\ program' = "decoder" /\ phase' = "open"
  BY DEF EncoderEnds, Input
<1>2. /\ keyFile = secret /\ decoded = <<>> /\ exit = Running
      /\ position = Len(encoded)
  BY <1>1 DEF ScriptInv, EncoderOK
<1>3. FilesOK' /\ text \in Seq(Symbol)
  BY <1>1, FilesKept DEF ScriptInv, FilesOK
<1>4. EncoderOK'
  BY <1>1 DEF EncoderOK
<1>5. Len(encoded') = Len(text') /\ decoded' = <<>> /\ exit' = Running
  BY <1>1, <1>2 DEF inputs
<1>6. CrackerOK'
  BY <1>1, <1>5 DEF ScriptInv, CrackerOK, crackerVars, searchVars, inputs
<1>7. DecoderOK'
  <2> SUFFICES ASSUME program' = "decoder" PROVE DecoderOK'
    BY DEF DecoderOK
  <2>1. script # "crack" /\ phase' = "open" /\ script' = script
    BY <1>1 DEF inputs
  <2>2. Len(decoded') = 0 /\ decoded' = SubSeq(text', 1, 0) /\ Len(text') \in Nat
    BY <1>3, <1>5 DEF FilesOK
  <2>3. keyFile' = secret'
    BY <1>1, <1>2 DEF inputs
  <2> QED
    BY <1>5, <2>1, <2>2, <2>3 DEF DecoderOK, Running
<1> QED
  BY <1>1, <1>3, <1>4, <1>6, <1>7 DEF ScriptInv

\* The decoder opens its files.
LEMMA DecoderOpens ==
  ASSUME ScriptInv, program = "decoder", Open, UNCHANGED crackerVars
  PROVE  ScriptInv'
PROOF
<1>1. /\ UNCHANGED <<inputs, keyFile, program, encoded, decoded>>
      /\ phase = "open"
  BY DEF Open
<1>2. FilesOK'
  BY <1>1, FilesKept DEF ScriptInv
<1>3. CrackerOK' /\ EncoderOK'
  BY <1>1, SearchKept DEF ScriptInv, EncoderOK
<1>4. /\ Len(encoded) = Len(text) /\ decoded = <<>> /\ exit = Running
      /\ script = "roundTrip" =>
           /\ keyFile = secret /\ Len(decoded) <= Len(text)
           /\ decoded = SubSeq(text, 1, Len(decoded))
      /\ script = "crack" =>
           keyFile = <<>> \/ Len(ReadVigenereKey(keyFile)) \in Nat \ {0}
  BY <1>1 DEF ScriptInv, DecoderOK
<1>5. /\ script' = script /\ text' = text /\ secret' = secret
      /\ keyFile' = keyFile /\ encoded' = encoded /\ decoded' = decoded
  BY <1>1 DEF inputs
<1>6. DecoderOK'
  <2>1. CASE phase' = "end" /\ exit' \in {ERROR_NO_INPUT, ERROR_NO_KEY}
    BY <1>4, <1>5, <2>1 DEF DecoderOK, ERROR_NO_INPUT, ERROR_NO_KEY
  <2>2. CASE /\ ~ IsEmptyFile(keyFile) /\ key' = ReadVigenereKey(keyFile)
             /\ keyIndex' = 0 /\ position' = 0 /\ phase' = "loop"
             /\ exit' = exit
    <3>1. /\ IndexAt(text, secret, 0) = 0 /\ Len(text) \in Nat
          /\ Len(decoded) = 0
      BY <1>4, IndexSteps DEF ScriptInv, FilesOK
    <3>2. script = "crack" => Len(key') \in Nat \ {0}
      BY <1>4, <2>2 DEF IsEmptyFile
    <3>3. /\ exit' = Running /\ position' \in 0 .. Len(text')
          /\ Len(encoded') = Len(text')
      BY <1>4, <1>5, <2>2, <3>1
    <3>4. script = "crack" => keyIndex' \in 0 .. Len(key') - 1
      BY <2>2, <3>2
    <3> QED
      BY <1>4, <1>5, <2>2, <3>1, <3>2, <3>3, <3>4 DEF DecoderOK, Running
  <2> QED
    BY <2>1, <2>2 DEF Open, Exit
<1> QED
  BY <1>1, <1>2, <1>3, <1>6 DEF ScriptInv

\* A prefix of a text and its next symbol are the next prefix.
LEMMA PrefixGrows ==
  ASSUME NEW S, NEW file \in Seq(S), NEW prefix, Len(prefix) < Len(file),
         prefix = SubSeq(file, 1, Len(prefix)), Len(prefix) \in Nat
  PROVE  /\ Len(Append(prefix, file[Len(prefix) + 1])) = Len(prefix) + 1
         /\ Append(prefix, file[Len(prefix) + 1]) =
              SubSeq(file, 1, Len(prefix) + 1)
PROOF
<1> DEFINE n == Len(prefix)
<1>1. n \in Nat /\ n < Len(file) /\ prefix = SubSeq(file, 1, n)
  OBVIOUS
<1> HIDE DEF n
<1>2. Append(SubSeq(file, 1, n), file[n + 1]) = SubSeq(file, 1, n + 1)
  BY <1>1
<1>3. Len(SubSeq(file, 1, n + 1)) = n + 1
  BY <1>1
<1> QED
  BY <1>1, <1>2, <1>3 DEF n

\* What is decoded is the beginning of the text.
Restores ==
  /\ keyIndex = IndexAt(text, secret, position)
  /\ position = Len(decoded)
  /\ decoded = SubSeq(text, 1, Len(decoded))

\* With the key of the encoder, the decoder reads a symbol and writes what the
\* encoder read.
LEMMA DecoderRestores ==
  ASSUME ScriptInv, program = "decoder", Read,
         key = ReadVigenereKey(secret), Restores
  PROVE  Restores' /\ UNCHANGED <<phase, exit>>
PROOF
<1> DEFINE symbol == encoded[position + 1]
           K == ReadVigenereKey(secret)
<1>1. /\ phase = "loop" /\ Input = encoded /\ position < Len(encoded)
      /\ position' = position + 1
      /\ UNCHANGED <<inputs, keyFile, program, key>>
      /\ ShiftLetter(symbol) \/ CopyOther(symbol)
  BY DEF Read, Input
<1>2. /\ Len(encoded) = Len(text)
      /\ decoded = SubSeq(text, 1, Len(decoded))
      /\ position = Len(decoded) /\ position \in 0 .. Len(text)
      /\ key = K /\ keyIndex = IndexAt(text, secret, position)
  BY <1>1 DEF ScriptInv, DecoderOK, Restores
<1>3. /\ text \in Seq(Symbol) /\ secret \in Seq(Symbol) /\ FilesOK
  BY DEF ScriptInv, FilesOK
<1>4. /\ position \in Nat /\ position < Len(text)
      /\ position \in 0 .. Len(text) - 1 /\ position \in 0 .. Len(text)
      /\ position + 1 \in 1 .. Len(text) /\ (position + 1) - 1 = position
  BY <1>1, <1>2, <1>3
<1>5. Len(K) = Letters(secret) /\ Letters(secret) \in Nat
  BY <1>3, KeyOfSymbols
<1>6. /\ symbol = Enciphered(text, secret, position + 1)
      /\ IsLetter(text[position + 1]) => Letters(secret) > 0
  <2>1. position + 1 \in 1 .. Len(encoded)
    BY <1>2, <1>4
  <2> QED
    BY <1>3, <2>1 DEF FilesOK
<1>7. /\ IsLetter(symbol) <=> IsLetter(text[position + 1])
      /\ IsLetter(symbol) =>
           DecodeSymbol(symbol, ShiftAt(text, secret, position + 1)) =
             text[position + 1]
      /\ ~ IsLetter(symbol) => symbol = text[position + 1]
  BY <1>3, <1>4, <1>6, Deciphered
<1>8. IndexAt(text, secret, position + 1) =
        IF IsLetter(symbol) /\ Letters(secret) > 0
          THEN (keyIndex + 1) % Letters(secret) ELSE keyIndex
  BY <1>2, <1>3, <1>4, <1>7, IndexSteps
<1> HIDE DEF K
<1>9. /\ decoded' = Append(decoded, text[position + 1])
      /\ UNCHANGED <<phase, exit>>
      /\ keyIndex' = IndexAt(text, secret, position + 1)
  <2>1. CASE IsLetter(symbol)
    <3>1. Letters(secret) > 0 /\ keyIndex \in 0 .. Letters(secret) - 1
      BY <1>2, <1>3, <1>4, <1>6, <1>7, <2>1, IndexSteps
    <3>2. ~ (keyIndex >= Len(key))
      BY <1>2, <1>5, <3>1
    <3>3. /\ decoded' = Append(decoded, DecodeSymbol(symbol, key[keyIndex + 1]))
          /\ UNCHANGED <<phase, exit>>
          /\ keyIndex' = (keyIndex + 1) % Len(key)
      BY <1>1, <2>1, <3>2 DEF ShiftLetter, CopyOther, IsLetter, Put, Shifted
    <3>4. key[keyIndex + 1] = ShiftAt(text, secret, position + 1)
      BY <1>2, <1>4 DEF ShiftAt, K
    <3> QED
      BY <1>2, <1>5, <1>7, <1>8, <2>1, <3>1, <3>3, <3>4
  <2>2. CASE ~ IsLetter(symbol)
    <3>1. /\ decoded' = Append(decoded, symbol)
          /\ UNCHANGED <<phase, exit, keyIndex>>
      BY <1>1, <2>2 DEF ShiftLetter, CopyOther, IsLetter, Put
    <3> QED
      BY <1>7, <1>8, <2>2, <3>1
  <2> QED
    BY <2>1, <2>2
<1>10. Len(decoded') = position' /\ decoded' = SubSeq(text, 1, Len(decoded'))
  BY <1>1, <1>2, <1>3, <1>4, <1>9, PrefixGrows
<1>11. text' = text /\ secret' = secret
  BY <1>1 DEF inputs
<1> QED
  BY <1>1, <1>9, <1>10, <1>11 DEF Restores

\* When it has read all, what it wrote is the text.
LEMMA AllRestored ==
  ASSUME ScriptInv, program = "decoder", position = Len(encoded), Restores
  PROVE  decoded = text
PROOF
<1>1. Len(decoded) = Len(text) /\ decoded = SubSeq(text, 1, Len(text))
  BY DEF ScriptInv, DecoderOK, Restores
<1>2. SubSeq(text, 1, Len(text)) = text
  BY DEF ScriptInv, FilesOK
<1> QED
  BY <1>1, <1>2

\* That keeps what is said of the decoder.
LEMMA DecoderReads ==
  ASSUME ScriptInv, program = "decoder", script = "roundTrip", Read,
         UNCHANGED crackerVars
  PROVE  ScriptInv'
PROOF
<1>1. /\ phase = "loop" /\ position < Len(encoded)
      /\ position' = position + 1
      /\ UNCHANGED <<inputs, keyFile, program, key>>
      /\ \E symbol : ShiftLetter(symbol) \/ CopyOther(symbol)
  BY DEF Read, Input
<1>2. /\ keyFile = secret /\ exit = Running /\ Len(encoded) = Len(text)
      /\ position \in 0 .. Len(text) /\ key = ReadVigenereKey(secret)
      /\ Restores
  BY <1>1 DEF ScriptInv, DecoderOK, Restores
<1>3. Restores' /\ UNCHANGED <<phase, exit>>
  BY <1>2, DecoderRestores
<1>4. /\ script' = script /\ text' = text /\ secret' = secret
      /\ keyFile' = keyFile /\ encoded' = encoded /\ key' = key
  BY <1>1 DEF inputs, ShiftLetter, CopyOther, Exit, Put
<1>5. position' \in 0 .. Len(text)
  BY <1>1, <1>2 DEF ScriptInv, FilesOK
<1>6. FilesOK'
  BY <1>1, <1>4, FilesKept DEF ScriptInv
<1>7. CrackerOK' /\ EncoderOK' /\ program' = "decoder"
  BY <1>1, SearchKept DEF ScriptInv, EncoderOK
<1>8. DecoderOK'
  BY <1>1, <1>2, <1>3, <1>4, <1>5 DEF DecoderOK, Restores, Running
<1> QED
  BY <1>6, <1>7, <1>8 DEF ScriptInv

\* With the key of the cracker, it reads one and does not leave the key.
LEMMA CrackedReads ==
  ASSUME ScriptInv, program = "decoder", script = "crack", Read,
         UNCHANGED crackerVars
  PROVE  ScriptInv'
PROOF
<1> DEFINE symbol == encoded[position + 1]
<1>1. /\ phase = "loop" /\ Input = encoded /\ position < Len(encoded)
      /\ position' = position + 1
      /\ UNCHANGED <<inputs, keyFile, program, key>>
      /\ ShiftLetter(symbol) \/ CopyOther(symbol)
  BY DEF Read, Input
<1>2. /\ exit = Running /\ Len(encoded) = Len(text)
      /\ position \in 0 .. Len(text)
      /\ keyFile = <<>> \/ Len(ReadVigenereKey(keyFile)) \in Nat \ {0}
      /\ Len(key) \in Nat \ {0} /\ keyIndex \in 0 .. Len(key) - 1
  BY <1>1 DEF ScriptInv, DecoderOK
<1>3. /\ UNCHANGED <<encoded, phase, exit>>
      /\ keyIndex' = keyIndex \/ keyIndex' = (keyIndex + 1) % Len(key)
  <2>1. ~ (keyIndex >= Len(key))
    BY <1>2
  <2> QED
    BY <1>1, <2>1 DEF ShiftLetter, CopyOther, Put
<1>4. keyIndex' \in 0 .. Len(key) - 1
  <2> DEFINE L == Len(key)
  <2> HIDE DEF L
  <2>1. L \in Nat \ {0} /\ keyIndex \in 0 .. L - 1
    BY <1>2 DEF L
  <2>2. (keyIndex + 1) % L \in 0 .. L - 1
    BY <2>1
  <2> QED
    BY <1>3, <2>1, <2>2 DEF L
<1>5. /\ script' = script /\ text' = text /\ secret' = secret
      /\ keyFile' = keyFile /\ encoded' = encoded /\ key' = key
  BY <1>1, <1>3 DEF inputs
<1>6. FilesOK'
  BY <1>1, <1>3, FilesKept DEF ScriptInv
<1>7. CrackerOK' /\ EncoderOK' /\ program' = "decoder"
  BY <1>1, SearchKept DEF ScriptInv, EncoderOK
<1>8. position' \in 0 .. Len(text)
  BY <1>1, <1>2 DEF ScriptInv, FilesOK
<1>9. DecoderOK'
  BY <1>1, <1>2, <1>3, <1>4, <1>5, <1>8 DEF DecoderOK, Running
<1> QED
  BY <1>6, <1>7, <1>9 DEF ScriptInv

\* The decoder ends with the text.
LEMMA DecoderLeaves ==
  ASSUME ScriptInv, DecoderEnds, UNCHANGED crackerVars
  PROVE  ScriptInv'
PROOF
<1>1. /\ phase = "loop" /\ program = "decoder" /\ position = Len(encoded)
      /\ UNCHANGED <<inputs, keyFile, program, key, encoded, decoded>>
      /\ phase' = "end" /\ exit' = "0"
  BY DEF DecoderEnds, Input, Exit
<1>2. CrackerOK' /\ EncoderOK' /\ FilesOK'
  BY <1>1, SearchKept, FilesKept DEF ScriptInv, EncoderOK
<1>3. /\ script' = script /\ text' = text /\ secret' = secret
      /\ keyFile' = keyFile /\ encoded' = encoded /\ decoded' = decoded
  BY <1>1 DEF inputs
<1>4. script = "roundTrip" => decoded = text
  BY <1>1, AllRestored DEF ScriptInv, DecoderOK, Restores
<1>5. DecoderOK'
  BY <1>1, <1>3, <1>4 DEF ScriptInv, DecoderOK
<1> QED
  BY <1>1, <1>2, <1>5 DEF ScriptInv

\* A place of the cracker tells that it runs.
LEMMA CrackerRuns ==
  ASSUME ScriptInv, phase \in {"find", "predict", "count"}
  PROVE  /\ program = "cracker" /\ script = "crack"
         /\ Len(encoded) = Len(text) /\ decoded = <<>> /\ exit = Running
         /\ phase = "count" => keyLength > 0
  BY DEF ScriptInv, EncoderOK, DecoderOK, CrackerOK

\* A step of the cracker leaves the files of the others alone.
LEMMA OthersKept ==
  ASSUME ScriptInv, phase \in {"find", "predict", "count"},
         UNCHANGED otherFiles
  PROVE  /\ FilesOK' /\ Len(encoded') = Len(text')
         /\ decoded' = <<>> /\ exit' = Running /\ script' = "crack"
         /\ program' # "encoder" => EncoderOK'
         /\ program' # "decoder" => DecoderOK'
PROOF
<1>1. UNCHANGED <<inputs, encoded, decoded, exit>>
  BY DEF otherFiles
<1>2. FilesOK'
  BY <1>1, FilesKept DEF ScriptInv
<1> QED
  BY <1>1, <1>2, CrackerRuns DEF EncoderOK, DecoderOK, inputs

\* The cracker reads a symbol: the places and distances it keeps are numbers.
LEMMA CrackerFinds ==
  ASSUME ScriptInv, FindDistances
  PROVE  ScriptInv'
PROOF
<1>1. /\ phase = "find" /\ phase' = "find"
      /\ UNCHANGED <<otherFiles, program, left, keyLength>>
      /\ BreakWindow \/ ExtendWindow(encoded[position + 1].code)
  BY DEF FindDistances
<1>2. program = "cracker"
  BY <1>1, CrackerRuns
<1>3. /\ encodedPosition' \in Nat
      /\ \A window \in DOMAIN occurrences' : occurrences'[window] \in Nat
      /\ \A distance \in DOMAIN distances' : distance \in Int
  <2>1. CASE BreakWindow
    BY <2>1 DEF BreakWindow, ScriptInv, CrackerOK
  <2>2. CASE ExtendWindow(encoded[position + 1].code)
    <3> DEFINE full == Append(currentString, encoded[position + 1].code)
               here == encodedPosition + 1
    <3>1. here \in Nat /\ encodedPosition' = here
      BY <2>2 DEF ExtendWindow, ScriptInv, CrackerOK
    <3>2. \/ UNCHANGED <<occurrences, distances>>
          \/ /\ occurrences' = With(occurrences, full, here)
             /\ \/ distances' = distances
                \/ /\ full \in DOMAIN occurrences
                   /\ distances' =
                        Increment(distances, here - occurrences[full])
      BY <2>2 DEF ExtendWindow
    <3> HIDE DEF full, here
    <3>3. /\ \A window \in DOMAIN occurrences : occurrences[window] \in Nat
          /\ \A distance \in DOMAIN distances : distance \in Int
      BY DEF ScriptInv, CrackerOK
    <3>4. \A window \in DOMAIN occurrences' : occurrences'[window] \in Nat
      BY <3>1, <3>2, <3>3 DEF With
    <3>5. full \in DOMAIN occurrences => here - occurrences[full] \in Int
      BY <3>1, <3>3
    <3>6. \A distance \in DOMAIN distances' : distance \in Int
      BY <3>2, <3>3, <3>5 DEF Increment
    <3> QED
      BY <3>1, <3>4, <3>6
  <2> QED
    BY <1>1, <2>1, <2>2
<1>4. CrackerOK'
  BY <1>1, <1>2, <1>3, OthersKept DEF ScriptInv, CrackerOK
<1> QED
  BY <1>1, <1>2, <1>4, OthersKept DEF ScriptInv

\* What is counted are numbers.
LEMMA CountedAreNumbers ==
  ASSUME CrackerOK
  PROVE  DOMAIN Counts \subseteq Nat
PROOF
<1>1. DOMAIN Counts = UNION {DOMAIN Divisors(distance) : distance \in DOMAIN distances}
  BY DEF Counts
<1>2. ASSUME NEW distance \in DOMAIN distances
      PROVE  DOMAIN Divisors(distance) \subseteq Nat
  BY DEF Divisors, CrackerOK
<1> QED
  BY <1>1, <1>2

\* The cracker counts the divisors.
LEMMA CrackerCalculates ==
  ASSUME ScriptInv, CalculateDivisors
  PROVE  ScriptInv'
PROOF
<1>1. /\ phase = "find" /\ phase' = "predict" /\ left' = DOMAIN Counts
      /\ UNCHANGED <<otherFiles, program, searchVars, keyLength>>
  BY DEF CalculateDivisors
<1>2. program = "cracker"
  BY <1>1, CrackerRuns
<1>3. left' \subseteq Nat
  BY <1>1, CountedAreNumbers DEF ScriptInv
<1>4. CrackerOK'
  BY <1>1, <1>2, <1>3, OthersKept DEF ScriptInv, CrackerOK, searchVars
<1> QED
  BY <1>1, <1>2, <1>4, OthersKept DEF ScriptInv

\* It looks at one of them.
LEMMA CrackerPredicts ==
  ASSUME ScriptInv, PredictKeyLength
  PROVE  ScriptInv'
PROOF
<1>1. /\ phase = "predict" /\ phase' = "predict"
      /\ left' \subseteq left /\ keyLength' \in left \cup {keyLength}
      /\ UNCHANGED <<otherFiles, program, searchVars>>
  <2>1. PICK divisor \in left :
          /\ left' = left \ {divisor}
          /\ keyLength' = IF Better(divisor) THEN divisor ELSE keyLength
    BY DEF PredictKeyLength
  <2> QED
    BY <2>1 DEF PredictKeyLength
<1>2. program = "cracker"
  BY <1>1, CrackerRuns
<1>3. CrackerOK'
  BY <1>1, <1>2, OthersKept DEF ScriptInv, CrackerOK, searchVars
<1> QED
  BY <1>1, <1>2, <1>3, OthersKept DEF ScriptInv

\* It goes on with a length that is not 0, or leaves the decoder no key.
LEMMA CrackerDecides ==
  ASSUME ScriptInv, Predicted
  PROVE  ScriptInv'
PROOF
<1>1. /\ phase = "predict"
      /\ UNCHANGED <<otherFiles, searchVars, left, keyLength>>
      /\ \/ /\ keyFile' = <<>> /\ program' = "decoder" /\ phase' = "open"
         \/ keyLength > 0 /\ phase' = "count" /\ program' = program
  BY DEF Predicted, StartDecoder
<1>2. program = "cracker"
  BY <1>1, CrackerRuns
<1>3. CrackerOK'
  BY <1>1, <1>2, OthersKept DEF ScriptInv, CrackerOK, searchVars
<1>4. EncoderOK' /\ FilesOK'
  BY <1>1, <1>2, OthersKept
<1>5. DecoderOK'
  <2>1. CASE program' = "decoder"
    <3>1. keyFile' = <<>> /\ phase' = "open"
      BY <1>1, <1>2, <2>1
    <3> QED
      BY <1>1, <3>1, OthersKept DEF DecoderOK, Running
  <2>2. CASE program' # "decoder"
    BY <1>1, <2>2, OthersKept
  <2> QED
    BY <2>1, <2>2
<1> QED
  BY <1>1, <1>2, <1>3, <1>4, <1>5 DEF ScriptInv

\* It counts a letter.
LEMMA CrackerCounts ==
  ASSUME ScriptInv, CountLetters
  PROVE  ScriptInv'
PROOF
<1>1. /\ phase = "count" /\ phase' = "count"
      /\ UNCHANGED <<otherFiles, program, searchVars, left, keyLength>>
  BY DEF CountLetters
<1>2. program = "cracker" /\ keyLength > 0
  BY <1>1, CrackerRuns
<1>3. CrackerOK'
  BY <1>1, <1>2, OthersKept DEF ScriptInv, CrackerOK, searchVars
<1> QED
  BY <1>1, <1>2, <1>3, OthersKept DEF ScriptInv

\* The key it writes begins with a letter.
LEMMA CrackerWrites ==
  ASSUME ScriptInv, WriteKey
  PROVE  ScriptInv'
PROOF
<1> DEFINE letter(i) == [case |-> "lower", code |-> Guess(counters[i - 1])]
           cracked == [i \in 1 .. keyLength |-> letter(i)] \o <<Other>>
           S == {letter(i) : i \in 1 .. keyLength} \cup {Other}
<1>1. /\ phase = "count" /\ keyFile' = cracked
      /\ program' = "decoder" /\ phase' = "open"
      /\ UNCHANGED <<otherFiles, searchVars, left, keyLength>>
  BY DEF WriteKey, StartDecoder
<1>2. program = "cracker" /\ keyLength > 0 /\ keyLength \in Nat
  BY <1>1, CrackerRuns DEF ScriptInv, CrackerOK
<1>3. /\ cracked \in Seq(S) /\ 1 \in 1 .. Len(cracked)
      /\ cracked[1] = letter(1)
  <2>1. [i \in 1 .. keyLength |-> letter(i)] \in Seq(S)
    <3>1. \A i \in 1 .. keyLength : letter(i) \in S
      OBVIOUS
    <3> HIDE DEF letter, S
    <3> QED
      BY <1>2, <3>1
  <2>2. <<Other>> \in Seq(S)
    OBVIOUS
  <2>3. Len([i \in 1 .. keyLength |-> letter(i)]) = keyLength
    <3> HIDE DEF letter
    <3> QED
      BY <1>2
  <2> HIDE DEF letter, S
  <2> QED
    BY <1>2, <2>1, <2>2, <2>3
<1>4. IsLetter(cracked[1])
  <2>1. letter(1).case = "lower"
    OBVIOUS
  <2> HIDE DEF cracked, letter
  <2> QED
    BY <1>3, <2>1 DEF IsLetter, IsVigenereSupportedSymbol
<1>5. Len(ReadVigenereKey(cracked)) \in Nat \ {0}
  <2> HIDE DEF cracked, letter, S
  <2>1. Letters(cracked) > 0 /\ Letters(cracked) \in Nat
    BY <1>3, <1>4, LettersThere, LettersOfAll
  <2> DEFINE C == {cracked[i].code : i \in 1 .. Len(cracked)}
  <2>2. \A i \in 1 .. Len(cracked) :
          IsLetter(cracked[i]) => cracked[i].code \in C
    OBVIOUS
  <2> HIDE DEF C
  <2>3. Len(ReadVigenereKey(cracked)) = Letters(cracked)
    BY <1>3, <2>2, KeyRead
  <2> QED
    BY <2>1, <2>3
<1> HIDE DEF cracked
<1>6. CrackerOK'
  BY <1>1, <1>2, OthersKept DEF ScriptInv, CrackerOK, searchVars
<1>7. EncoderOK' /\ FilesOK'
  BY <1>1, <1>2, OthersKept
<1>8. DecoderOK'
  BY <1>1, <1>5, OthersKept DEF DecoderOK, Running
<1> QED
  BY <1>1, <1>6, <1>7, <1>8 DEF ScriptInv

-----------------------------------------------------------------------------
(* The theorems.                                                           *)

\* Every step of the three programs keeps what is said of them.
LEMMA ScriptNext == ScriptInv /\ [Next]_vars => ScriptInv'
PROOF
<1> SUFFICES ASSUME ScriptInv, [Next]_vars PROVE ScriptInv'
  OBVIOUS
<1>1. CASE Open /\ UNCHANGED crackerVars
  <2>1. program \in {"encoder", "decoder"}
    BY <1>1 DEF Open, ScriptInv, CrackerOK
  <2> QED
    BY <1>1, <2>1, EncoderOpens, DecoderOpens
<1>2. CASE Read /\ UNCHANGED crackerVars
  <2>1. program \in {"encoder", "decoder"}
    BY <1>2 DEF Read, ScriptInv, CrackerOK
  <2>2. script \in {"roundTrip", "crack"}
    BY DEF ScriptInv, FilesOK, Script
  <2> QED
    BY <1>2, <2>1, <2>2, EncoderReads, DecoderReads, CrackedReads
<1>3. CASE (EncoderEnds \/ DecoderEnds) /\ UNCHANGED crackerVars
  BY <1>3, EncoderLeaves, DecoderLeaves
<1>4. CASE FindDistances \/ CalculateDivisors
  BY <1>4, CrackerFinds, CrackerCalculates
<1>5. CASE PredictKeyLength \/ Predicted
  BY <1>5, CrackerPredicts, CrackerDecides
<1>6. CASE CountLetters \/ WriteKey
  BY <1>6, CrackerCounts, CrackerWrites
<1>7. CASE UNCHANGED vars
  BY <1>7 DEF vars, cipherVars, crackerVars, searchVars, inputs, ScriptInv,
     FilesOK, EncoderOK, CrackerOK, DecoderOK
<1> QED
  BY <1>1, <1>2, <1>3, <1>4, <1>5, <1>6, <1>7 DEF Next

\* It holds for ever.
LEMMA ScriptInvariance == Spec => []ScriptInv
  BY ScriptStarts, ScriptNext, PTL DEF Spec

\* What is decoded with the key file of the encoder is the text, whatever is in
\* the text and in the key file.
THEOREM DecodingCorrect == Spec => []DecodedIsPrefix
PROOF
<1>1. ScriptInv => DecodedIsPrefix
  <2> SUFFICES ASSUME ScriptInv, script = "roundTrip" PROVE DecodedIsPrefix
    BY DEF DecodedIsPrefix
  <2>1. CASE program = "decoder"
    BY <2>1 DEF ScriptInv, DecoderOK, DecodedIsPrefix
  <2>2. CASE program = "encoder"
    <3>1. decoded = <<>> /\ exit # "0" /\ SubSeq(text, 1, 0) = <<>>
      BY <2>2 DEF ScriptInv, EncoderOK, FilesOK
    <3>2. Len(decoded) = 0
      BY <3>1
    <3> QED
      BY <3>1, <3>2 DEF DecodedIsPrefix
  <2> QED
    BY <2>1, <2>2 DEF ScriptInv, CrackerOK
<1> QED
  BY <1>1, ScriptInvariance, PTL

\* The index that the encoder carries along is that of the definition: the
\* number of letters before, around the key.
THEOREM EncodingCorrect == Spec => []EncodedByLetterCount
PROOF
<1>1. ScriptInv => EncodedByLetterCount
  <2> SUFFICES ASSUME ScriptInv, NEW i \in DOMAIN encoded
               PROVE  encoded[i] =
                        IF IsVigenereSupportedSymbol(text[i])
                          THEN [text[i] EXCEPT !.code =
                                 (@ + ReadVigenereKey(secret)
                                        [(Letters(SubSeq(text, 1, i - 1))
                                            % Letters(secret)) + 1])
                                   % AlphabetSize]
                          ELSE text[i]
    BY DEF EncodedByLetterCount
  <2>1. i \in 1 .. Len(encoded)
    BY DEF ScriptInv, FilesOK
  <2>2. /\ encoded[i] = Enciphered(text, secret, i)
        /\ IsLetter(text[i]) => Letters(secret) > 0
    BY <2>1 DEF ScriptInv, FilesOK
  <2>3. CASE IsLetter(text[i])
    <3>1. IndexAt(text, secret, i - 1) =
            Letters(SubSeq(text, 1, i - 1)) % Letters(secret)
      BY <2>2, <2>3 DEF IndexAt, LettersUpTo
    <3> QED
      BY <2>2, <2>3, <3>1 DEF Enciphered, ShiftAt, EncodeSymbol, IsLetter
  <2>4. CASE ~ IsLetter(text[i])
    BY <2>2, <2>4 DEF Enciphered, IsLetter
  <2> QED
    BY <2>3, <2>4
<1> QED
  BY <1>1, ScriptInvariance, PTL

\* The only way to read past the end of a key, or to divide by its length 0, is
\* an encoder with a key file without letters.
THEOREM CrashesCorrect == Spec => []CrashNeedsEmptyKey
PROOF
<1>1. ScriptInv => CrashNeedsEmptyKey
  <2> SUFFICES ASSUME ScriptInv, exit = "CRASH" PROVE CrashNeedsEmptyKey
    BY DEF CrashNeedsEmptyKey
  <2>1. program = "encoder"
    BY DEF ScriptInv, DecoderOK, CrackerOK, Running
  <2> QED
    BY <2>1 DEF ScriptInv, EncoderOK, CrashNeedsEmptyKey
<1> QED
  BY <1>1, ScriptInvariance, PTL

-----------------------------------------------------------------------------
(* Places of letters.                                                      *)

\* Between two places, what is counted is at most the distance, and all of it
\* exactly when there are letters only.
LEMMA LettersBetween ==
  ASSUME NEW S, NEW file \in Seq(S), NEW i \in 0 .. Len(file),
         NEW k \in i .. Len(file)
  PROVE  /\ LettersUpTo(file, i) <= LettersUpTo(file, k)
         /\ LettersUpTo(file, k) - LettersUpTo(file, i) <= k - i
         /\ (\A m \in i + 1 .. k : IsLetter(file[m]))
              <=> LettersUpTo(file, k) - LettersUpTo(file, i) = k - i
PROOF
<1> DEFINE N(n) == LettersUpTo(file, n)
           OK(n) == /\ N(i) <= N(n) /\ N(n) - N(i) <= n - i
                    /\ (\A m \in i + 1 .. n : IsLetter(file[m]))
                         <=> N(n) - N(i) = n - i
           T == {n \in 0 .. Len(file) : n >= i => OK(n)}
<1>1. /\ Len(file) \in Nat
      /\ \A n \in 0 .. Len(file) : N(n) \in Nat
      /\ \A n \in 0 .. Len(file) - 1 :
           N(n + 1) = N(n) + OneIf(IsLetter(file[n + 1]))
  BY LettersCount
<1> HIDE DEF N
<1>2. OK(i)
  BY <1>1
<1>3. 0 \in T
  BY <1>1, <1>2
<1>4. ASSUME NEW n \in T, n \in 0 .. Len(file) - 1
      PROVE  n + 1 \in T
  <2>1. CASE n + 1 <= i
    BY <1>1, <1>2, <1>4, <2>1
  <2>2. CASE n + 1 > i
    <3>1. OK(n) /\ n >= i /\ N(n) \in Nat /\ N(i) \in Nat /\ n \in Nat
      BY <1>1, <1>4, <2>2
    <3>2. N(n + 1) = N(n) + OneIf(IsLetter(file[n + 1]))
      BY <1>1, <1>4
    <3>3. (\A m \in i + 1 .. n + 1 : IsLetter(file[m])) <=>
            (\A m \in i + 1 .. n : IsLetter(file[m])) /\ IsLetter(file[n + 1])
      BY <3>1
    <3>4. CASE IsLetter(file[n + 1])
      <4>1. N(n + 1) = N(n) + 1
        BY <3>2, <3>4 DEF OneIf
      <4>2. OK(n + 1)
        <5> DEFINE All(m) == \A j \in i + 1 .. m : IsLetter(file[j])
        <5>1. All(n + 1) <=> All(n)
          BY <3>3, <3>4
        <5>2. All(n) <=> N(n) - N(i) = n - i
          BY <3>1
        <5>3. N(n) - N(i) = n - i <=> N(n + 1) - N(i) = (n + 1) - i
          <6>1. \A a, b, x, y \in Nat : a - b = x - y <=> (a + 1) - b = (x + 1) - y
            OBVIOUS
          <6>2. N(n) \in Nat /\ N(i) \in Nat /\ n \in Nat /\ i \in Nat
            BY <1>1, <3>1
          <6>3. N(n) - N(i) = n - i <=> (N(n) + 1) - N(i) = (n + 1) - i
            BY <6>1, <6>2
          <6> QED
            BY <4>1, <6>3
        <5>4. N(i) <= N(n + 1) /\ N(n + 1) - N(i) <= (n + 1) - i
          BY <3>1, <4>1
        <5> QED
          BY <5>1, <5>2, <5>3, <5>4
      <4> QED
        BY <4>2, <1>1, <1>4
    <3>5. CASE ~ IsLetter(file[n + 1])
      <4>1. N(n + 1) = N(n)
        BY <3>1, <3>2, <3>5 DEF OneIf
      <4>2. OK(n + 1)
        BY <3>1, <3>3, <3>5, <4>1
      <4> QED
        BY <4>2, <1>1, <1>4
    <3> QED
      BY <3>4, <3>5
  <2> QED
    BY <2>1, <2>2, <1>1, <1>4
<1>5. 0 .. Len(file) \subseteq T
  <2> HIDE DEF T
  <2> QED
    BY <1>1, <1>3, <1>4, BoundedInduction
<1>6. OK(k)
  <2>1. k \in T /\ k >= i
    BY <1>1, <1>5
  <2> QED
    BY <2>1
<1> QED
  BY <1>6 DEF N

\* Where the n-th letter is.
LEMMA PlacesOfLetters ==
  ASSUME NEW S, NEW file \in Seq(S)
  PROVE  /\ Len(LetterPlaces(file)) = Letters(file)
         /\ DOMAIN LetterPlaces(file) = 1 .. Letters(file)
         /\ \A n \in 1 .. Letters(file) :
              /\ LetterPlaces(file)[n] \in 1 .. Len(file)
              /\ IsLetter(file[LetterPlaces(file)[n]])
              /\ LettersUpTo(file, LetterPlaces(file)[n]) = n
         /\ \A i \in 1 .. Len(file) : IsLetter(file[i]) =>
              /\ LettersUpTo(file, i) \in 1 .. Letters(file)
              /\ LetterPlaces(file)[LettersUpTo(file, i)] = i
PROOF
<1> DEFINE N(n) == LettersUpTo(file, n)
           Is(i, n) == IsLetter(file[i]) /\ N(i) = n
           Found(k) == \A n \in 1 .. N(k) : \E i \in 1 .. k : Is(i, n)
           T == {k \in 0 .. Len(file) : Found(k)}
<1>1. /\ Len(file) \in Nat /\ DOMAIN file = 1 .. Len(file) /\ N(0) = 0
      /\ \A n \in 0 .. Len(file) : N(n) \in Nat
      /\ \A n \in 0 .. Len(file) - 1 :
           N(n + 1) = N(n) + OneIf(IsLetter(file[n + 1]))
      /\ Letters(file) = N(Len(file)) /\ Letters(file) \in Nat
  BY LettersCount, LettersOfAll
<1>2. \A i \in 0 .. Len(file) : \A k \in i .. Len(file) : N(i) <= N(k)
  BY LettersBetween
<1>3. LetterPlaces(file) =
        [n \in 1 .. Letters(file) |-> CHOOSE i \in 1 .. Len(file) : Is(i, n)]
  BY <1>1 DEF LetterPlaces, LettersUpTo, IsLetter
<1> HIDE DEF N
<1>4. 0 \in T
  BY <1>1
<1>5. ASSUME NEW k \in T, k \in 0 .. Len(file) - 1
      PROVE  k + 1 \in T
  <2>1. /\ k + 1 \in 1 .. Len(file) /\ N(k) \in Nat /\ k \in Nat
        /\ N(k + 1) = N(k) + OneIf(IsLetter(file[k + 1]))
        /\ Found(k)
    BY <1>1, <1>5
  <2>2. CASE IsLetter(file[k + 1])
    <3>1. N(k + 1) = N(k) + 1
      BY <2>1, <2>2 DEF OneIf
    <3>2. Is(k + 1, N(k) + 1)
      BY <2>2, <3>1
    <3>3. ASSUME NEW n \in 1 .. N(k + 1)
          PROVE  \E i \in 1 .. k + 1 : Is(i, n)
      <4>1. CASE n = N(k) + 1
        BY <2>1, <3>2, <4>1
      <4>2. CASE n # N(k) + 1
        <5>1. n \in 1 .. N(k)
          BY <2>1, <3>1, <4>2
        <5>2. PICK i \in 1 .. k : Is(i, n)
          BY <2>1, <5>1
        <5> QED
          BY <2>1, <5>2
      <4> QED
        BY <4>1, <4>2
    <3> QED
      BY <1>1, <1>5, <3>3
  <2>3. CASE ~ IsLetter(file[k + 1])
    <3>1. N(k + 1) = N(k)
      BY <2>1, <2>3 DEF OneIf
    <3>2. ASSUME NEW n \in 1 .. N(k + 1)
          PROVE  \E i \in 1 .. k + 1 : Is(i, n)
      <4>1. PICK i \in 1 .. k : Is(i, n)
        BY <2>1, <3>1
      <4> QED
        BY <2>1, <4>1
    <3> QED
      BY <1>1, <1>5, <3>2
  <2> QED
    BY <2>2, <2>3
<1>6. Found(Len(file))
  <2>1. 0 .. Len(file) \subseteq T
    <3> HIDE DEF T
    <3> QED
      BY <1>1, <1>4, <1>5, BoundedInduction
  <2>2. Len(file) \in T
    BY <1>1, <2>1
  <2> QED
    BY <2>2
<1>7. ASSUME NEW i \in 1 .. Len(file), NEW j \in 1 .. Len(file),
             IsLetter(file[i]), IsLetter(file[j]), N(i) = N(j)
      PROVE  i = j
  <2>1. ASSUME NEW a \in 1 .. Len(file), NEW b \in 1 .. Len(file),
               IsLetter(file[b]), a < b
        PROVE  N(a) < N(b)
    <3>1. b - 1 \in 0 .. Len(file) - 1 /\ (b - 1) + 1 = b
      BY <1>1
    <3>2. N(b) = N(b - 1) + 1 /\ N(b - 1) \in Nat
      BY <1>1, <2>1, <3>1 DEF OneIf
    <3>3. N(a) <= N(b - 1)
      BY <1>1, <1>2, <2>1
    <3>4. N(a) \in Nat
      BY <1>1
    <3> QED
      BY <3>2, <3>3, <3>4
  <2>2. N(i) \in Nat /\ N(j) \in Nat
    BY <1>1
  <2> QED
    BY <1>7, <2>1, <2>2
<1>8. ASSUME NEW n \in 1 .. Letters(file)
      PROVE  /\ LetterPlaces(file)[n] \in 1 .. Len(file)
             /\ Is(LetterPlaces(file)[n], n)
  <2>1. \E i \in 1 .. Len(file) : Is(i, n)
    BY <1>1, <1>6
  <2>2. LetterPlaces(file)[n] = CHOOSE i \in 1 .. Len(file) : Is(i, n)
    BY <1>3
  <2> HIDE DEF Is
  <2> QED
    BY <2>1, <2>2
<1>9. ASSUME NEW i \in 1 .. Len(file), IsLetter(file[i])
      PROVE  N(i) \in 1 .. Letters(file) /\ LetterPlaces(file)[N(i)] = i
  <2>1. i - 1 \in 0 .. Len(file) - 1 /\ (i - 1) + 1 = i
    BY <1>1
  <2>2. N(i) = N(i - 1) + 1 /\ N(i - 1) \in Nat
    BY <1>1, <1>9, <2>1 DEF OneIf
  <2>3. N(i) <= N(Len(file))
    BY <1>1, <1>2
  <2>4. N(i) \in 1 .. Letters(file)
    BY <1>1, <2>2, <2>3
  <2> QED
    BY <1>7, <1>8, <1>9, <2>4
<1> QED
  <2>1. Len(LetterPlaces(file)) = Letters(file)
    BY <1>1, <1>3
  <2> QED
    BY <1>3, <1>8, <1>9, <2>1 DEF N

-----------------------------------------------------------------------------
(* The search of the cracker for repeated substrings.                      *)

\* The substring of full length that ends with a place is of letters.
LettersBefore(p) ==
  /\ p >= SubsequenceLength
  /\ \A i \in p - SubsequenceLength + 1 .. p : IsLetter(encoded[i])

\* The window that ends with a letter, by the place of the letter.
LEMMA WindowEndsAt ==
  ASSUME NEW S, encoded \in Seq(S),
         NEW p \in 1 .. Len(encoded), IsLetter(encoded[p])
  PROVE  WindowAt(LettersUpTo(encoded, p)) =
           IF LettersBefore(p)
             THEN [i \in 1 .. SubsequenceLength |->
                     encoded[p - SubsequenceLength + i].code]
             ELSE <<>>
PROOF
<1> DEFINE L == SubsequenceLength
           at == LetterPlaces(encoded)
           N(i) == LettersUpTo(encoded, i)
           n == N(p)
           first == n - L + 1
<1>1. L \in Nat \ {0} /\ Len(encoded) \in Nat /\ p \in Nat
  BY CrackerAssumption
<1>2. /\ \A m \in 1 .. Letters(encoded) :
           at[m] \in 1 .. Len(encoded) /\ N(at[m]) = m
      /\ \A i \in 1 .. Len(encoded) : IsLetter(encoded[i]) =>
           N(i) \in 1 .. Letters(encoded) /\ at[N(i)] = i
      /\ Letters(encoded) \in Nat
  BY PlacesOfLetters, LettersOfAll
<1>3. /\ \A i \in 0 .. Len(encoded) : N(i) \in Nat
      /\ \A i \in 0 .. Len(encoded) : \A k \in i .. Len(encoded) :
           /\ (\A m \in i + 1 .. k : IsLetter(encoded[m])) =>
                N(k) = N(i) + (k - i)
           /\ N(k) = N(i) + (k - i) =>
                \A m \in i + 1 .. k : IsLetter(encoded[m])
  <2>1. \A i \in 0 .. Len(encoded) : N(i) \in Nat
    BY LettersCount
  <2>2. ASSUME NEW i \in 0 .. Len(encoded), NEW k \in i .. Len(encoded)
        PROVE  (\A m \in i + 1 .. k : IsLetter(encoded[m]))
                 <=> N(k) - N(i) = k - i
    BY LettersBetween
  <2> HIDE DEF N
  <2>3. ASSUME NEW i \in 0 .. Len(encoded), NEW k \in i .. Len(encoded)
        PROVE  N(k) - N(i) = k - i <=> N(k) = N(i) + (k - i)
    <3>1. N(i) \in Nat /\ N(k) \in Nat /\ i \in Nat /\ k \in Nat
      BY <1>1, <2>1
    <3>2. \A a, b, x, y \in Nat : a - b = x - y <=> a = b + (x - y)
      OBVIOUS
    <3> QED
      BY <3>1, <3>2
  <2> QED
    BY <2>1, <2>2, <2>3
<1>4. WindowAt(n) =
        IF n >= L /\ at[n] - at[first] = L - 1
          THEN [i \in 1 .. L |-> encoded[at[first + i - 1]].code]
          ELSE <<>>
  BY DEF WindowAt
<1> HIDE DEF N, at
<1>5. n \in 1 .. Letters(encoded) /\ at[n] = p /\ n \in Nat
  BY <1>2
<1>6. ASSUME LettersBefore(p)
      PROVE  /\ n >= L /\ at[n] - at[first] = L - 1
             /\ \A i \in 1 .. L : at[first + i - 1] = p - L + i
  <2>1. /\ p >= L /\ p - L \in 0 .. Len(encoded)
        /\ \A i \in p - L + 1 .. p : IsLetter(encoded[i])
    BY <1>1, <1>6 DEF LettersBefore
  <2>2. p \in (p - L) .. Len(encoded) /\ p - (p - L) = L
    BY <1>1, <2>1
  <2>3. N(p - L) \in Nat /\ n = N(p - L) + L
    <3>1. \A m \in (p - L) + 1 .. p : IsLetter(encoded[m])
      BY <2>1
    <3>2. N(p) = N(p - L) + (p - (p - L))
      BY <1>3, <2>1, <2>2, <3>1
    <3> QED
      BY <1>3, <2>1, <2>2, <3>2
  <2>4. ASSUME NEW i \in 1 .. L
        PROVE  at[first + i - 1] = p - L + i
    <3>1. p - L + i \in 1 .. Len(encoded) /\ IsLetter(encoded[p - L + i])
      BY <1>1, <2>1
    <3>2. \A m \in (p - L) + 1 .. p - L + i : IsLetter(encoded[m])
      BY <1>1, <2>1
    <3>3. /\ p - L + i \in (p - L) .. Len(encoded)
          /\ (p - L + i) - (p - L) = i
      BY <1>1, <2>1, <3>1
    <3>4. N(p - L + i) = N(p - L) + ((p - L + i) - (p - L))
      BY <1>3, <2>1, <3>2, <3>3
    <3>5. N(p - L + i) = first + i - 1
      BY <1>1, <2>3, <3>3, <3>4
    <3> QED
      BY <1>2, <3>1, <3>5
  <2>5. at[first] = p - L + 1
    <3>1. 1 \in 1 .. L /\ first + 1 - 1 = first
      BY <1>1, <1>5
    <3> QED
      BY <2>4, <3>1
  <2> QED
    BY <1>1, <1>5, <2>3, <2>4, <2>5
<1>7. ASSUME n >= L, at[n] - at[first] = L - 1
      PROVE  LettersBefore(p)
  <2>1. first \in 1 .. Letters(encoded) /\ first \in Nat
    BY <1>1, <1>2, <1>5, <1>7
  <2>2. at[first] \in 1 .. Len(encoded) /\ N(at[first]) = first
    BY <1>2, <2>1
  <2>3. at[first] = p - L + 1
    BY <1>1, <1>5, <1>7, <2>2
  <2>4. p \in at[first] .. Len(encoded) /\ at[first] \in 0 .. Len(encoded)
    BY <1>1, <2>2, <2>3
  <2>5. N(p) = N(at[first]) + (p - at[first])
    BY <1>1, <1>5, <2>2, <2>3
  <2>6. \A m \in at[first] + 1 .. p : IsLetter(encoded[m])
    BY <1>3, <2>4, <2>5
  <2>7. IsLetter(encoded[at[first]])
    BY <2>1, PlacesOfLetters DEF at
  <2>8. \A m \in p - L + 1 .. p : IsLetter(encoded[m])
    BY <1>1, <2>3, <2>6, <2>7
  <2> QED
    BY <1>1, <2>2, <2>3, <2>8 DEF LettersBefore
<1>8. CASE LettersBefore(p)
  <2>1. [i \in 1 .. L |-> encoded[at[first + i - 1]].code] =
          [i \in 1 .. L |-> encoded[p - L + i].code]
    BY <1>6, <1>8
  <2>2. WindowAt(n) = [i \in 1 .. L |-> encoded[at[first + i - 1]].code]
    BY <1>4, <1>6, <1>8
  <2> QED
    BY <1>8, <2>1, <2>2 DEF N
<1>9. CASE ~ LettersBefore(p)
  <2>1. WindowAt(n) = <<>>
    BY <1>4, <1>7, <1>9
  <2> QED
    BY <1>9, <2>1 DEF N
<1> QED
  BY <1>8, <1>9

\* The window is the run of letters before the place, as far as it fits.
WindowOK ==
  LET k == Len(currentString) IN
  /\ currentString \in Seq(Code)
  /\ k < SubsequenceLength /\ k <= position
  /\ \A i \in 1 .. k :
       /\ IsLetter(encoded[position - k + i])
       /\ currentString[i] = encoded[position - k + i].code
  /\ k < SubsequenceLength - 1 =>
       position = k \/ ~ IsLetter(encoded[position - k])

\* The table has the windows up to a letter, each with its last place.
Windows(n) == {WindowAt(i) : i \in 1 .. n} \ {<<>>}
OccurrencesOK(n) ==
  /\ DOMAIN occurrences = Windows(n)
  /\ \A window \in Windows(n) :
       /\ occurrences[window] \in 1 .. n
       /\ WindowAt(occurrences[window]) = window
       /\ \A k \in occurrences[window] + 1 .. n : WindowAt(k) # window

Gaps(n) == {gap \in (1 .. n) \X (1 .. n) : SeenNext(gap[1], gap[2])}
GapsOf(n, d) == {gap \in Gaps(n) : gap[2] - gap[1] = d}
DistancesOK(n) ==
  /\ DOMAIN distances = {gap[2] - gap[1] : gap \in Gaps(n)}
  /\ \A d \in DOMAIN distances : distances[d] = Cardinality(GapsOf(n, d))

\* The decoder runs with the key of the cracker.
Cracked == program = "decoder" /\ script = "crack"

SearchInv ==
  /\ program = "encoder" =>
       /\ currentString = <<>> /\ encodedPosition = 0
       /\ occurrences = <<>> /\ distances = <<>>
  /\ phase = "find" =>
       /\ position \in 0 .. Len(encoded)
       /\ encodedPosition = LettersUpTo(encoded, position)
       /\ WindowOK
       /\ OccurrencesOK(encodedPosition)
       /\ DistancesOK(encodedPosition)
  /\ phase \in {"predict", "count"} \/ Cracked =>
       DistancesOK(Letters(encoded))

\* The length is one of the divisors seen that are frequent enough, and no other
\* of those is greater.
Frequent(d) == 5 * Counts[d] >= 2 * Total
LengthOK(unseen) ==
  /\ keyLength # 0 => keyLength \in DOMAIN Counts /\ Frequent(keyLength)
  /\ \A d \in DOMAIN Counts \ unseen : Frequent(d) => d <= keyLength
PredictInv ==
  /\ program = "encoder" \/ phase = "find" => keyLength = 0
  /\ phase = "predict" => left \subseteq DOMAIN Counts /\ LengthOK(left)
  /\ phase = "count" \/ Cracked => LengthOK({})

-----------------------------------------------------------------------------

\* Substrings are not empty.
LEMMA LengthOfWindow == SubsequenceLength \in Nat \ {0}
  BY CrackerAssumption

\* With a letter, the window is still too short, or it is the substring that
\* ends with it.
LEMMA WindowFills ==
  ASSUME ScriptInv, WindowOK, position \in 0 .. Len(encoded) - 1,
         IsLetter(encoded[position + 1])
  PROVE  LET full == Append(currentString, encoded[position + 1].code)
             window == WindowAt(LettersUpTo(encoded, position + 1))
         IN  /\ full \in Seq(Code) /\ Len(full) = Len(currentString) + 1
             /\ IF Len(full) < SubsequenceLength THEN window = <<>>
                ELSE Len(full) = SubsequenceLength /\ window = full
             /\ full # <<>>
PROOF
<1> DEFINE L == SubsequenceLength
           k == Len(currentString)
           p == position + 1
           code == encoded[p].code
           full == Append(currentString, code)
           window == WindowAt(LettersUpTo(encoded, p))
<1>1. /\ L \in Nat \ {0} /\ position \in Nat /\ p \in 1 .. Len(encoded)
      /\ encoded \in Seq(Symbol)
  BY LengthOfWindow DEF ScriptInv, FilesOK
<1>2. /\ currentString \in Seq(Code) /\ k \in Nat
      /\ k < L /\ k <= position
      /\ \A i \in 1 .. k :
           /\ IsLetter(encoded[position - k + i])
           /\ currentString[i] = encoded[position - k + i].code
      /\ k < L - 1 => position = k \/ ~ IsLetter(encoded[position - k])
  BY DEF WindowOK
<1>3. code \in Code
  <2>1. encoded[p] \in Symbol
    BY <1>1
  <2> QED
    BY <2>1, SymbolKinds DEF Letter
<1>4. /\ full \in Seq(Code) /\ Len(full) = k + 1 /\ full[k + 1] = code
      /\ \A i \in 1 .. k : full[i] = currentString[i]
  BY <1>2, <1>3
<1>5. window = IF LettersBefore(p)
                 THEN [i \in 1 .. L |-> encoded[p - L + i].code] ELSE <<>>
  BY <1>1, WindowEndsAt
<1> HIDE DEF window, full
<1>6. full # <<>>
  BY <1>2, <1>4
<1>7. CASE k + 1 < L
  <2>1. ~ LettersBefore(p)
    <3>1. CASE position = k
      BY <1>1, <1>2, <1>7, <3>1 DEF LettersBefore
    <3>2. CASE ~ IsLetter(encoded[position - k])
      <4>1. position - k \in p - L + 1 .. p
        BY <1>1, <1>2, <1>7
      <4> QED
        BY <3>2, <4>1 DEF LettersBefore
    <3> QED
      BY <1>1, <1>2, <1>7, <3>1, <3>2
  <2> QED
    BY <1>1, <1>2, <1>4, <1>5, <1>6, <1>7, <2>1 DEF window, full
<1>8. CASE k + 1 = L
  <2>1. ASSUME NEW i \in p - L + 1 .. p
        PROVE  IsLetter(encoded[i])
    <3>1. CASE i = p
      BY <3>1
    <3>2. CASE i # p
      <4>1. i - (position - k) \in 1 .. k
        BY <1>1, <1>2, <1>8, <3>2
      <4>2. position - k + (i - (position - k)) = i
        BY <1>1, <1>2
      <4> QED
        BY <1>2, <4>1, <4>2
    <3> QED
      BY <3>1, <3>2
  <2>2. LettersBefore(p)
    BY <1>1, <1>2, <1>8, <2>1 DEF LettersBefore
  <2>3. ASSUME NEW i \in 1 .. L
        PROVE  full[i] = encoded[p - L + i].code
    <3>1. CASE i = L
      <4>1. p - L + i = p /\ i = k + 1
        BY <1>1, <1>2, <1>8, <3>1
      <4> QED
        BY <1>4, <4>1
    <3>2. CASE i # L
      <4>1. i \in Int /\ 1 <= i /\ i <= L
        BY <1>1, <2>3
      <4>2. i \in 1 .. k
        BY <1>2, <1>8, <3>2, <4>1
      <4>3. position \in Int /\ k \in Int /\ L = k + 1
        BY <1>1, <1>2, <1>8
      <4>4. position - k + i = p - L + i
        <5> HIDE DEF L, k
        <5> QED
          BY <4>1, <4>3
      <4> QED
        BY <1>2, <1>4, <4>2, <4>4
    <3> QED
      BY <3>1, <3>2
  <2>4. full = [i \in 1 .. L |-> full[i]]
    BY <1>1, <1>4, <1>8
  <2>5. full = [i \in 1 .. L |-> encoded[p - L + i].code]
    BY <2>3, <2>4
  <2>6. window = full
    BY <1>5, <2>2, <2>5
  <2>7. Len(full) = L /\ ~ (Len(full) < L)
    BY <1>1, <1>4, <1>8
  <2> QED
    BY <1>4, <1>6, <2>6, <2>7 DEF window, full
<1> QED
  BY <1>1, <1>2, <1>7, <1>8

\* It slides on.
LEMMA WindowSlides ==
  ASSUME ScriptInv, WindowOK, position \in 0 .. Len(encoded) - 1,
         position' = position + 1, encoded' = encoded,
         \/ BreakWindow /\ ~ IsLetter(encoded[position + 1])
         \/ /\ ExtendWindow(encoded[position + 1].code)
            /\ IsLetter(encoded[position + 1])
  PROVE  WindowOK'
PROOF
<1> DEFINE L == SubsequenceLength
           k == Len(currentString)
           p == position + 1
           full == Append(currentString, encoded[p].code)
<1>1. L \in Nat \ {0} /\ position \in Nat /\ p \in Nat
  BY LengthOfWindow
<1>2. CASE BreakWindow /\ ~ IsLetter(encoded[p])
  <2>1. currentString' = <<>> /\ Len(currentString') = 0
    BY <1>2 DEF BreakWindow
  <2> QED
    BY <1>1, <1>2, <2>1 DEF WindowOK
<1>3. CASE ExtendWindow(encoded[p].code) /\ IsLetter(encoded[p])
  <2>1. /\ full \in Seq(Code) /\ Len(full) = k + 1 /\ full[k + 1] = encoded[p].code
        /\ \A i \in 1 .. k : full[i] = currentString[i]
        /\ k + 1 < L \/ k + 1 = L
    BY <1>3, WindowFills DEF WindowOK
  <2>2. /\ k \in Nat /\ k < L /\ k <= position
        /\ \A i \in 1 .. k :
             /\ IsLetter(encoded[position - k + i])
             /\ currentString[i] = encoded[position - k + i].code
        /\ k < L - 1 => position = k \/ ~ IsLetter(encoded[position - k])
    BY DEF WindowOK
  <2>3. currentString' = IF Len(full) < L THEN full ELSE Tail(full)
    BY <1>3 DEF ExtendWindow, Slide
  <2> HIDE DEF full
  <2>4. ASSUME NEW i \in 1 .. k + 1
        PROVE  /\ IsLetter(encoded[position - k + i])
               /\ full[i] = encoded[position - k + i].code
    <3>1. CASE i = k + 1
      <4>1. position - k + i = p
        BY <1>1, <2>2, <3>1
      <4> QED
        BY <1>3, <2>1, <3>1, <4>1
    <3>2. CASE i # k + 1
      <4>1. i \in 1 .. k
        BY <2>2, <3>2
      <4> QED
        BY <2>1, <2>2, <4>1
    <3> QED
      BY <3>1, <3>2
  <2>5. CASE k + 1 < L
    <3>1. currentString' = full /\ Len(currentString') = k + 1
      BY <2>1, <2>3, <2>5
    <3>2. p - (k + 1) = position - k
      BY <1>1, <2>2
    <3>3. \A i \in 1 .. k + 1 :
            /\ IsLetter(encoded[p - (k + 1) + i])
            /\ full[i] = encoded[p - (k + 1) + i].code
      BY <2>4, <3>2
    <3>4. /\ k + 1 < L /\ k + 1 <= p
          /\ position = k \/ ~ IsLetter(encoded[p - (k + 1)])
          /\ position = k => p = k + 1
      BY <1>1, <2>2, <2>5, <3>2
    <3> QED
      BY <2>1, <3>1, <3>3, <3>4 DEF WindowOK
  <2>6. CASE k + 1 = L
    <3>1. currentString' = Tail(full)
      BY <1>1, <2>1, <2>3, <2>6
    <3>2. /\ Tail(full) \in Seq(Code) /\ Len(Tail(full)) = k
          /\ \A i \in 1 .. k : Tail(full)[i] = full[i + 1]
      BY <2>1, <2>2
    <3>3. ASSUME NEW i \in 1 .. k
          PROVE  /\ IsLetter(encoded[p - k + i])
                 /\ Tail(full)[i] = encoded[p - k + i].code
      <4>1. i + 1 \in 1 .. k + 1 /\ position - k + (i + 1) = p - k + i
        BY <1>1, <2>2
      <4> QED
        BY <2>4, <3>2, <4>1
    <3>4. k < L /\ k <= p /\ ~ (k < L - 1)
      BY <1>1, <2>2, <2>6
    <3> QED
      BY <3>1, <3>2, <3>3, <3>4 DEF WindowOK
  <2> QED
    BY <2>1, <2>5, <2>6
<1> QED
  BY <1>2, <1>3

\* What the definition says of a text holds as long as the text stays.
LEMMA WindowsKept ==
  ASSUME encoded' = encoded
  PROVE  /\ \A i : WindowAt(i)' = WindowAt(i)
         /\ \A n : Windows(n)' = Windows(n)
         /\ \A n : Gaps(n)' = Gaps(n)
         /\ \A n, d : GapsOf(n, d)' = GapsOf(n, d)
PROOF
<1>1. \A i : WindowAt(i)' = WindowAt(i)
  BY DEF WindowAt
<1>2. \A n : Windows(n)' = Windows(n)
  BY <1>1 DEF Windows
<1>3. \A i, j : SeenNext(i, j)' <=> SeenNext(i, j)
  BY <1>1 DEF SeenNext
<1>4. \A n : Gaps(n)' = Gaps(n)
  BY <1>3 DEF Gaps
<1> QED
  BY <1>1, <1>2, <1>4 DEF GapsOf

\* There are finitely many.
LEMMA GapsAreFinite ==
  ASSUME NEW n \in Nat
  PROVE  /\ IsFiniteSet(Gaps(n))
         /\ \A d : IsFiniteSet(GapsOf(n, d)) /\ Cardinality(GapsOf(n, d)) \in Nat
PROOF
<1>1. IsFiniteSet((1 .. n) \X (1 .. n))
  <2>1. IsFiniteSet(1 .. n)
    BY FS_Interval
  <2> QED
    BY <2>1, FS_Product
<1>2. Gaps(n) \subseteq (1 .. n) \X (1 .. n)
  BY DEF Gaps
<1>3. IsFiniteSet(Gaps(n))
  BY <1>1, <1>2, FS_Subset
<1>4. ASSUME NEW d
      PROVE  IsFiniteSet(GapsOf(n, d)) /\ Cardinality(GapsOf(n, d)) \in Nat
  <2>1. GapsOf(n, d) \subseteq Gaps(n)
    BY DEF GapsOf
  <2> QED
    BY <1>3, <2>1, FS_Subset, FS_CardinalityType
<1> QED
  BY <1>3, <1>4

\* A letter that ends no substring, or one that was not seen before, makes no gap.
LEMMA NoNewGap ==
  ASSUME NEW n \in Nat, WindowAt(n + 1) \notin Windows(n)
  PROVE  Gaps(n + 1) = Gaps(n)
PROOF
<1>1. ASSUME NEW i \in 1 .. n + 1, NEW j \in 1 .. n + 1, SeenNext(i, j)
      PROVE  i \in 1 .. n /\ j \in 1 .. n
  <2>1. /\ i < j /\ WindowAt(i) # <<>> /\ WindowAt(i) = WindowAt(j)
    BY <1>1 DEF SeenNext
  <2>2. i \in 1 .. n
    BY <2>1
  <2>3. WindowAt(i) \in Windows(n)
    BY <2>1, <2>2 DEF Windows
  <2>4. j # n + 1
    BY <2>1, <2>3
  <2> QED
    BY <2>2, <2>4
<1>2. 1 .. n \subseteq 1 .. n + 1
  OBVIOUS
<1> QED
  BY <1>1, <1>2 DEF Gaps

\* The next occurrence of a substring makes one, with its last.
LEMMA OneNewGap ==
  ASSUME NEW n \in Nat, OccurrencesOK(n), WindowAt(n + 1) \in Windows(n)
  PROVE  LET gap == <<occurrences[WindowAt(n + 1)], n + 1>> IN
         Gaps(n + 1) = Gaps(n) \cup {gap} /\ gap \notin Gaps(n)
PROOF
<1> DEFINE window == WindowAt(n + 1)
           last == occurrences[window]
<1>1. /\ last \in 1 .. n /\ WindowAt(last) = window /\ window # <<>>
      /\ \A k \in last + 1 .. n : WindowAt(k) # window
  BY DEF OccurrencesOK, Windows
<1> HIDE DEF last
<1>2. SeenNext(last, n + 1)
  BY <1>1 DEF SeenNext
<1>3. ASSUME NEW i \in 1 .. n + 1, NEW j \in 1 .. n + 1, SeenNext(i, j)
      PROVE  \/ i \in 1 .. n /\ j \in 1 .. n
             \/ i = last /\ j = n + 1
  <2>1. /\ i < j /\ WindowAt(i) = WindowAt(j)
        /\ \A k \in i + 1 .. j - 1 : WindowAt(k) # WindowAt(i)
    BY <1>3 DEF SeenNext
  <2>2. CASE j = n + 1
    <3>1. i \in 1 .. n /\ WindowAt(i) = window
      BY <2>1, <2>2
    <3>2. ~ (i < last)
      BY <1>1, <2>1, <2>2, <3>1
    <3>3. ~ (last < i)
      BY <1>1, <3>1
    <3> QED
      BY <1>1, <2>2, <3>1, <3>2, <3>3
  <2>3. CASE j # n + 1
    BY <2>1, <2>3
  <2> QED
    BY <2>2, <2>3
<1>4. \A gap \in Gaps(n + 1) : gap \in Gaps(n) \/ gap = <<last, n + 1>>
  <2> SUFFICES ASSUME NEW i \in 1 .. n + 1, NEW j \in 1 .. n + 1, SeenNext(i, j)
               PROVE  <<i, j>> \in Gaps(n) \/ <<i, j>> = <<last, n + 1>>
    BY DEF Gaps
  <2> QED
    BY <1>3 DEF Gaps
<1>5. Gaps(n) \subseteq Gaps(n + 1) /\ <<last, n + 1>> \in Gaps(n + 1)
  BY <1>1, <1>2 DEF Gaps
<1>6. <<last, n + 1>> \notin Gaps(n)
  BY DEF Gaps
<1> QED
  BY <1>4, <1>5, <1>6 DEF last

\* The table keeps the places, and the count the gaps.
LEMMA LetterFound ==
  ASSUME NEW n \in Nat, OccurrencesOK(n), DistancesOK(n), encoded' = encoded,
         NEW full, full # <<>>,
         \/ /\ WindowAt(n + 1) = <<>> /\ UNCHANGED <<occurrences, distances>>
         \/ /\ WindowAt(n + 1) = full
            /\ occurrences' = With(occurrences, full, n + 1)
            /\ distances' = IF full \in DOMAIN occurrences
                              THEN Increment(distances, (n + 1) - occurrences[full])
                              ELSE distances
  PROVE  OccurrencesOK(n + 1)' /\ DistancesOK(n + 1)'
PROOF
<1> DEFINE window == WindowAt(n + 1)
<1>1. /\ \A i : WindowAt(i)' = WindowAt(i)
      /\ \A m : Windows(m)' = Windows(m)
      /\ \A m : Gaps(m)' = Gaps(m)
      /\ \A m, d : GapsOf(m, d)' = GapsOf(m, d)
  BY WindowsKept
<1>2. Windows(n + 1) = (Windows(n) \cup {window}) \ {<<>>}
  <2>1. 1 .. n + 1 = (1 .. n) \cup {n + 1}
    OBVIOUS
  <2> QED
    BY <2>1 DEF Windows
<1>3. /\ DOMAIN occurrences = Windows(n)
      /\ \A w \in Windows(n) :
           /\ occurrences[w] \in 1 .. n
           /\ WindowAt(occurrences[w]) = w
           /\ \A k \in occurrences[w] + 1 .. n : WindowAt(k) # w
  BY DEF OccurrencesOK
<1>4. /\ DOMAIN distances = {gap[2] - gap[1] : gap \in Gaps(n)}
      /\ \A d \in DOMAIN distances : distances[d] = Cardinality(GapsOf(n, d))
  BY DEF DistancesOK
<1>5. <<>> \notin Windows(n)
  BY DEF Windows
<1>6. CASE window = <<>> /\ UNCHANGED <<occurrences, distances>>
  <2>1. Windows(n + 1) = Windows(n)
    BY <1>2, <1>5, <1>6
  <2>2. Gaps(n + 1) = Gaps(n)
    BY <1>5, <1>6, NoNewGap
  <2>3. \A d : GapsOf(n + 1, d) = GapsOf(n, d)
    BY <2>2 DEF GapsOf
  <2>4. ASSUME NEW w \in Windows(n)
        PROVE  /\ occurrences[w] \in 1 .. n + 1
               /\ \A k \in occurrences[w] + 1 .. n + 1 : WindowAt(k) # w
    <3>1. WindowAt(n + 1) # w
      BY <1>5, <1>6
    <3> QED
      BY <1>3, <3>1
  <2>5. OccurrencesOK(n + 1)'
    BY <1>1, <1>3, <1>6, <2>1, <2>4 DEF OccurrencesOK
  <2>6. DistancesOK(n + 1)'
    BY <1>1, <1>4, <1>6, <2>2, <2>3 DEF DistancesOK
  <2> QED
    BY <2>5, <2>6
<1>7. CASE /\ window = full
           /\ occurrences' = With(occurrences, full, n + 1)
           /\ distances' = IF full \in DOMAIN occurrences
                             THEN Increment(distances, (n + 1) - occurrences[full])
                             ELSE distances
  <2>1. Windows(n + 1) = Windows(n) \cup {full}
    BY <1>2, <1>5, <1>7
  <2>2. /\ DOMAIN occurrences' = Windows(n + 1)
        /\ \A w \in Windows(n + 1) :
             occurrences'[w] = IF w = full THEN n + 1 ELSE occurrences[w]
    BY <1>3, <1>7, <2>1 DEF With
  <2>3. ASSUME NEW w \in Windows(n + 1)
        PROVE  /\ occurrences'[w] \in 1 .. n + 1
               /\ WindowAt(occurrences'[w]) = w
               /\ \A k \in occurrences'[w] + 1 .. n + 1 : WindowAt(k) # w
    <3>1. CASE w = full
      BY <1>7, <2>2, <3>1
    <3>2. CASE w # full
      <4>1. w \in Windows(n) /\ occurrences'[w] = occurrences[w]
        BY <2>1, <2>2, <3>2
      <4>2. WindowAt(n + 1) # w
        BY <1>7, <3>2
      <4> QED
        BY <1>3, <4>1, <4>2
    <3> QED
      BY <3>1, <3>2
  <2>4. OccurrencesOK(n + 1)'
    BY <1>1, <2>2, <2>3 DEF OccurrencesOK
  <2>5. CASE full \notin DOMAIN occurrences
    <3>1. Gaps(n + 1) = Gaps(n) /\ distances' = distances
      BY <1>3, <1>7, <2>5, NoNewGap
    <3>2. \A d : GapsOf(n + 1, d) = GapsOf(n, d)
      BY <3>1 DEF GapsOf
    <3>3. DistancesOK(n + 1)'
      BY <1>1, <1>4, <3>1, <3>2 DEF DistancesOK
    <3> QED
      BY <2>4, <3>3
  <2>6. CASE full \in DOMAIN occurrences
    <3> DEFINE last == occurrences[full]
               distance == (n + 1) - last
               gap == <<last, n + 1>>
    <3>1. Gaps(n + 1) = Gaps(n) \cup {gap} /\ gap \notin Gaps(n)
      BY <1>3, <1>7, <2>6, OneNewGap
    <3>2. distances' = Increment(distances, distance)
      BY <1>7, <2>6
    <3>3. gap[2] - gap[1] = distance
      <4> HIDE DEF last
      <4>1. gap[1] = last /\ gap[2] = n + 1
        OBVIOUS
      <4> HIDE DEF gap
      <4> QED
        BY <4>1
    <3> HIDE DEF gap, distance
    <3>4. /\ DOMAIN distances' = DOMAIN distances \cup {distance}
          /\ \A d \in DOMAIN distances' :
               distances'[d] = (IF d \in DOMAIN distances THEN distances[d] ELSE 0)
                                 + (IF d = distance THEN 1 ELSE 0)
      BY <3>2 DEF Increment
    <3>5. DOMAIN distances' = {g[2] - g[1] : g \in Gaps(n + 1)}
      BY <1>4, <3>1, <3>3, <3>4
    <3>6. \A d : IF d = distance
                   THEN /\ GapsOf(n + 1, d) = GapsOf(n, d) \cup {gap}
                        /\ gap \notin GapsOf(n, d)
                   ELSE GapsOf(n + 1, d) = GapsOf(n, d)
      BY <3>1, <3>3 DEF GapsOf
    <3>7. ASSUME NEW d \in DOMAIN distances'
          PROVE  distances'[d] = Cardinality(GapsOf(n + 1, d))
      <4> DEFINE before == Cardinality(GapsOf(n, d))
      <4>1. IsFiniteSet(GapsOf(n, d)) /\ before \in Nat
        BY GapsAreFinite
      <4>2. (IF d \in DOMAIN distances THEN distances[d] ELSE 0) = before
        <5>1. CASE d \in DOMAIN distances
          BY <1>4, <5>1
        <5>2. CASE d \notin DOMAIN distances
          <6>1. GapsOf(n, d) = {}
            BY <1>4, <5>2 DEF GapsOf
          <6> QED
            BY <5>2, <6>1, FS_EmptySet
        <5> QED
          BY <5>1, <5>2
      <4>3. CASE d = distance
        <5>1. Cardinality(GapsOf(n + 1, d)) = before + 1
          BY <3>6, <4>1, <4>3, FS_AddElement
        <5> QED
          BY <3>4, <4>2, <4>3, <5>1
      <4>4. CASE d # distance
        <5>1. Cardinality(GapsOf(n + 1, d)) = before
          BY <3>6, <4>4
        <5> QED
          BY <3>4, <4>1, <4>2, <4>4, <5>1
      <4> QED
        BY <4>3, <4>4
    <3>8. DistancesOK(n + 1)'
      BY <1>1, <3>5, <3>7 DEF DistancesOK
    <3> QED
      BY <2>4, <3>8
  <2> QED
    BY <2>5, <2>6
<1> QED
  BY <1>6, <1>7

\* What is found of a text does not change unless something is found.
LEMMA FoundKept ==
  ASSUME NEW m, encoded' = encoded, UNCHANGED <<occurrences, distances>>
  PROVE  /\ OccurrencesOK(m) => OccurrencesOK(m)'
         /\ DistancesOK(m) => DistancesOK(m)'
PROOF
<1>1. /\ \A i : WindowAt(i)' = WindowAt(i)
      /\ \A n : Windows(n)' = Windows(n)
      /\ \A n : Gaps(n)' = Gaps(n)
      /\ \A n, d : GapsOf(n, d)' = GapsOf(n, d)
  BY WindowsKept
<1>2. OccurrencesOK(m) => OccurrencesOK(m)'
  BY <1>1 DEF OccurrencesOK
<1>3. DistancesOK(m) => DistancesOK(m)'
  BY <1>1 DEF DistancesOK
<1> QED
  BY <1>2, <1>3

\* The cracker reads a symbol.
LEMMA SearchFinds ==
  ASSUME ScriptInv, SearchInv, FindDistances
  PROVE  SearchInv'
PROOF
<1> DEFINE n == encodedPosition
           p == position + 1
<1>1. /\ phase = "find" /\ phase' = "find" /\ position < Len(encoded)
      /\ position' = p /\ UNCHANGED <<otherFiles, program>>
      /\ IF IsLetter(encoded[p]) THEN ExtendWindow(encoded[p].code)
                                 ELSE BreakWindow
  BY DEF FindDistances, IsLetter
<1>2. program' = "cracker"
  BY <1>1, CrackerRuns
<1>3. /\ position \in 0 .. Len(encoded) /\ n = LettersUpTo(encoded, position)
      /\ WindowOK /\ OccurrencesOK(n) /\ DistancesOK(n)
  BY <1>1 DEF SearchInv
<1>4. encoded' = encoded /\ encoded \in Seq(Symbol)
  BY <1>1 DEF otherFiles, ScriptInv, FilesOK
<1>5. position \in 0 .. Len(encoded) - 1 /\ p \in 0 .. Len(encoded')
  BY <1>1, <1>3, <1>4
<1>6. WindowOK'
  BY <1>1, <1>3, <1>4, <1>5, WindowSlides
<1>7. /\ n \in Nat
      /\ LettersUpTo(encoded, p) = n + OneIf(IsLetter(encoded[p]))
  BY <1>3, <1>4, <1>5, LettersCount
<1>8. /\ encodedPosition' = LettersUpTo(encoded, p)
      /\ OccurrencesOK(encodedPosition)' /\ DistancesOK(encodedPosition)'
  <2>1. CASE IsLetter(encoded[p])
    <3> DEFINE full == Append(currentString, encoded[p].code)
               window == WindowAt(n + 1)
    <3>1. ExtendWindow(encoded[p].code)
      BY <1>1, <2>1
    <3>2. LettersUpTo(encoded, p) = n + 1 /\ encodedPosition' = n + 1
      BY <1>7, <2>1, <3>1 DEF OneIf, ExtendWindow
    <3>3. /\ full # <<>>
          /\ IF Len(full) < SubsequenceLength THEN window = <<>>
             ELSE Len(full) = SubsequenceLength /\ window = full
      BY <1>3, <1>5, <2>1, <3>2, WindowFills
    <3>4. IF Len(full) < SubsequenceLength
            THEN UNCHANGED <<occurrences, distances>>
            ELSE /\ occurrences' = With(occurrences, full, n + 1)
                 /\ distances' =
                      IF full \in DOMAIN occurrences
                        THEN Increment(distances, (n + 1) - occurrences[full])
                        ELSE distances
      BY <3>1 DEF ExtendWindow
    <3> HIDE DEF full
    <3>5. \/ /\ window = <<>> /\ UNCHANGED <<occurrences, distances>>
          \/ /\ window = full
             /\ occurrences' = With(occurrences, full, n + 1)
             /\ distances' =
                  IF full \in DOMAIN occurrences
                    THEN Increment(distances, (n + 1) - occurrences[full])
                    ELSE distances
      BY <3>3, <3>4
    <3>6. PICK m \in Nat : m = n
      BY <1>7
    <3>7. OccurrencesOK(m + 1)' /\ DistancesOK(m + 1)'
      <4>1. OccurrencesOK(m) /\ DistancesOK(m)
        BY <1>3, <3>6
      <4>2. \/ /\ WindowAt(m + 1) = <<>> /\ UNCHANGED <<occurrences, distances>>
            \/ /\ WindowAt(m + 1) = full
               /\ occurrences' = With(occurrences, full, m + 1)
               /\ distances' =
                    IF full \in DOMAIN occurrences
                      THEN Increment(distances, (m + 1) - occurrences[full])
                      ELSE distances
        BY <3>5, <3>6
      <4>3. full # <<>> /\ encoded' = encoded
        BY <1>4, <3>3
      <4> HIDE DEF n, p
      <4> QED
        BY <4>1, <4>2, <4>3, LetterFound
    <3>8. encodedPosition' = m + 1
      BY <3>2, <3>6
    <3>9. OccurrencesOK(encodedPosition)'
      BY <3>7, <3>8 DEF OccurrencesOK
    <3>10. DistancesOK(encodedPosition)'
      BY <3>7, <3>8 DEF DistancesOK
    <3> QED
      BY <3>2, <3>9, <3>10
  <2>2. CASE ~ IsLetter(encoded[p])
    <3>1. UNCHANGED <<encodedPosition, occurrences, distances>>
      BY <1>1, <2>2 DEF BreakWindow
    <3>2. LettersUpTo(encoded, p) = n
      BY <1>7, <2>2 DEF OneIf
    <3>3. PICK m \in Nat : m = n
      BY <1>7
    <3>4. OccurrencesOK(m)' /\ DistancesOK(m)'
      BY <1>3, <1>4, <3>1, <3>3, FoundKept
    <3>5. encodedPosition' = m
      BY <3>1, <3>3
    <3> QED
      BY <3>1, <3>2, <3>4, <3>5 DEF OccurrencesOK, DistancesOK
  <2> QED
    BY <2>1, <2>2
<1> QED
  BY <1>1, <1>2, <1>4, <1>5, <1>6, <1>8 DEF SearchInv, Cracked

\* It begins with nothing read, when the encoder has ended.
LEMMA SearchBegins ==
  ASSUME ScriptInv, SearchInv, EncoderEnds, UNCHANGED crackerVars
  PROVE  SearchInv'
PROOF
<1>1. /\ program = "encoder" /\ position' = 0 /\ encoded' = encoded
      /\ \/ program' = "cracker" /\ phase' = "find"
         \/ /\ program' = "decoder" /\ phase' = "open"
            /\ script # "crack" /\ script' = script
  BY DEF EncoderEnds, inputs
<1>2. /\ currentString' = <<>> /\ encodedPosition' = 0
      /\ occurrences' = <<>> /\ distances' = <<>>
  BY <1>1 DEF SearchInv, crackerVars, searchVars
<1>3. encoded' \in Seq(Symbol) /\ 0 \in 0 .. Len(encoded')
  BY <1>1 DEF ScriptInv, FilesOK
<1>4. LettersUpTo(encoded', 0) = 0
  BY <1>3, LettersCount
<1>5. WindowOK'
  <2>1. Len(currentString') = 0 /\ currentString' \in Seq(Code)
    BY <1>2
  <2> QED
    BY <1>1, <2>1, LengthOfWindow DEF WindowOK
<1>6. OccurrencesOK(0)' /\ DistancesOK(0)'
  <2>1. Windows(0)' = {} /\ Gaps(0)' = {}
    BY DEF Windows, Gaps
  <2>2. DOMAIN occurrences' = {} /\ DOMAIN distances' = {}
    BY <1>2
  <2> QED
    BY <2>1, <2>2 DEF OccurrencesOK, DistancesOK
<1>7. OccurrencesOK(encodedPosition)' /\ DistancesOK(encodedPosition)'
  BY <1>2, <1>6 DEF OccurrencesOK, DistancesOK
<1> QED
  BY <1>1, <1>2, <1>3, <1>4, <1>5, <1>7 DEF SearchInv, Cracked

\* What was found stays.
LEMMA SearchEnds ==
  ASSUME ScriptInv, SearchInv, UNCHANGED <<encoded, searchVars>>,
         \/ phase = "find" /\ position = Len(encoded)
         \/ phase \in {"predict", "count"} \/ Cracked,
         phase' # "find", program' # "encoder"
  PROVE  SearchInv'
PROOF
<1>1. encoded \in Seq(Symbol)
  BY DEF ScriptInv, FilesOK
<1>2. Letters(encoded) = LettersUpTo(encoded, Len(encoded))
  BY <1>1, LettersOfAll
<1>3. DistancesOK(Letters(encoded))
  BY <1>2 DEF SearchInv, DistancesOK
<1>4. DistancesOK(Letters(encoded))'
  BY <1>3, WindowsKept DEF DistancesOK, searchVars
<1> QED
  BY <1>4 DEF SearchInv

\* Every step of the three programs keeps what was found.
LEMMA SearchNext == ScriptInv /\ SearchInv /\ [Next]_vars => SearchInv'
PROOF
<1> SUFFICES ASSUME ScriptInv, SearchInv, [Next]_vars PROVE SearchInv'
  OBVIOUS
<1>1. CASE (Open \/ Read \/ DecoderEnds) /\ UNCHANGED crackerVars
  <2>1. /\ program' = program /\ script' = script /\ UNCHANGED searchVars
        /\ program \in {"encoder", "decoder"} /\ phase' \in {"loop", "end"}
    BY <1>1 DEF Open, Read, DecoderEnds, Exit, ShiftLetter, CopyOther, inputs,
       crackerVars, ScriptInv, CrackerOK
  <2>2. CASE program = "encoder"
    BY <2>1, <2>2 DEF SearchInv, Cracked, searchVars
  <2>3. CASE program = "decoder"
    <3>1. encoded' = encoded
      BY <1>1, <2>3 DEF Open, Read, DecoderEnds, ShiftLetter, CopyOther, Put
    <3>2. CASE script = "crack"
      BY <2>1, <2>3, <3>1, <3>2, SearchEnds DEF Cracked
    <3>3. CASE script # "crack"
      BY <2>1, <2>3, <3>3 DEF SearchInv, Cracked
    <3> QED
      BY <3>2, <3>3
  <2> QED
    BY <2>1, <2>2, <2>3
<1>2. CASE EncoderEnds /\ UNCHANGED crackerVars
  BY <1>2, SearchBegins
<1>3. CASE FindDistances
  BY <1>3, SearchFinds
<1>4. CASE CalculateDivisors \/ PredictKeyLength \/ Predicted \/ CountLetters
             \/ WriteKey
  <2>1. /\ phase \in {"find", "predict", "count"}
        /\ phase = "find" => position = Len(encoded)
        /\ UNCHANGED <<encoded, searchVars>> /\ phase' # "find"
        /\ program' \in {program, "decoder"}
    BY <1>4 DEF CalculateDivisors, PredictKeyLength, Predicted, CountLetters,
       WriteKey, StartDecoder, otherFiles
  <2>2. program = "cracker"
    BY <2>1, CrackerRuns
  <2> QED
    BY <2>1, <2>2, SearchEnds
<1>5. CASE UNCHANGED vars
  <2>1. /\ UNCHANGED <<script, program, phase, position, encoded>>
        /\ UNCHANGED searchVars
    BY <1>5 DEF vars, cipherVars, crackerVars, inputs
  <2>2. WindowOK => WindowOK'
    BY <2>1 DEF WindowOK, searchVars
  <2>3. PICK m, n : m = encodedPosition /\ n = Letters(encoded)
    OBVIOUS
  <2>4. /\ OccurrencesOK(m) => OccurrencesOK(m)'
        /\ DistancesOK(m) => DistancesOK(m)'
        /\ DistancesOK(n) => DistancesOK(n)'
    BY <2>1, FoundKept DEF searchVars
  <2>5. m = encodedPosition' /\ n = Letters(encoded')
    BY <2>1, <2>3 DEF searchVars
  <2>6. /\ OccurrencesOK(encodedPosition) => OccurrencesOK(encodedPosition)'
        /\ DistancesOK(encodedPosition) => DistancesOK(encodedPosition)'
        /\ DistancesOK(Letters(encoded)) => DistancesOK(Letters(encoded))'
    BY <2>3, <2>4, <2>5 DEF OccurrencesOK, DistancesOK
  <2> QED
    BY <2>1, <2>2, <2>6 DEF SearchInv, Cracked, searchVars
<1> QED
  BY <1>1, <1>2, <1>3, <1>4, <1>5 DEF Next

\* It holds for ever.
LEMMA SearchInvariance == Spec => []SearchInv
PROOF
<1>1. Init => SearchInv
  BY DEF Init, CipherInit, SearchInv, Cracked
<1> QED
  BY <1>1, SearchNext, ScriptInvariance, PTL DEF Spec

\* The distances that the cracker counts are those of the definition, in every
\* text: those between an occurrence of a substring of letters and the next.
THEOREM DistancesCorrect == Spec => []DistancesAreGaps
PROOF
<1>1. ScriptInv /\ SearchInv => DistancesAreGaps
  <2> SUFFICES ASSUME ScriptInv, SearchInv, phase = "predict"
               PROVE  DistancesAreGaps
    BY DEF DistancesAreGaps
  <2> DEFINE n == Len(LetterPlaces(encoded))
  <2>1. n = Letters(encoded)
    BY PlacesOfLetters DEF ScriptInv, FilesOK
  <2>2. DistancesOK(n)
    BY <2>1 DEF SearchInv
  <2> HIDE DEF n
  <2>3. \A d : GapsOf(n, d) = {gap \in Gaps(n) : gap[2] - gap[1] = d}
    BY DEF GapsOf
  <2>4. /\ DOMAIN distances = {gap[2] - gap[1] : gap \in Gaps(n)}
        /\ \A d \in DOMAIN distances :
             distances[d] = Quantify(Gaps(n), LAMBDA gap : gap[2] - gap[1] = d)
    BY <2>2, <2>3 DEF DistancesOK, Quantify
  <2> QED
    BY <2>4 DEF DistancesAreGaps, Gaps, n
<1> QED
  BY <1>1, ScriptInvariance, SearchInvariance, PTL

-----------------------------------------------------------------------------
(* The length of the key.                                                  *)

\* What is counted of given distances.
CountsOf(found) ==
  [d \in UNION {DOMAIN Divisors(distance) : distance \in DOMAIN found} |->
     MapThenSumSet(LAMBDA distance :
                     IF d \in DOMAIN Divisors(distance) THEN Divisors(distance)[d] ELSE 0,
                   DOMAIN found)]
TotalOf(found) ==
  MapThenSumSet(LAMBDA distance : found[distance], DOMAIN found)

\* It depends on nothing else.
LEMMA CountsKept ==
  ASSUME distances' = distances
  PROVE  Counts' = Counts /\ \A d : Frequent(d)' <=> Frequent(d)
PROOF
<1>1. Counts = CountsOf(distances)
  BY DEF Counts, CountsOf
<1>2. Total = TotalOf(distances)
  BY DEF Total, TotalOf
<1>3. Counts' = CountsOf(distances')
  BY DEF Counts, CountsOf, MapThenSumSet, MapThenFoldSet
<1>4. Total' = TotalOf(distances')
  BY DEF Total, TotalOf, MapThenSumSet, MapThenFoldSet
<1>5. Counts' = Counts /\ Total' = Total
  BY <1>1, <1>2, <1>3, <1>4
<1> QED
  BY <1>5 DEF Frequent

\* The length is as good as it was.
LEMMA LengthKept ==
  ASSUME NEW unseen, LengthOK(unseen), UNCHANGED <<distances, keyLength>>
  PROVE  LengthOK(unseen)'
BY CountsKept DEF LengthOK

\* Every step of the three programs keeps what is said of the length.
LEMMA PredictNext == ScriptInv /\ PredictInv /\ [Next]_vars => PredictInv'
PROOF
<1> SUFFICES ASSUME ScriptInv, PredictInv, [Next]_vars PROVE PredictInv'
  OBVIOUS
<1>1. CASE (Open \/ Read \/ EncoderEnds \/ DecoderEnds) /\ UNCHANGED crackerVars
  <2>1. /\ script' = script /\ UNCHANGED <<distances, keyLength>>
        /\ program \in {"encoder", "decoder"}
        /\ phase' \in {"loop", "end", "find", "open"}
        /\ program' = program \/ program = "encoder"
        /\ Cracked' => Cracked
        /\ phase' = "find" => program = "encoder"
    BY <1>1 DEF Open, Read, EncoderEnds, DecoderEnds, Exit, ShiftLetter,
       CopyOther, inputs, crackerVars, searchVars, ScriptInv, CrackerOK, Cracked
  <2>2. Cracked' => LengthOK({})'
    BY <2>1, LengthKept DEF PredictInv
  <2> QED
    BY <2>1, <2>2 DEF PredictInv
<1>2. CASE FindDistances
  <2>1. phase = "find" /\ phase' = "find" /\ UNCHANGED <<program, keyLength>>
    BY <1>2 DEF FindDistances
  <2>2. program = "cracker"
    BY <2>1, CrackerRuns
  <2> QED
    BY <2>1, <2>2 DEF PredictInv, Cracked
<1>3. CASE CalculateDivisors
  <2>1. /\ phase = "find" /\ phase' = "predict" /\ left' = DOMAIN Counts
        /\ UNCHANGED <<program, distances, keyLength>>
    BY <1>3 DEF CalculateDivisors, searchVars
  <2>2. program = "cracker" /\ keyLength = 0
    BY <2>1, CrackerRuns DEF PredictInv
  <2>3. LengthOK(left)'
    BY <2>1, <2>2, CountsKept DEF LengthOK
  <2> QED
    BY <2>1, <2>2, <2>3, CountsKept DEF PredictInv, Cracked
<1>4. CASE PredictKeyLength
  <2>1. PICK divisor \in left :
          /\ left' = left \ {divisor}
          /\ keyLength' = IF Better(divisor) THEN divisor ELSE keyLength
    BY <1>4 DEF PredictKeyLength
  <2>2. /\ phase = "predict" /\ phase' = "predict"
        /\ UNCHANGED <<program, distances>>
    BY <1>4 DEF PredictKeyLength, searchVars
  <2>3. program = "cracker"
    BY <2>2, CrackerRuns
  <2>4. /\ keyLength # 0 => keyLength \in DOMAIN Counts /\ Frequent(keyLength)
        /\ \A d \in DOMAIN Counts \ left : Frequent(d) => d <= keyLength
    BY <2>2 DEF PredictInv, LengthOK
  <2>5. DOMAIN Counts \subseteq Nat /\ left \subseteq Nat /\ keyLength \in Nat
    BY CountedAreNumbers DEF ScriptInv, CrackerOK
  <2>6. Better(divisor) <=> divisor > keyLength /\ Frequent(divisor)
    BY DEF Better, Frequent
  <2>7. ASSUME NEW d \in DOMAIN Counts \ left', Frequent(d)
        PROVE  d <= keyLength'
    <3>1. d = divisor \/ d <= keyLength
      BY <2>1, <2>4, <2>7
    <3>2. d \in Nat /\ divisor \in Nat
      BY <2>5
    <3>3. CASE Better(divisor)
      BY <2>1, <2>5, <2>6, <3>1, <3>2, <3>3
    <3>4. CASE ~ Better(divisor)
      BY <2>1, <2>5, <2>6, <2>7, <3>1, <3>2, <3>4
    <3> QED
      BY <3>3, <3>4
  <2>8. left \subseteq DOMAIN Counts
    BY <2>2 DEF PredictInv
  <2>9. keyLength' # 0 => keyLength' \in DOMAIN Counts /\ Frequent(keyLength')
    BY <2>1, <2>4, <2>6, <2>8
  <2>10. LengthOK(left)'
    <3>1. Counts' = Counts /\ \A d : Frequent(d)' <=> Frequent(d)
      BY <2>2, CountsKept
    <3>2. \A d \in DOMAIN Counts' \ left' : Frequent(d)' => d <= keyLength'
      BY <2>7, <3>1
    <3>3. PICK l : l = keyLength'
      OBVIOUS
    <3>4. l # 0 => l \in DOMAIN Counts' /\ Frequent(l)'
      BY <2>9, <3>1, <3>3
    <3>5. Frequent(keyLength)' <=> Frequent(l)'
      BY <3>3 DEF Frequent
    <3> QED
      BY <3>2, <3>3, <3>4, <3>5 DEF LengthOK
  <2> QED
    BY <2>1, <2>2, <2>3, <2>8, <2>10, CountsKept DEF PredictInv, Cracked
<1>5. CASE Predicted
  <2>1. /\ phase = "predict" /\ left = {}
        /\ UNCHANGED <<distances, keyLength>>
        /\ \/ program' = "decoder" /\ phase' = "open"
           \/ program' = program /\ phase' = "count"
    BY <1>5 DEF Predicted, StartDecoder, searchVars
  <2>2. program = "cracker"
    BY <2>1, CrackerRuns
  <2>3. LengthOK({})
    BY <2>1 DEF PredictInv
  <2> QED
    BY <2>1, <2>2, <2>3, LengthKept DEF PredictInv, Cracked
<1>6. CASE CountLetters \/ WriteKey
  <2>1. /\ phase = "count"
        /\ UNCHANGED <<distances, keyLength>>
        /\ \/ program' = "decoder" /\ phase' = "open"
           \/ program' = program /\ phase' = "count"
    BY <1>6 DEF CountLetters, WriteKey, StartDecoder, searchVars
  <2>2. program = "cracker"
    BY <2>1, CrackerRuns
  <2>3. LengthOK({})
    BY <2>1 DEF PredictInv
  <2> QED
    BY <2>1, <2>2, <2>3, LengthKept DEF PredictInv, Cracked
<1>7. CASE UNCHANGED vars
  <2>1. UNCHANGED <<script, program, phase, left, distances, keyLength>>
    BY <1>7 DEF vars, cipherVars, crackerVars, inputs, searchVars
  <2>2. PICK l : l = left
    OBVIOUS
  <2>3. LengthOK(l) => LengthOK(l)'
    BY <2>1, LengthKept
  <2>4. LengthOK(left) => LengthOK(left)'
    BY <2>1, <2>2, <2>3 DEF LengthOK
  <2>5. LengthOK({}) => LengthOK({})'
    BY <2>1, LengthKept
  <2> QED
    BY <2>1, <2>4, <2>5, CountsKept DEF PredictInv, Cracked
<1> QED
  BY <1>1, <1>2, <1>3, <1>4, <1>5, <1>6, <1>7 DEF Next

\* It holds for ever.
LEMMA PredictInvariance == Spec => []PredictInv
PROOF
<1>1. Init => PredictInv
  BY DEF Init, CipherInit, PredictInv, Cracked
<1> QED
  BY <1>1, PredictNext, ScriptInvariance, PTL DEF Spec

\* A sum over a finite set is the number of its units.
LEMMA SumOfValues ==
  ASSUME NEW D, IsFiniteSet(D), NEW g, \A x \in D : g[x] \in Nat
  PROVE  MapThenSumSet(LAMBDA x : g[x], D) = Cardinality(Units(g, D))
PROOF
<1> DEFINE f == [x \in D |-> g[x]]
           chosen == CHOOSE sum : IsSum(sum, D, g)
<1>1. f \in [D -> Nat]
  OBVIOUS
<1>2. \A s \in SUBSET D : s # {} => f[Chosen(s)] = g[Chosen(s)]
  BY DEF Chosen
<1>3. \A sum : IsSum(sum, D, f) <=> IsSum(sum, D, g)
  BY <1>2 DEF IsSum
<1>4. Units(f, D) = Units(g, D)
  BY DEF Units
<1> HIDE DEF f
<1>5. IsSum(chosen, D, g)
  <2>1. \E sum : IsSum(sum, D, g)
    BY <1>1, <1>3, SumsCount
  <2> QED
    BY <2>1, Zenon
<1>6. chosen[D] = Cardinality(Units(g, D))
  BY <1>1, <1>3, <1>4, <1>5, SumsCount
<1>7. MapThenSumSet(LAMBDA x : g[x], D) = chosen[D]
  BY DEF MapThenSumSet, MapThenFoldSet, IsSum, Chosen
<1> QED
  BY <1>6, <1>7

\* What the divisors of the distances are counted with.
Weight(d) ==
  [distance \in DOMAIN distances |->
     IF d \in DOMAIN Divisors(distance) THEN Divisors(distance)[d] ELSE 0]

LEMMA CountsAreUnits ==
  ASSUME IsFiniteSet(DOMAIN distances), NEW d \in DOMAIN Counts
  PROVE  /\ Counts[d] = Cardinality(Units(Weight(d), DOMAIN distances))
         /\ Weight(d) \in [DOMAIN distances -> 0 .. 2]
PROOF
<1> DEFINE D == DOMAIN distances
           value(distance) ==
             IF d \in DOMAIN Divisors(distance) THEN Divisors(distance)[d] ELSE 0
           weight == Weight(d)
<1>1. \A distance \in D : value(distance) \in 0 .. 2
  BY DEF Divisors
<1>2. weight \in [D -> 0 .. 2] /\ \A x \in D : weight[x] = value(x)
  BY <1>1 DEF Weight
<1>3. MapThenSumSet(LAMBDA x : weight[x], D) = Cardinality(Units(weight, D))
  <2>1. \A x \in D : weight[x] \in Nat
    BY <1>2
  <2> HIDE DEF D, weight
  <2> QED
    BY <2>1, SumOfValues DEF D
<1>4. Counts[d] = MapThenSumSet(LAMBDA x : value(x), D)
  BY DEF Counts
<1>5. MapThenSumSet(LAMBDA x : value(x), D) =
        MapThenSumSet(LAMBDA x : weight[x], D)
  <2> DEFINE IsValues(sum) ==
               sum = [s \in SUBSET D |-> IF s = {} THEN 0
                                         ELSE value(Chosen(s)) + sum[s \ {Chosen(s)}]]
             IsWeights(sum) ==
               sum = [s \in SUBSET D |-> IF s = {} THEN 0
                                         ELSE weight[Chosen(s)] + sum[s \ {Chosen(s)}]]
  <2>1. \A s \in SUBSET D : s # {} => value(Chosen(s)) = weight[Chosen(s)]
    BY <1>2 DEF Chosen
  <2>2. MapThenSumSet(LAMBDA x : value(x), D) = (CHOOSE sum : IsValues(sum))[D]
    BY DEF MapThenSumSet, MapThenFoldSet, Chosen
  <2>3. MapThenSumSet(LAMBDA x : weight[x], D) = (CHOOSE sum : IsWeights(sum))[D]
    BY DEF MapThenSumSet, MapThenFoldSet, Chosen
  <2> HIDE DEF value, weight
  <2>4. \A sum : IsValues(sum) <=> IsWeights(sum)
    BY <2>1
  <2>5. (CHOOSE sum : IsValues(sum)) = (CHOOSE sum : IsWeights(sum))
    <3> HIDE DEF IsValues, IsWeights
    <3> QED
      BY <2>4, Zenon
  <2> QED
    BY <2>2, <2>3, <2>5
<1> QED
  BY <1>2, <1>3, <1>4, <1>5

\* There are finitely many distances, and each of them was found.
LEMMA DistancesAreFound ==
  ASSUME NEW n \in Nat, DistancesOK(n)
  PROVE  /\ IsFiniteSet(DOMAIN distances) /\ DOMAIN distances \subseteq Nat \ {0}
         /\ \A d \in DOMAIN distances : distances[d] \in Nat \ {0}
PROOF
<1> DEFINE D == {gap[2] - gap[1] : gap \in Gaps(n)}
           distance == [gap \in Gaps(n) |-> gap[2] - gap[1]]
<1>1. DOMAIN distances = D
  BY DEF DistancesOK
<1>2. IsFiniteSet(D)
  <2>1. distance \in Surjection(Gaps(n), D)
    BY DEF Surjection
  <2> QED
    BY <2>1, GapsAreFinite, FS_Surjection
<1>3. \A gap \in Gaps(n) : gap[2] - gap[1] \in Nat \ {0}
  BY DEF Gaps, SeenNext
<1>4. ASSUME NEW d \in DOMAIN distances
      PROVE  distances[d] \in Nat \ {0}
  <2>1. PICK gap \in Gaps(n) : d = gap[2] - gap[1]
    BY <1>1
  <2>2. gap \in GapsOf(n, d)
    BY <2>1 DEF GapsOf
  <2>3. /\ IsFiniteSet(GapsOf(n, d)) /\ Cardinality(GapsOf(n, d)) \in Nat
    BY GapsAreFinite
  <2>4. Cardinality(GapsOf(n, d)) # 0
    BY <2>2, <2>3, FS_EmptySet
  <2> QED
    BY <2>3, <2>4 DEF DistancesOK
<1> QED
  BY <1>1, <1>2, <1>3, <1>4

\* A square is a multiple.
LEMMA SquareDivides ==
  ASSUME NEW x \in Nat, x > 1
  PROVE  (x * x) % x = 0 /\ x * x # x
PROOF
<1>1. x * x = x * x + 0 /\ 0 \in 0 .. x - 1 /\ x * x \in Nat
  OBVIOUS
<1>2. (x * x) % x = 0
  BY <1>1, Remainder
<1>3. (x - 1) * x >= x /\ x * x = (x - 1) * x + x
  OBVIOUS
<1> QED
  BY <1>2, <1>3

\* What is counted are the proper divisors of the distances.
LEMMA CountedAreDivisors ==
  ASSUME NEW n \in Nat, DistancesOK(n), NEW x
  PROVE  x \in DOMAIN Counts <=> x \in Nat /\ x > 1 /\ Multiples(x) # {}
PROOF
<1>1. DOMAIN distances \subseteq Nat \ {0}
  BY DistancesAreFound
<1>2. x \in DOMAIN Counts <=> \E d \in DOMAIN distances : x \in DOMAIN Divisors(d)
  BY DEF Counts
<1>3. ASSUME NEW d \in DOMAIN distances
      PROVE  x \in DOMAIN Divisors(d) <=>
               x \in Nat /\ x > 1 /\ d % x = 0 /\ d # x
  <2>1. x \in DOMAIN Divisors(d) <=> x \in 2 .. d - 1 /\ d % x = 0
    BY DEF Divisors
  <2>2. d \in Nat \ {0}
    BY <1>1
  <2>3. ASSUME x \in Nat, x > d PROVE d % x # 0
    BY <2>2, <2>3
  <2> QED
    BY <2>1, <2>2, <2>3
<1> QED
  BY <1>2, <1>3 DEF Multiples

\* Each is counted once for a distance, and twice for its square.
LEMMA CountedTimes ==
  ASSUME NEW n \in Nat, DistancesOK(n), NEW x \in DOMAIN Counts
  PROVE  Counts[x] = TimesCounted(x)
PROOF
<1> DEFINE D == DOMAIN distances
           M == Multiples(x)
           W == Weight(x)
           once == {<<d, 1>> : d \in M}
           square == x * x
<1>1. IsFiniteSet(D) /\ D \subseteq Nat \ {0} /\ x \in Nat /\ x > 1
  BY DistancesAreFound, CountedAreDivisors
<1>2. M \subseteq D /\ IsFiniteSet(M)
  BY <1>1, FS_Subset DEF Multiples
<1>3. Counts[x] = Cardinality(Units(W, D))
  BY <1>1, CountsAreUnits
<1>4. IsFiniteSet(once) /\ Cardinality(once) = Cardinality(M)
  <2> DEFINE f == [d \in M |-> <<d, 1>>]
  <2>1. f \in Bijection(M, once)
    BY DEF Bijection, Injection, Surjection, IsInjective
  <2> HIDE DEF f, M, once
  <2> QED
    BY <1>2, <2>1, FS_Bijection DEF ExistsBijection
<1>5. ASSUME NEW d \in D
      PROVE  W[d] = IF d \in M THEN IF d = square THEN 2 ELSE 1 ELSE 0
  <2>1. d \in Nat \ {0}
    BY <1>1
  <2>2. x > d => d % x # 0
    BY <1>1, <2>1
  <2>3. x \in DOMAIN Divisors(d) <=> d \in M
    BY <1>1, <2>1, <2>2 DEF Divisors, Multiples
  <2>4. x \in DOMAIN Divisors(d) =>
          Divisors(d)[x] = IF d = square THEN 2 ELSE 1
    BY DEF Divisors
  <2>5. W[d] = IF x \in DOMAIN Divisors(d) THEN Divisors(d)[x] ELSE 0
    BY DEF Weight
  <2> QED
    BY <2>3, <2>4, <2>5
<1>6. square \in D => square \in M
  <2>1. square % x = 0 /\ square # x
    BY <1>1, SquareDivides
  <2> QED
    BY <2>1 DEF Multiples
<1> HIDE DEF M, W, square
<1>7. CASE square \in D
  <2>1. Units(W, D) = once \cup {<<square, 2>>}
    <3>1. ASSUME NEW d \in D, NEW i \in 1 .. W[d]
          PROVE  <<d, i>> \in once \cup {<<square, 2>>}
      <4>1. d \in M /\ (i = 1 \/ (d = square /\ i = 2))
        BY <1>5
      <4> QED
        BY <4>1
    <3>2. ASSUME NEW d \in M PROVE <<d, 1>> \in Units(W, D)
      <4>1. d \in D /\ 1 \in 1 .. W[d]
        BY <1>2, <1>5
      <4> QED
        BY <4>1 DEF Units
    <3>3. <<square, 2>> \in Units(W, D)
      <4>1. 2 \in 1 .. W[square]
        BY <1>5, <1>6, <1>7
      <4> QED
        BY <4>1, <1>7 DEF Units
    <3> QED
      BY <3>1, <3>2, <3>3 DEF Units
  <2>2. <<square, 2>> \notin once
    OBVIOUS
  <2>3. Cardinality(Units(W, D)) = Cardinality(M) + 1
    BY <1>4, <2>1, <2>2, FS_AddElement
  <2> QED
    BY <1>3, <1>7, <2>3 DEF TimesCounted, M, square
<1>8. CASE square \notin D
  <2>1. Units(W, D) = once
    <3>1. ASSUME NEW d \in D, NEW i \in 1 .. W[d]
          PROVE  <<d, i>> \in once
      <4>1. d \in M /\ i = 1
        BY <1>5, <1>8
      <4> QED
        BY <4>1
    <3>2. ASSUME NEW d \in M PROVE <<d, 1>> \in Units(W, D)
      <4>1. d \in D /\ 1 \in 1 .. W[d]
        BY <1>2, <1>5
      <4> QED
        BY <4>1 DEF Units
    <3> QED
      BY <3>1, <3>2 DEF Units
  <2>2. Cardinality(M) \in Nat
    BY <1>2, FS_CardinalityType
  <2>3. TimesCounted(x) = Cardinality(M) + 0
    BY <1>8 DEF TimesCounted, M, square
  <2> QED
    BY <1>3, <1>4, <2>1, <2>2, <2>3
<1> QED
  BY <1>7, <1>8

\* A number that is counted often divides as many of the distances found, unless
\* it is counted twice for its square.
LEMMA CountedDivide ==
  ASSUME NEW n \in Nat, DistancesOK(n), NEW k \in DOMAIN Counts, Frequent(k),
         k * k \notin DOMAIN distances
  PROVE  5 * Divided(k) >= 2 * Total
PROOF
<1> DEFINE D == DOMAIN distances
           T == {d \in D : d % k = 0}
<1>1. /\ IsFiniteSet(D) /\ D \subseteq Nat \ {0}
      /\ \A d \in D : distances[d] \in Nat \ {0}
  BY DistancesAreFound
<1>2. T \subseteq D /\ IsFiniteSet(T)
  BY <1>1, FS_Subset
<1>3. /\ Counts[k] = Cardinality(Units(Weight(k), D))
      /\ Weight(k) \in [D -> 0 .. 2]
  BY <1>1, CountsAreUnits
<1>4. Total = Cardinality(Units(distances, D))
  BY <1>1, SumOfValues DEF Total
<1>5. Divided(k) = Cardinality(Units(distances, T))
  BY <1>1, <1>2, SumOfValues DEF Divided
<1>6. ASSUME NEW distance \in D, Weight(k)[distance] # 0
      PROVE  distance \in T /\ Weight(k)[distance] = 1
  <2>1. k \in DOMAIN Divisors(distance) /\ Weight(k)[distance] = Divisors(distance)[k]
    BY <1>6 DEF Weight
  <2>2. distance % k = 0 /\ k * k # distance
    BY <2>1 DEF Divisors
  <2> QED
    BY <2>1, <2>2 DEF Divisors
<1>7. Units(Weight(k), D) \subseteq Units(distances, T)
  <2> SUFFICES ASSUME NEW x \in D, NEW i \in 1 .. Weight(k)[x]
               PROVE  <<x, i>> \in Units(distances, T)
    BY DEF Units
  <2>1. Weight(k)[x] # 0
    BY <1>3
  <2>2. x \in T /\ i = 1 /\ distances[x] \in Nat \ {0}
    BY <1>1, <1>6, <2>1
  <2>3. i \in 1 .. distances[x]
    BY <2>2
  <2> HIDE DEF T
  <2> QED
    BY <2>2, <2>3 DEF Units
<1>8. /\ IsFiniteSet(Units(distances, T))
      /\ Cardinality(Units(distances, T)) \in Nat
      /\ Cardinality(Units(distances, D)) \in Nat
  <2> DEFINE f == [d \in D |-> distances[d]]
  <2>1. f \in [D -> Nat]
    BY <1>1
  <2>2. Units(f, T) = Units(distances, T) /\ Units(f, D) = Units(distances, D)
    BY <1>2 DEF Units
  <2> HIDE DEF f, D, T
  <2>3. T \in SUBSET D /\ D \in SUBSET D
    BY <1>2
  <2> QED
    BY <1>1, <2>1, <2>2, <2>3, UnitsCount
<1>9. Counts[k] <= Divided(k) /\ Counts[k] \in Nat
  <2>1. /\ Cardinality(Units(Weight(k), D)) <= Cardinality(Units(distances, T))
        /\ IsFiniteSet(Units(Weight(k), D))
    BY <1>7, <1>8, FS_Subset
  <2> QED
    BY <1>3, <1>5, <2>1, FS_CardinalityType
<1>10. Divided(k) \in Nat /\ Total \in Nat
  BY <1>4, <1>5, <1>8
<1> QED
  BY <1>9, <1>10 DEF Frequent

\* The length predicted is the greatest number of which often enough the
\* multiples are distances, in whatever order the loop takes the divisors, and
\* it divides enough of the distances, unless its square is one.
THEOREM PredictionCorrect == Spec => []PredictionDivides
PROOF
<1>1. ScriptInv /\ SearchInv /\ PredictInv => PredictionDivides
  <2> SUFFICES ASSUME ScriptInv, SearchInv, PredictInv, Cracked
               PROVE  PredictionDivides
    BY DEF PredictionDivides, Cracked
  <2>1. LengthOK({}) /\ DistancesOK(Letters(encoded))
    BY DEF PredictInv, SearchInv
  <2>2. Letters(encoded) \in Nat
    BY LettersOfAll DEF ScriptInv, FilesOK
  <2>3. ASSUME NEW x
        PROVE  /\ x \in Nat /\ x > 1 /\ OftenEnough(x) =>
                    x \in DOMAIN Counts /\ Frequent(x)
               /\ x \in DOMAIN Counts /\ Frequent(x) =>
                    x \in Nat /\ x > 1 /\ OftenEnough(x)
    <3>1. x \in DOMAIN Counts <=> x \in Nat /\ x > 1 /\ Multiples(x) # {}
      BY <2>1, <2>2, CountedAreDivisors
    <3>2. x \in DOMAIN Counts => Counts[x] = TimesCounted(x)
      BY <2>1, <2>2, CountedTimes
    <3> QED
      BY <3>1, <3>2 DEF OftenEnough, Frequent
  <2>5. \A x \in 2 .. Len(encoded) : OftenEnough(x) => x <= keyLength
    <3> SUFFICES ASSUME NEW x \in 2 .. Len(encoded), OftenEnough(x)
                 PROVE  x <= keyLength
      OBVIOUS
    <3>1. x \in Nat /\ x > 1
      BY LettersOfAll DEF ScriptInv, FilesOK
    <3>2. x \in DOMAIN Counts /\ Frequent(x)
      BY <2>3, <3>1
    <3> QED
      BY <2>1, <3>2 DEF LengthOK
  <2>6. ASSUME keyLength # 0 PROVE keyLength > 1 /\ OftenEnough(keyLength)
    <3>1. keyLength \in DOMAIN Counts /\ Frequent(keyLength)
      BY <2>1, <2>6 DEF LengthOK
    <3> QED
      BY <2>3, <3>1
  <2>4. ASSUME keyLength # 0, keyLength * keyLength \notin DOMAIN distances
        PROVE  5 * Divided(keyLength) >= 2 * Total
    <3>1. keyLength \in DOMAIN Counts /\ Frequent(keyLength)
      BY <2>1, <2>4 DEF LengthOK
    <3> QED
      BY <2>1, <2>2, <2>4, <3>1, CountedDivide
  <2> QED
    BY <2>4, <2>5, <2>6 DEF PredictionDivides
<1> QED
  BY <1>1, ScriptInvariance, SearchInvariance, PredictInvariance, PTL

-----------------------------------------------------------------------------
(* The letters of the key.                                                 *)

\* The letters at a place of a key of some length, up to a place of a file.
PlacesIn(file, n, length, part, code) ==
  {i \in 1 .. n : /\ IsLetter(file[i]) /\ file[i].code = code
                  /\ (LettersUpTo(file, i) - 1) % length = part}

\* With each symbol they are one more, or as many.
LEMMA PlacesGrow ==
  ASSUME NEW S, NEW file \in Seq(S), NEW n \in 0 .. Len(file) - 1,
         NEW length, NEW part, NEW code
  PROVE  /\ Cardinality(PlacesIn(file, n, length, part, code)) \in Nat
         /\ Cardinality(PlacesIn(file, n + 1, length, part, code)) =
              Cardinality(PlacesIn(file, n, length, part, code)) +
                OneIf(/\ IsLetter(file[n + 1]) /\ file[n + 1].code = code
                      /\ LettersUpTo(file, n) % length = part)
PROOF
<1> DEFINE before == PlacesIn(file, n, length, part, code)
           after == PlacesIn(file, n + 1, length, part, code)
           Here == /\ IsLetter(file[n + 1]) /\ file[n + 1].code = code
                   /\ LettersUpTo(file, n) % length = part
<1>1. n \in Nat /\ n + 1 \in 1 .. n + 1
  OBVIOUS
<1>2. IsFiniteSet(before) /\ Cardinality(before) \in Nat
  <2>1. IsFiniteSet(1 .. n) /\ before \subseteq 1 .. n
    BY FS_Interval, <1>1 DEF PlacesIn
  <2> QED
    BY <2>1, FS_Subset, FS_CardinalityType
<1>3. IsLetter(file[n + 1]) =>
        LettersUpTo(file, n + 1) - 1 = LettersUpTo(file, n)
  <2>1. /\ LettersUpTo(file, n) \in Nat
        /\ LettersUpTo(file, n + 1) =
             LettersUpTo(file, n) + OneIf(IsLetter(file[n + 1]))
    BY LettersCount
  <2> QED
    BY <2>1 DEF OneIf
<1>4. n + 1 \in after <=> Here
  BY <1>1, <1>3 DEF PlacesIn
<1>5. after \ {n + 1} = before /\ n + 1 \notin before
  BY <1>1 DEF PlacesIn
<1> HIDE DEF before, after, Here
<1>6. CASE Here
  <2>1. after = before \cup {n + 1}
    BY <1>4, <1>5, <1>6
  <2>2. Cardinality(after) = Cardinality(before) + 1
    BY <1>2, <1>5, <2>1, FS_AddElement
  <2> QED
    BY <1>2, <1>6, <2>2 DEF OneIf, before, after, Here
<1>7. CASE ~ Here
  <2>1. after = before
    BY <1>4, <1>5, <1>7
  <2>2. Cardinality(after) = Cardinality(before) + 0
    BY <1>2, <2>1
  <2> QED
    BY <1>2, <1>7, <2>2 DEF OneIf, before, after, Here
<1> QED
  BY <1>6, <1>7

\* The columns of the text, counted by the places of the letters.
LEMMA ColumnsCount ==
  ASSUME text \in Seq(Symbol), NEW place, NEW c \in Code
  PROVE  Column(place)[c] =
           Cardinality(PlacesIn(text, Len(text), Letters(secret), place, c))
PROOF
<1> DEFINE L == Letters(secret)
           at == LetterPlaces(text)
           S == {n \in DOMAIN at : (n - 1) % L = place /\ text[at[n]].code = c}
           T == PlacesIn(text, Len(text), L, place, c)
           f == [n \in S |-> at[n]]
<1>1. Column(place)[c] = Cardinality(S)
  BY DEF Column, Quantify
<1>2. /\ DOMAIN at = 1 .. Letters(text)
      /\ \A n \in 1 .. Letters(text) :
           /\ at[n] \in 1 .. Len(text) /\ IsLetter(text[at[n]])
           /\ LettersUpTo(text, at[n]) = n
      /\ \A i \in 1 .. Len(text) : IsLetter(text[i]) =>
           /\ LettersUpTo(text, i) \in 1 .. Letters(text)
           /\ at[LettersUpTo(text, i)] = i
      /\ Letters(text) \in Nat
  BY PlacesOfLetters, LettersOfAll
<1> HIDE DEF at
<1>3. \A n \in S : f[n] \in T
  BY <1>2 DEF PlacesIn
<1>4. f \in [S -> T]
  BY <1>3
<1>5. \A a, b \in S : f[a] = f[b] => a = b
  <2> SUFFICES ASSUME NEW a \in S, NEW b \in S, at[a] = at[b] PROVE a = b
    OBVIOUS
  <2>1. LettersUpTo(text, at[a]) = a /\ LettersUpTo(text, at[b]) = b
    BY <1>2
  <2> QED
    BY <2>1
<1>6. ASSUME NEW i \in T
      PROVE  \E n \in S : f[n] = i
  <2>1. /\ i \in 1 .. Len(text) /\ IsLetter(text[i]) /\ text[i].code = c
        /\ (LettersUpTo(text, i) - 1) % L = place
    BY DEF PlacesIn
  <2>2. LettersUpTo(text, i) \in S /\ at[LettersUpTo(text, i)] = i
    BY <1>2, <2>1
  <2> QED
    BY <2>2
<1>7. ExistsBijection(S, T)
  <2> HIDE DEF S, T, f
  <2>1. f \in Bijection(S, T)
    BY <1>4, <1>5, <1>6 DEF Bijection, Injection, Surjection, IsInjective, f
  <2> QED
    BY <2>1 DEF ExistsBijection
<1>8. IsFiniteSet(S)
  <2>1. IsFiniteSet(1 .. Letters(text)) /\ S \subseteq 1 .. Letters(text)
    BY <1>2, FS_Interval
  <2> QED
    BY <2>1, FS_Subset
<1>9. Cardinality(T) = Cardinality(S)
  <2> HIDE DEF S, T
  <2> QED
    BY <1>7, <1>8, FS_Bijection
<1> QED
  BY <1>1, <1>9

\* Files with letters at the same places have as many up to each.
LEMMA SameLetters ==
  ASSUME NEW S, NEW file \in Seq(S), NEW other \in Seq(S),
         NEW n \in Nat, n <= Len(file), n <= Len(other),
         \A i \in 1 .. n : IsLetter(file[i]) <=> IsLetter(other[i])
  PROVE  LettersUpTo(file, n) = LettersUpTo(other, n)
PROOF
<1>1. {i \in 1 .. n : IsLetter(file[i])} = {i \in 1 .. n : IsLetter(other[i])}
  OBVIOUS
<1>2. n \in 0 .. Len(file) /\ n \in 0 .. Len(other)
  OBVIOUS
<1> QED
  BY <1>1, <1>2, LetterPlacesUpTo

\* Shifted by the same letter of the key, different codes stay different.
LEMMA ShiftsDiffer ==
  ASSUME NEW a \in Code, NEW b \in Code, NEW shift \in Code
  PROVE  /\ (a + shift) % AlphabetSize \in Code
         /\ (a + shift) % AlphabetSize = (b + shift) % AlphabetSize => a = b
         /\ (a + shift) % AlphabetSize =
              IF a + shift < AlphabetSize THEN a + shift
                                          ELSE a + shift - AlphabetSize
PROOF
<1> DEFINE A == AlphabetSize
           Sum(x) == IF x + shift < A THEN x + shift ELSE x + shift - A
<1>1. A \in Nat \ {0} /\ a \in 0 .. A - 1 /\ b \in 0 .. A - 1 /\ shift \in 0 .. A - 1
  BY AlphabetAssumption DEF Code
<1> HIDE DEF A
<1>2. ASSUME NEW x \in 0 .. A - 1
      PROVE  (x + shift) % A = Sum(x) /\ Sum(x) \in 0 .. A - 1
  <2>1. CASE x + shift < A
    <3>1. x + shift = (A * 0) + (x + shift) /\ x + shift \in 0 .. A - 1
      BY <1>1, <2>1
    <3> QED
      BY <1>1, <2>1, <3>1, Remainder
  <2>2. CASE ~ (x + shift < A)
    <3>1. x + shift = (A * 1) + (x + shift - A) /\ x + shift - A \in 0 .. A - 1
      BY <1>1, <2>2
    <3>2. ((A * 1) + (x + shift - A)) % A = x + shift - A
      BY <1>1, <3>1, Remainder
    <3> QED
      BY <2>2, <3>1, <3>2
  <2> QED
    BY <2>1, <2>2
<1>3. (a + shift) % A = Sum(a) /\ (b + shift) % A = Sum(b) /\ Sum(a) \in 0 .. A - 1
  BY <1>1, <1>2
<1>4. Sum(a) = Sum(b) => a = b
  BY <1>1
<1>5. (a + shift) % A = (b + shift) % A => a = b
  BY <1>3, <1>4
<1> QED
  BY <1>3, <1>5 DEF A, Code

\* At a place of the key, all letters of the text are shifted alike.
LEMMA ColumnsShift ==
  ASSUME FilesOK, Len(encoded) = Len(text),
         NEW place \in 0 .. Letters(secret) - 1, NEW c \in Code
  PROVE  LET shift == ReadVigenereKey(secret)[place + 1] IN
         /\ shift \in Code
         /\ PlacesIn(encoded, Len(text), Letters(secret), place,
                     (c + shift) % AlphabetSize) =
              PlacesIn(text, Len(text), Letters(secret), place, c)
PROOF
<1> DEFINE L == Letters(secret)
           shift == ReadVigenereKey(secret)[place + 1]
           moved == (c + shift) % AlphabetSize
           N(i) == LettersUpTo(text, i)
<1>1. /\ text \in Seq(Symbol) /\ secret \in Seq(Symbol) /\ encoded \in Seq(Symbol)
      /\ Len(text) \in Nat
  BY DEF FilesOK
<1>2. shift \in Code /\ L \in Nat \ {0}
  BY <1>1, KeyOfSymbols
<1>3. ASSUME NEW i \in 1 .. Len(text)
      PROVE  /\ encoded[i] = Enciphered(text, secret, i)
             /\ IsLetter(encoded[i]) <=> IsLetter(text[i])
  BY <1>1, Deciphered DEF FilesOK
<1>4. ASSUME NEW i \in 1 .. Len(text)
      PROVE  LettersUpTo(encoded, i) = N(i)
  <2>1. \A j \in 1 .. i : IsLetter(encoded[j]) <=> IsLetter(text[j])
    BY <1>3
  <2> QED
    BY <1>1, <2>1, SameLetters
<1>5. ASSUME NEW i \in 1 .. Len(text), IsLetter(text[i]), (N(i) - 1) % L = place
      PROVE  encoded[i].code = moved <=> text[i].code = c
  <2>1. i - 1 \in 0 .. Len(text) - 1 /\ (i - 1) + 1 = i
    OBVIOUS
  <2>2. N(i) - 1 = N(i - 1)
    <3>1. N(i - 1) \in Nat /\ N(i) = N(i - 1) + 1
      <4>1. LettersUpTo(text, i - 1) \in Nat
        BY <1>1, <2>1, LettersCount
      <4>2. LettersUpTo(text, (i - 1) + 1) =
              LettersUpTo(text, i - 1) + OneIf(IsLetter(text[(i - 1) + 1]))
        BY <1>1, <2>1, LettersCount
      <4>3. LettersUpTo(text, i) = LettersUpTo(text, i - 1) + OneIf(TRUE)
        BY <1>5, <2>1, <4>2
      <4> QED
        BY <4>1, <4>3 DEF OneIf
    <3> QED
      BY <3>1
  <2>3. IndexAt(text, secret, i - 1) = place
    BY <1>2, <1>5, <2>2 DEF IndexAt
  <2>4. encoded[i] = EncodeSymbol(text[i], shift)
    BY <1>3, <1>5, <2>3 DEF Enciphered, ShiftAt
  <2>5. text[i] \in Letter
    BY <1>1, <1>5, SymbolKinds
  <2>6. text[i].code \in Code
    BY <2>5 DEF Letter
  <2>7. encoded[i].code = (text[i].code + shift) % AlphabetSize
    BY <2>4, <2>5 DEF EncodeSymbol, Letter
  <2> HIDE DEF shift, N, L
  <2> QED
    BY <1>2, <2>6, <2>7, ShiftsDiffer
<1> HIDE DEF moved, N, L
<1>6. PlacesIn(encoded, Len(text), L, place, moved) =
        PlacesIn(text, Len(text), L, place, c)
  BY <1>3, <1>4, <1>5 DEF PlacesIn, N
<1> QED
  BY <1>2, <1>6 DEF moved, L

\* What is guessed for a column whose letters are shifted, and in which the
\* expected letter is the most frequent one, is the shift.
LEMMA GuessesShift ==
  ASSUME NEW counter \in [Code -> Nat], NEW shift \in Code,
         \A c \in Code \ {MostFrequent} :
           counter[(c + shift) % AlphabetSize] <
             counter[(MostFrequent + shift) % AlphabetSize]
  PROVE  Guess(counter) = shift
PROOF
<1> DEFINE A == AlphabetSize
           most == (MostFrequent + shift) % A
           IsMost(c) == /\ \A o \in Code : counter[o] <= counter[c]
                        /\ \A o \in 0 .. c - 1 : counter[o] < counter[c]
<1>1. /\ A \in Nat \ {0} /\ Code = 0 .. A - 1 /\ shift \in 0 .. A - 1
      /\ MostFrequent \in 0 .. A - 1
  BY AlphabetAssumption, CrackerAssumption DEF Code
<1>2. /\ most \in Code
      /\ most = IF MostFrequent + shift < A THEN MostFrequent + shift
                                            ELSE MostFrequent + shift - A
  <2>1. MostFrequent \in Code
    BY CrackerAssumption
  <2> QED
    BY <2>1, ShiftsDiffer
<1>3. ASSUME NEW o \in Code
      PROVE  \E c \in Code : (c + shift) % A = o
  <2>1. CASE o >= shift
    <3>1. o - shift \in Code /\ (o - shift) + shift = o /\ o < A
      BY <1>1, <2>1
    <3> QED
      BY <3>1, ShiftsDiffer
  <2>2. CASE o < shift
    <3>1. /\ o - shift + A \in Code
          /\ ~ ((o - shift + A) + shift < A)
          /\ (o - shift + A) + shift - A = o
      BY <1>1, <2>2
    <3> QED
      BY <3>1, ShiftsDiffer
  <2> QED
    BY <1>1, <2>1, <2>2
<1>4. ASSUME NEW o \in Code, o # most
      PROVE  counter[o] < counter[most]
  <2>1. PICK c \in Code : (c + shift) % A = o
    BY <1>3
  <2>2. c # MostFrequent
    BY <1>4, <2>1
  <2> QED
    BY <2>1, <2>2
<1>5. \A o \in Code : counter[o] \in Nat
  OBVIOUS
<1> HIDE DEF most
<1>6. IsMost(most)
  <2>1. \A o \in 0 .. most - 1 : o \in Code /\ o # most
    BY <1>1, <1>2
  <2> QED
    BY <1>2, <1>4, <1>5, <2>1
<1>7. ASSUME NEW c \in Code, IsMost(c)
      PROVE  c = most
  BY <1>2, <1>4, <1>5, <1>7
<1>8. (CHOOSE c \in Code : IsMost(c)) = most
  <2> HIDE DEF IsMost
  <2> QED
    BY <1>2, <1>6, <1>7
<1>9. Guess(counter) = IF most - MostFrequent < 0
                         THEN (most - MostFrequent) + A ELSE most - MostFrequent
  <2> DEFINE Offset(m) == IF m - MostFrequent < 0 THEN (m - MostFrequent) + A
                                                  ELSE m - MostFrequent
  <2>1. Guess(counter) = Offset(CHOOSE c \in Code : IsMost(c))
    BY DEF Guess
  <2> HIDE DEF IsMost
  <2> QED
    BY <1>8, <2>1
<1> QED
  BY <1>1, <1>2, <1>9

\* The file the cracker writes for a key is read as that key.
WrittenKey(code) ==
  [i \in 1 .. Len(code) |-> [case |-> "lower", code |-> code[i]]] \o <<Other>>

LEMMA KeyWritten ==
  ASSUME NEW C, NEW code \in Seq(C)
  PROVE  ReadVigenereKey(WrittenKey(code)) = code
PROOF
<1> DEFINE L == Len(code)
           file == WrittenKey(code)
           letters == [i \in 1 .. L |-> [case |-> "lower", code |-> code[i]]]
           S == {letters[i] : i \in 1 .. L} \cup {Other}
           Begun(n) == KeyAfter(file)[n] = SubSeq(code, 1, n)
           T == {n \in 0 .. L : Begun(n)}
<1>1. L \in Nat
  OBVIOUS
<1>2. /\ file \in Seq(S) /\ Len(file) = L + 1
      /\ \A i \in 1 .. L : file[i] = letters[i]
      /\ file[L + 1] = Other
  <2>1. letters \in Seq(S) /\ Len(letters) = L
    BY <1>1
  <2>2. <<Other>> \in Seq(S) /\ Len(<<Other>>) = 1 /\ <<Other>>[1] = Other
    OBVIOUS
  <2>3. file = letters \o <<Other>>
    BY DEF WrittenKey
  <2> HIDE DEF letters, S, file, L
  <2> QED
    BY <1>1, <2>1, <2>2, <2>3
<1>3. \A i \in 1 .. L : IsLetter(file[i]) /\ file[i].code = code[i]
  <2> SUFFICES ASSUME NEW i \in 1 .. L
               PROVE  IsLetter(file[i]) /\ file[i].code = code[i]
    OBVIOUS
  <2>1. file[i] = [case |-> "lower", code |-> code[i]]
    BY <1>2
  <2>2. file[i].case = "lower" /\ file[i].code = code[i]
    <3> HIDE DEF file
    <3> QED
      BY <2>1
  <2> HIDE DEF file
  <2> QED
    BY <2>2 DEF IsLetter, IsVigenereSupportedSymbol
<1>4. ~ IsLetter(file[L + 1])
  BY <1>2 DEF Other, IsLetter, IsVigenereSupportedSymbol
<1> HIDE DEF file, letters, S
<1>5. /\ KeyAfter(file)[0] = <<>>
      /\ \A n \in 1 .. L + 1 :
           KeyAfter(file)[n] = KeyStep(file[n], KeyAfter(file)[n - 1])
  BY <1>2, KeyEquations
<1>6. 0 \in T
  <2>1. SubSeq(code, 1, 0) = <<>>
    OBVIOUS
  <2>2. Begun(0)
    BY <1>5, <2>1
  <2> QED
    BY <1>1, <2>2
<1>7. ASSUME NEW n \in T, n \in 0 .. L - 1
      PROVE  n + 1 \in T
  <2>1. n + 1 \in 1 .. L /\ (n + 1) - 1 = n /\ n + 1 \in 1 .. L + 1
    BY <1>1, <1>7
  <2>2. KeyAfter(file)[n + 1] = Append(KeyAfter(file)[n], code[n + 1])
    BY <1>3, <1>5, <2>1 DEF KeyStep, IsLetter
  <2>3. KeyAfter(file)[n] = SubSeq(code, 1, n)
    OBVIOUS
  <2>4. Append(SubSeq(code, 1, n), code[n + 1]) = SubSeq(code, 1, n + 1)
    BY <1>7, <2>1
  <2>5. Begun(n + 1)
    BY <2>2, <2>3, <2>4
  <2> QED
    BY <1>1, <2>1, <2>5
<1>8. L \in T
  <2>1. 0 .. L \subseteq T
    <3> HIDE DEF T, L
    <3> QED
      BY <1>1, <1>6, <1>7, BoundedInduction
  <2> QED
    BY <1>1, <2>1
<1>9. KeyAfter(file)[L] = code
  <2>1. SubSeq(code, 1, L) = code
    OBVIOUS
  <2> QED
    BY <1>8, <2>1
<1>10. KeyAfter(file)[L + 1] = KeyAfter(file)[L]
  <2>1. L + 1 \in 1 .. L + 1 /\ (L + 1) - 1 = L
    BY <1>1
  <2> HIDE DEF L
  <2> QED
    BY <1>4, <1>5, <2>1 DEF KeyStep, IsLetter
<1> QED
  BY <1>2, <1>9, <1>10 DEF ReadVigenereKey, file

-----------------------------------------------------------------------------
(* The cracked key.                                                        *)

\* The counters have the letters read so far, by the place of the key.
CountersOK ==
  /\ counters \in [0 .. keyLength - 1 -> [Code -> Nat]]
  /\ \A part \in 0 .. keyLength - 1 : \A c \in Code :
       counters[part][c] =
         Cardinality(PlacesIn(encoded, position, keyLength, part, c))

CountInv ==
  /\ program = "encoder" \/ phase \in {"find", "predict"} => partIndex = 0
  /\ phase = "count" =>
       /\ position \in 0 .. Len(encoded)
       /\ partIndex = LettersUpTo(encoded, position) % keyLength
       /\ CountersOK

\* The length is right, and at every place of the key the letter that the code
\* takes for the most frequent one is that.
Typical ==
  /\ keyLength = Letters(secret) /\ keyLength # 0
  /\ \A place \in 0 .. keyLength - 1 : \A c \in Code \ {MostFrequent} :
       Column(place)[c] < Column(place)[MostFrequent]

SameKey == ReadVigenereKey(keyFile) = ReadVigenereKey(secret)

\* A typical text gives the key, and the key the text; an empty key file is
\* refused.
CrackInv ==
  /\ (\/ program = "encoder" /\ phase = "loop"
      \/ phase \in {"find", "predict", "count"}
      \/ Cracked) => text # <<>>
  /\ Cracked =>
       /\ keyLength = 0 <=> keyFile = <<>>
       /\ Typical => SameKey
       /\ phase = "loop" =>
            /\ keyLength # 0 /\ key = ReadVigenereKey(keyFile)
            /\ SameKey => Restores
       /\ phase = "end" =>
            IF keyLength = 0 THEN exit = ERROR_NO_KEY
            ELSE exit = "0" /\ (SameKey => decoded = text)

-----------------------------------------------------------------------------

\* The counting begins with nothing.
LEMMA CountingBegins ==
  ASSUME ScriptInv, CountInv, Predicted
  PROVE  CountInv'
PROOF
<1>1. /\ phase = "predict" /\ position' = 0
      /\ UNCHANGED <<encoded, partIndex, keyLength>>
      /\ \/ program' = "decoder" /\ phase' = "open"
         \/ /\ keyLength > 0 /\ phase' = "count" /\ program' = program
            /\ counters' = [part \in 0 .. keyLength - 1 |-> [c \in Code |-> 0]]
  BY DEF Predicted, StartDecoder, otherFiles
<1>2. program = "cracker" /\ partIndex = 0 /\ keyLength \in Nat
  BY <1>1, CrackerRuns DEF CountInv, ScriptInv, CrackerOK
<1>3. CASE phase' = "count"
  <2>1. /\ keyLength > 0 /\ program' = "cracker"
        /\ counters' = [part \in 0 .. keyLength - 1 |-> [c \in Code |-> 0]]
    BY <1>1, <1>2, <1>3
  <2>2. encoded' \in Seq(Symbol) /\ 0 \in 0 .. Len(encoded')
    BY <1>1 DEF ScriptInv, FilesOK
  <2>3. partIndex' = LettersUpTo(encoded', 0) % keyLength'
    <3>1. LettersUpTo(encoded', 0) = 0
      BY <2>2, LettersCount
    <3>2. 0 % keyLength = 0
      <4>1. 0 = (keyLength * 0) + 0 /\ 0 \in 0 .. keyLength - 1
        BY <1>2, <2>1
      <4> QED
        BY <1>2, <2>1, <4>1, Remainder
    <3> QED
      BY <1>1, <1>2, <3>1, <3>2
  <2>4. \A part, c :
          Cardinality(PlacesIn(encoded', 0, keyLength', part, c)) = 0
    BY FS_EmptySet DEF PlacesIn
  <2>5. CountersOK'
    BY <1>1, <2>1, <2>4 DEF CountersOK
  <2> QED
    BY <1>1, <1>3, <2>1, <2>2, <2>3, <2>5 DEF CountInv
<1>4. CASE phase' # "count"
  BY <1>1, <1>4 DEF CountInv
<1> QED
  BY <1>3, <1>4

\* A letter is counted at its place.
LEMMA CountingGoesOn ==
  ASSUME ScriptInv, CountInv, CountLetters
  PROVE  CountInv'
PROOF
<1> DEFINE p == position + 1
           symbol == encoded[p]
           N(n) == LettersUpTo(encoded, n)
           L == keyLength
           Count(n, part, c) == Cardinality(PlacesIn(encoded, n, L, part, c))
<1>1. /\ phase = "count" /\ phase' = "count" /\ position < Len(encoded)
      /\ position' = p /\ UNCHANGED <<encoded, program, keyLength>>
      /\ counters' = IF IsLetter(symbol)
                       THEN [counters EXCEPT ![partIndex][symbol.code] = @ + 1]
                       ELSE counters
      /\ partIndex' = IF IsLetter(symbol) THEN (partIndex + 1) % L ELSE partIndex
  BY DEF CountLetters, NextPart, IsLetter, otherFiles
<1>2. program = "cracker" /\ L \in Nat \ {0} /\ encoded \in Seq(Symbol)
  BY <1>1, CrackerRuns DEF ScriptInv, CrackerOK, FilesOK
<1>3. /\ position \in 0 .. Len(encoded)
      /\ partIndex = N(position) % L
      /\ counters \in [0 .. L - 1 -> [Code -> Nat]]
      /\ \A part \in 0 .. L - 1 : \A c \in Code :
           counters[part][c] = Count(position, part, c)
  BY <1>1 DEF CountInv, CountersOK
<1>4. position \in 0 .. Len(encoded) - 1 /\ p \in 1 .. Len(encoded)
  BY <1>1, <1>2, <1>3
<1>5. N(position) \in Nat /\ N(p) = N(position) + OneIf(IsLetter(symbol))
  BY <1>2, <1>4, LettersCount
<1>6. \A part, c :
        Count(p, part, c) =
          Count(position, part, c) +
            OneIf(IsLetter(symbol) /\ symbol.code = c /\ partIndex = part)
  BY <1>2, <1>3, <1>4, PlacesGrow
<1>7. partIndex \in 0 .. L - 1
  <2> HIDE DEF N, L
  <2> QED
    BY <1>2, <1>3, <1>5
<1>8. IsLetter(symbol) => symbol.code \in Code
  <2>1. symbol \in Symbol
    BY <1>2, <1>4
  <2> HIDE DEF symbol
  <2> QED
    BY <2>1, SymbolKinds DEF Letter
<1> HIDE DEF p, symbol, N, L, Count
<1>9. partIndex' = N(p) % L
  <2>1. CASE IsLetter(symbol)
    <3>1. N(p) = N(position) + 1
      BY <1>5, <2>1 DEF OneIf
    <3>2. ((N(position) % L) + 1) % L = (N(position) + 1) % L
      BY <1>2, <1>5, NextRemainder
    <3> QED
      BY <1>1, <1>3, <2>1, <3>1, <3>2
  <2>2. CASE ~ IsLetter(symbol)
    <3>1. N(p) = N(position)
      BY <1>5, <2>2 DEF OneIf
    <3> QED
      BY <1>1, <1>3, <2>2, <3>1
  <2> QED
    BY <2>1, <2>2
<1>10. counters' \in [0 .. L - 1 -> [Code -> Nat]]
  BY <1>1, <1>3, <1>7, <1>8
<1>11. ASSUME NEW part \in 0 .. L - 1, NEW c \in Code
       PROVE  counters'[part][c] = Count(p, part, c)
  <2>1. /\ counters[part][c] = Count(position, part, c)
        /\ counters[part][c] \in Nat
        /\ Count(p, part, c) =
             counters[part][c] +
               OneIf(IsLetter(symbol) /\ symbol.code = c /\ partIndex = part)
    BY <1>3, <1>6
  <2>2. CASE IsLetter(symbol) /\ symbol.code = c /\ partIndex = part
    <3>1. counters'[part][c] = counters[part][c] + 1
      BY <1>1, <1>3, <2>2
    <3> QED
      BY <2>1, <2>2, <3>1 DEF OneIf
  <2>3. CASE ~ (IsLetter(symbol) /\ symbol.code = c /\ partIndex = part)
    <3>1. counters'[part][c] = counters[part][c]
      BY <1>1, <1>3, <1>7, <1>8, <2>3
    <3> QED
      BY <2>1, <2>3, <3>1 DEF OneIf
  <2> QED
    BY <2>2, <2>3
<1>12. CountersOK'
  BY <1>1, <1>10, <1>11 DEF CountersOK, Count, L
<1> QED
  BY <1>1, <1>2, <1>4, <1>9, <1>12 DEF CountInv, N, L, p

\* Every step of the three programs keeps the counters.
LEMMA CountNext == ScriptInv /\ CountInv /\ [Next]_vars => CountInv'
PROOF
<1> SUFFICES ASSUME ScriptInv, CountInv, [Next]_vars PROVE CountInv'
  OBVIOUS
<1>1. CASE (Open \/ Read \/ EncoderEnds \/ DecoderEnds) /\ UNCHANGED crackerVars
  <2>1. /\ partIndex' = partIndex /\ phase' \in {"loop", "end", "find", "open"}
        /\ program' = "encoder" \/ phase' = "find" => program = "encoder"
    BY <1>1 DEF Open, Read, EncoderEnds, DecoderEnds, Exit, ShiftLetter,
       CopyOther, crackerVars, ScriptInv, CrackerOK
  <2> QED
    BY <2>1 DEF CountInv
<1>2. CASE FindDistances \/ CalculateDivisors \/ PredictKeyLength
  <2>1. /\ phase \in {"find", "predict"} /\ phase' \in {"find", "predict"}
        /\ partIndex' = partIndex
    BY <1>2 DEF FindDistances, CalculateDivisors, PredictKeyLength
  <2> QED
    BY <2>1 DEF CountInv
<1>3. CASE Predicted
  BY <1>3, CountingBegins
<1>4. CASE CountLetters
  BY <1>4, CountingGoesOn
<1>5. CASE WriteKey
  BY <1>5 DEF WriteKey, StartDecoder, CountInv
<1>6. CASE UNCHANGED vars
  BY <1>6 DEF vars, cipherVars, crackerVars, CountInv, CountersOK
<1> QED
  BY <1>1, <1>2, <1>3, <1>4, <1>5, <1>6 DEF Next

\* It holds for ever.
LEMMA CountInvariance == Spec => []CountInv
PROOF
<1>1. Init => CountInv
  BY DEF Init, CipherInit, CountInv
<1> QED
  BY <1>1, CountNext, ScriptInvariance, PTL DEF Spec

\* Whether a text is typical depends on what does not change any more.
LEMMA TypicalKept ==
  ASSUME UNCHANGED <<text, secret, keyLength>>
  PROVE  Typical' <=> Typical
PROOF
<1>1. \A place : Column(place)' = Column(place)
  BY DEF Column, LetterPlaces, Letters, Quantify
<1> QED
  BY <1>1 DEF Typical

\* Of a typical text the key written is the key.
LEMMA KeyCracked ==
  ASSUME ScriptInv, CountInv, WriteKey
  PROVE  /\ keyFile' # <<>>
         /\ Typical => ReadVigenereKey(keyFile') = ReadVigenereKey(secret)
PROOF
<1> DEFINE L == keyLength
           K == ReadVigenereKey(secret)
           letter(i) == [case |-> "lower", code |-> Guess(counters[i - 1])]
<1>1. /\ phase = "count" /\ position = Len(encoded)
      /\ keyFile' = [i \in 1 .. L |-> letter(i)] \o <<Other>>
  BY DEF WriteKey, StartDecoder
<1>2. L \in Nat \ {0} /\ Len(encoded) = Len(text) /\ FilesOK
  BY <1>1, CrackerRuns DEF ScriptInv, CrackerOK
<1>3. keyFile' # <<>>
  <2> DEFINE letters == [i \in 1 .. L |-> letter(i)]
             S == {letter(i) : i \in 1 .. L} \cup {Other}
  <2>1. letters \in Seq(S) /\ Len(letters) = L
    <3>1. \A i \in 1 .. L : letter(i) \in S
      OBVIOUS
    <3> HIDE DEF letter, S
    <3> QED
      BY <1>2, <3>1
  <2>2. <<Other>> \in Seq(S) /\ Len(<<Other>>) = 1
    OBVIOUS
  <2> HIDE DEF letters, S
  <2>3. Len(letters \o <<Other>>) = L + 1
    BY <2>1, <2>2
  <2> QED
    BY <1>1, <1>2, <2>3 DEF letters
<1>4. ASSUME Typical
      PROVE  ReadVigenereKey(keyFile') = K
  <2>1. /\ L = Letters(secret) /\ K \in Seq(Code) /\ Len(K) = L
        /\ text \in Seq(Symbol)
    BY <1>2, <1>4, KeyOfSymbols DEF Typical, FilesOK
  <2>2. ASSUME NEW place \in 0 .. L - 1
        PROVE  Guess(counters[place]) = K[place + 1]
    <3> DEFINE shift == K[place + 1]
               counter == counters[place]
               moved(c) == (c + shift) % AlphabetSize
    <3>1. /\ counter \in [Code -> Nat]
          /\ \A c \in Code : counter[c] =
               Cardinality(PlacesIn(encoded, Len(text), L, place, c))
      BY <1>1, <1>2 DEF CountInv, CountersOK
    <3>2. shift \in Code
      BY <1>2, <2>1
    <3>3. ASSUME NEW c \in Code
          PROVE  counter[moved(c)] = Column(place)[c]
      <4>1. moved(c) \in Code
        BY <3>2, ShiftsDiffer
      <4>2. PlacesIn(encoded, Len(text), L, place, moved(c)) =
              PlacesIn(text, Len(text), L, place, c)
        BY <1>2, <2>1, ColumnsShift
      <4>3. Column(place)[c] =
              Cardinality(PlacesIn(text, Len(text), L, place, c))
        BY <2>1, ColumnsCount
      <4> HIDE DEF moved, counter
      <4> QED
        BY <3>1, <4>1, <4>2, <4>3
    <3>4. ASSUME NEW c \in Code \ {MostFrequent}
          PROVE  counter[moved(c)] < counter[moved(MostFrequent)]
      <4>1. Column(place)[c] < Column(place)[MostFrequent]
        BY <1>4 DEF Typical
      <4>2. MostFrequent \in Code
        BY CrackerAssumption
      <4> HIDE DEF moved, counter
      <4> QED
        BY <3>3, <4>1, <4>2
    <3> HIDE DEF counter, shift
    <3>5. Guess(counter) = shift
      BY <3>1, <3>2, <3>4, GuessesShift
    <3> QED
      BY <3>5 DEF counter, shift
  <2>3. \A i \in 1 .. L : Guess(counters[i - 1]) = K[i]
    <3> SUFFICES ASSUME NEW i \in 1 .. L PROVE Guess(counters[i - 1]) = K[i]
      OBVIOUS
    <3>1. i - 1 \in 0 .. L - 1 /\ (i - 1) + 1 = i
      BY <1>2
    <3> QED
      BY <2>2, <3>1
  <2>4. [i \in 1 .. L |-> letter(i)] =
          [i \in 1 .. Len(K) |-> [case |-> "lower", code |-> K[i]]]
    BY <2>1, <2>3
  <2>5. keyFile' = WrittenKey(K)
    BY <1>1, <2>4 DEF WrittenKey
  <2> HIDE DEF K
  <2> QED
    BY <2>1, <2>5, KeyWritten
<1> QED
  BY <1>3, <1>4

\* The decoder opens the file of the cracker, or refuses an empty one.
LEMMA CrackedOpens ==
  ASSUME ScriptInv, CrackInv, Cracked, Open, UNCHANGED crackerVars
  PROVE  CrackInv'
PROOF
<1>1. /\ phase = "open" /\ program = "decoder" /\ script = "crack"
      /\ UNCHANGED <<inputs, keyFile, program, encoded, decoded>>
  BY DEF Open, Cracked
<1>2. /\ UNCHANGED <<script, text, secret, keyLength>> /\ Cracked'
  BY <1>1 DEF Cracked, inputs, crackerVars
<1>3. /\ text # <<>>
      /\ keyLength = 0 <=> keyFile = <<>>
      /\ Typical => SameKey
  BY DEF CrackInv
<1>4. /\ keyLength' = 0 <=> keyFile' = <<>>
      /\ Typical' => SameKey'
  BY <1>1, <1>2, <1>3, TypicalKept DEF SameKey
<1>5. /\ text \in Seq(Symbol) /\ secret \in Seq(Symbol) /\ encoded \in Seq(Symbol)
      /\ Len(encoded) = Len(text) /\ decoded = <<>>
  BY <1>1 DEF ScriptInv, FilesOK, DecoderOK
<1>6. ~ IsEmptyFile(Input)
  <2>1. Len(text) # 0
    BY <1>3, <1>5
  <2>2. encoded # <<>>
    BY <1>5, <2>1
  <2> QED
    BY <1>1, <2>2 DEF Input, IsEmptyFile
<1>7. CASE keyFile = <<>>
  <2>1. phase' = "end" /\ exit' = ERROR_NO_KEY
    BY <1>6, <1>7 DEF Open, Exit, IsEmptyFile
  <2> QED
    BY <1>2, <1>3, <1>4, <1>7, <2>1 DEF CrackInv
<1>8. CASE keyFile # <<>>
  <2>1. /\ key' = ReadVigenereKey(keyFile) /\ keyIndex' = 0 /\ position' = 0
        /\ phase' = "loop"
    BY <1>6, <1>8 DEF Open, IsEmptyFile
  <2>2. Restores'
    <3>1. IndexAt(text, secret, 0) = 0
      BY <1>5, IndexSteps
    <3>2. Len(decoded) = 0 /\ decoded = SubSeq(text, 1, 0)
      BY <1>5
    <3> QED
      BY <1>1, <1>2, <2>1, <3>1, <3>2 DEF Restores
  <2> QED
    BY <1>1, <1>2, <1>3, <1>4, <1>8, <2>1, <2>2 DEF CrackInv
<1> QED
  BY <1>7, <1>8

\* It reads with the key of the file.
LEMMA CrackedGoesOn ==
  ASSUME ScriptInv, CrackInv, Cracked, Read, UNCHANGED crackerVars
  PROVE  CrackInv'
PROOF
<1>1. /\ phase = "loop" /\ program = "decoder" /\ script = "crack"
      /\ UNCHANGED <<inputs, keyFile, program, key>>
      /\ \E symbol : ShiftLetter(symbol) \/ CopyOther(symbol)
  BY DEF Read, Cracked
<1>2. UNCHANGED <<script, text, secret, keyLength>> /\ Cracked'
  BY <1>1 DEF Cracked, inputs, crackerVars
<1>3. /\ text # <<>>
      /\ keyLength = 0 <=> keyFile = <<>>
      /\ Typical => SameKey
      /\ keyLength # 0 /\ key = ReadVigenereKey(keyFile)
      /\ SameKey => Restores
  BY <1>1 DEF CrackInv
<1>4. /\ keyLength' = 0 <=> keyFile' = <<>>
      /\ Typical' => SameKey'
      /\ SameKey' <=> SameKey
  BY <1>1, <1>2, <1>3, TypicalKept DEF SameKey
<1>5. phase' = "loop"
  <2>1. ~ (keyIndex >= Len(key))
    BY <1>1 DEF ScriptInv, DecoderOK
  <2> QED
    BY <1>1, <2>1 DEF ShiftLetter, CopyOther
<1>6. SameKey => Restores'
  BY <1>1, <1>3, DecoderRestores DEF SameKey
<1> QED
  BY <1>1, <1>2, <1>3, <1>4, <1>5, <1>6 DEF CrackInv

\* It ends.
LEMMA CrackedEnds ==
  ASSUME ScriptInv, CrackInv, Cracked, DecoderEnds, UNCHANGED crackerVars
  PROVE  CrackInv'
PROOF
<1>1. /\ phase = "loop" /\ program = "decoder" /\ position = Len(encoded)
      /\ UNCHANGED <<inputs, keyFile, program, decoded>>
      /\ phase' = "end" /\ exit' = "0"
  BY DEF DecoderEnds, Exit, Input
<1>2. UNCHANGED <<script, text, secret, keyLength>> /\ Cracked'
  BY <1>1 DEF Cracked, inputs, crackerVars
<1>3. /\ text # <<>>
      /\ keyLength = 0 <=> keyFile = <<>>
      /\ Typical => SameKey
      /\ keyLength # 0
      /\ SameKey => Restores
  BY <1>1 DEF CrackInv
<1>4. /\ keyLength' = 0 <=> keyFile' = <<>>
      /\ Typical' => SameKey'
      /\ SameKey' <=> SameKey
  BY <1>1, <1>2, <1>3, TypicalKept DEF SameKey
<1>5. SameKey => decoded = text
  BY <1>1, <1>3, AllRestored
<1> QED
  BY <1>1, <1>2, <1>3, <1>4, <1>5 DEF CrackInv, ERROR_NO_KEY

\* Every step of the three programs keeps what is said of the key and the text.
LEMMA CrackNext ==
  ScriptInv /\ CountInv /\ CrackInv /\ [Next]_vars => CrackInv'
PROOF
<1> SUFFICES ASSUME ScriptInv, CountInv, CrackInv, [Next]_vars PROVE CrackInv'
  OBVIOUS
<1>1. CASE Cracked /\ (Open \/ Read \/ DecoderEnds) /\ UNCHANGED crackerVars
  BY <1>1, CrackedOpens, CrackedGoesOn, CrackedEnds
<1>2. CASE ~ Cracked /\ (Open \/ Read \/ DecoderEnds) /\ UNCHANGED crackerVars
  <2>1. /\ UNCHANGED <<script, text, program>>
        /\ phase = "open" \/ phase' = phase \/ phase' = "end"
        /\ phase \in {"open", "loop"} /\ phase' \in {"loop", "end"}
        /\ program = "encoder" /\ phase = "open" /\ phase' = "loop" => text # <<>>
    BY <1>2 DEF Open, Read, DecoderEnds, Exit, ShiftLetter, CopyOther, inputs,
       Input, IsEmptyFile
  <2> QED
    BY <1>2, <2>1 DEF CrackInv, Cracked
<1>3. CASE EncoderEnds /\ UNCHANGED crackerVars
  <2>1. /\ UNCHANGED <<script, text>> /\ program = "encoder" /\ phase = "loop"
        /\ ~ Cracked'
    BY <1>3 DEF EncoderEnds, inputs, Cracked
  <2> QED
    BY <2>1 DEF CrackInv
<1>4. CASE FindDistances \/ CalculateDivisors \/ PredictKeyLength \/ CountLetters
  <2>1. /\ phase \in {"find", "predict", "count"}
        /\ UNCHANGED <<program, text>>
    BY <1>4 DEF FindDistances, CalculateDivisors, PredictKeyLength, CountLetters,
       otherFiles, inputs
  <2>2. program = "cracker"
    BY <2>1, CrackerRuns
  <2> QED
    BY <2>1, <2>2 DEF CrackInv, Cracked
<1>5. CASE Predicted
  <2>1. /\ phase = "predict" /\ UNCHANGED <<text, keyLength>>
        /\ \/ /\ keyLength = 0 /\ keyFile' = <<>> /\ phase' = "open"
           \/ phase' = "count" /\ program' = program
    BY <1>5 DEF Predicted, StartDecoder, otherFiles, inputs
  <2>2. program = "cracker" /\ text # <<>>
    BY <2>1, CrackerRuns DEF CrackInv
  <2>3. keyLength' = 0 => ~ Typical'
    BY DEF Typical
  <2> QED
    BY <2>1, <2>2, <2>3 DEF CrackInv, Cracked
<1>6. CASE WriteKey
  <2>1. /\ phase = "count" /\ phase' = "open"
        /\ UNCHANGED <<text, secret, keyLength>>
    BY <1>6 DEF WriteKey, StartDecoder, otherFiles, inputs
  <2>2. keyLength > 0 /\ keyLength \in Nat /\ text # <<>>
    BY <2>1, CrackerRuns DEF CrackInv, ScriptInv, CrackerOK
  <2>3. keyFile' # <<>> /\ (Typical' => SameKey')
    BY <1>6, <2>1, KeyCracked, TypicalKept DEF SameKey
  <2> QED
    BY <2>1, <2>2, <2>3 DEF CrackInv
<1>7. CASE UNCHANGED vars
  <2>1. /\ UNCHANGED <<inputs, script, text, secret, keyFile, program, phase>>
        /\ UNCHANGED <<key, keyIndex, position, decoded, exit, keyLength>>
    BY <1>7 DEF vars, cipherVars, crackerVars, inputs
  <2> QED
    BY <2>1, TypicalKept DEF CrackInv, Cracked, SameKey, Restores
<1> QED
  BY <1>1, <1>2, <1>3, <1>4, <1>5, <1>6, <1>7 DEF Next

\* It holds for ever.
LEMMA CrackInvariance == Spec => []CrackInv
PROOF
<1>1. Init => CrackInv
  BY DEF Init, CipherInit, CrackInv, Cracked
<1> QED
  BY <1>1, CrackNext, ScriptInvariance, CountInvariance, PTL DEF Spec

\* Of every text whose key length is found and whose letters are distributed as
\* the code takes them to be, the cracker writes the key and the decoder gives
\* the text; and it is refused a key exactly when no length is found.
THEOREM CrackingCorrect == Spec => []CracksTheText
PROOF
<1>1. CrackInv => CracksTheText
  BY DEF CrackInv, CracksTheText, Cracked, Typical, SameKey, ERROR_NO_KEY
<1> QED
  BY <1>1, CrackInvariance, PTL
===============================================================================
