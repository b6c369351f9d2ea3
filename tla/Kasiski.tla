------------------------------- MODULE Kasiski -------------------------------
(***************************************************************************)
(* VigenereCracker (Lab1/VigenereCracker/main.cpp) between the encoder and *)
(* the decoder, as Lab1/Data/Task3/CheckCracker.sh runs them: the distances*)
(* between repeated substrings of the encoded text, the divisors of the    *)
(* distances, the length of the key, the most frequent letter at each      *)
(* place of the key; then the text is decoded with the key found.          *)
(***************************************************************************)
EXTENDS Vigenere

CONSTANTS
  SubsequenceLength,  \* 10 in main
  MostFrequent        \* MOST_FREQUENT_SYMBOL_CODE

ASSUME CrackerAssumption ==
  /\ SubsequenceLength \in Nat \ {0}
  /\ MostFrequent \in Code

VARIABLES
  currentString, encodedPosition,  \* FindDistances: its window and letters read
  occurrences,      \* FindDistances: where each window was seen last
  distances,        \* how often each distance was found
  left,             \* PredictKeyLength: divisors its loop has not seen
  keyLength,        \* bestDivisor, then the predicted length; 0 for none
  partIndex, counters  \* how often each letter is at each place of the key

searchVars == <<currentString, encodedPosition, occurrences, distances>>
crackerVars == <<searchVars, left, keyLength, partIndex, counters>>
vars == <<cipherVars, crackerVars>>

\* What the cracker leaves alone of the files and the other two programs.
otherFiles == <<inputs, key, keyIndex, encoded, decoded, exit>>

Init ==
  /\ CipherInit
  /\ currentString = <<>> /\ encodedPosition = 0
  /\ occurrences = <<>> /\ distances = <<>>
  /\ left = {} /\ keyLength = 0
  /\ partIndex = 0 /\ counters = <<>>

-----------------------------------------------------------------------------

\* counts[at]++ for a map, whose new entries start at 0.
Increment(counts, at) ==
  [x \in DOMAIN counts \cup {at} |->
     (IF x \in DOMAIN counts THEN counts[x] ELSE 0) + (IF x = at THEN 1 ELSE 0)]

With(map, at, value) ==
  [x \in DOMAIN map \cup {at} |-> IF x = at THEN value ELSE map[x]]

\* Mutant: another symbol leaves the window as it is.
BreakWindowNot ==
  /\ UNCHANGED <<currentString, encodedPosition, occurrences, distances>>

BreakWindow ==
  /\ currentString' = <<>>
  /\ UNCHANGED <<encodedPosition, occurrences, distances>>

Slide(window) == Tail(window)

\* A letter enters the window; a full window is looked up, and its first letter
\* leaves it.
ExtendWindow(code) ==
  LET window == Append(currentString, code)
      here == encodedPosition + 1
  IN  /\ encodedPosition' = here
      /\ IF Len(window) < SubsequenceLength
           THEN currentString' = window /\ UNCHANGED <<occurrences, distances>>
           ELSE /\ currentString' = Slide(window)
                /\ occurrences' = With(occurrences, window, here)
                /\ distances' = IF window \in DOMAIN occurrences
                                  THEN Increment(distances, here - occurrences[window])
                                  ELSE distances

FindDistances ==
  /\ phase = "find"
  /\ position < Len(encoded)
  /\ position' = position + 1
  /\ IF IsVigenereSupportedSymbol(encoded[position + 1])
       THEN ExtendWindow(encoded[position + 1].code)
       ELSE BreakWindow
  /\ UNCHANGED <<otherFiles, keyFile, program, phase, left, keyLength, partIndex, counters>>

\* ForEachDivisor: how often it calls back for each number. The root of a square
\* is called for twice, and the number itself never.
Divisors(number) ==
  [d \in {n \in 2 .. number - 1 : number % n = 0} |->
     IF d * d = number THEN 2 ELSE 1]

\* CalculateDivisors: a distance counts once, however often it was found.
Counts ==
  [d \in UNION {DOMAIN Divisors(distance) : distance \in DOMAIN distances} |->
     MapThenSumSet(LAMBDA distance :
                     IF d \in DOMAIN Divisors(distance) THEN Divisors(distance)[d] ELSE 0,
                   DOMAIN distances)]

\* The total counts a distance as often as it was found.
Total == MapThenSumSet(LAMBDA distance : distances[distance], DOMAIN distances)

CalculateDivisors ==
  /\ phase = "find"
  /\ position = Len(encoded)
  /\ phase' = "predict"
  /\ left' = DOMAIN Counts
  /\ UNCHANGED <<otherFiles, keyFile, program, position, searchVars, keyLength,
                 partIndex, counters>>

\* Mutant: the first divisor that is frequent enough is kept.
BetterFirst(divisor) == keyLength = 0 /\ 5 * Counts[divisor] >= 2 * Total

\* PURE_MAXIMIZATION_BARRIER is 0.4.
Better(divisor) == divisor > keyLength /\ 5 * Counts[divisor] >= 2 * Total

\* The loop over the divisors takes them in the order of a hash table.
PredictKeyLength ==
  /\ phase = "predict"
  /\ \E divisor \in left :
       /\ left' = left \ {divisor}
       /\ keyLength' = IF Better(divisor) THEN divisor ELSE keyLength
  /\ UNCHANGED <<otherFiles, keyFile, program, phase, position, searchVars, partIndex,
                 counters>>

\* The cracker returns, and the script runs the decoder whatever it returned.
StartDecoder(cracked) ==
  /\ keyFile' = cracked
  /\ program' = "decoder" /\ phase' = "open"

\* Without a key length the file is empty: it was opened before the search.
Predicted ==
  /\ phase = "predict"
  /\ left = {}
  /\ position' = 0
  /\ \/ /\ keyLength = 0
        /\ StartDecoder(<<>>)
        /\ UNCHANGED counters
     \/ /\ keyLength > 0
        /\ phase' = "count"
        /\ counters' = [part \in 0 .. keyLength - 1 |-> [c \in Code |-> 0]]
        /\ UNCHANGED <<program, keyFile>>
  /\ UNCHANGED <<otherFiles, searchVars, left, keyLength, partIndex>>

\* Mutant: the place in the key advances on every symbol.
NextPartAlways(symbol) == (partIndex + 1) % keyLength

NextPart(symbol) ==
  IF IsVigenereSupportedSymbol(symbol) THEN (partIndex + 1) % keyLength ELSE partIndex

CountLetters ==
  /\ phase = "count"
  /\ position < Len(encoded)
  /\ position' = position + 1
  /\ LET symbol == encoded[position + 1] IN
       /\ counters' = IF IsVigenereSupportedSymbol(symbol)
                        THEN [counters EXCEPT ![partIndex][symbol.code] = @ + 1]
                        ELSE counters
       /\ partIndex' = NextPart(symbol)
  /\ UNCHANGED <<otherFiles, keyFile, program, phase, searchVars, left, keyLength>>

\* The key's letter at a place: max_element is the first of the most frequent.
Guess(counter) ==
  LET most == CHOOSE c \in Code : /\ \A o \in Code : counter[o] <= counter[c]
                                  /\ \A o \in 0 .. c - 1 : counter[o] < counter[c]
      offset == most - MostFrequent
  IN  IF offset < 0 THEN offset + AlphabetSize ELSE offset

WriteKey ==
  /\ phase = "count"
  /\ position = Len(encoded)
  /\ StartDecoder([i \in 1 .. keyLength |->
                     [case |-> "lower", code |-> Guess(counters[i - 1])]] \o <<Other>>)
  /\ partIndex' = keyLength
  /\ position' = 0
  /\ UNCHANGED <<otherFiles, searchVars, left, keyLength, counters>>

Next ==
  \/ (Open \/ Read \/ EncoderEnds \/ DecoderEnds) /\ UNCHANGED crackerVars
  \/ FindDistances \/ CalculateDivisors
  \/ PredictKeyLength \/ Predicted
  \/ CountLetters \/ WriteKey

Spec == Init /\ [][Next]_vars

-----------------------------------------------------------------------------
(* Properties. *)

\* The places of the letters of a file, in order: the n-th is the one with n
\* letters up to it.
LetterPlaces(file) ==
  [n \in 1 .. Letters(file) |->
     CHOOSE i \in DOMAIN file : /\ IsVigenereSupportedSymbol(file[i])
                               /\ Letters(SubSeq(file, 1, i)) = n]

\* The window that ends with the n-th letter, if the letters it takes are next
\* to each other in the file.
WindowAt(n) ==
  LET at == LetterPlaces(encoded)
      first == n - SubsequenceLength + 1
  IN  IF n >= SubsequenceLength /\ at[n] - at[first] = SubsequenceLength - 1
        THEN [i \in 1 .. SubsequenceLength |-> encoded[at[first + i - 1]].code]
        ELSE <<>>

\* The window that ends with the i-th letter is seen next with the j-th.
SeenNext(i, j) ==
  /\ i < j /\ WindowAt(i) # <<>> /\ WindowAt(i) = WindowAt(j)
  /\ \A k \in i + 1 .. j - 1 : WindowAt(k) # WindowAt(i)

\* The distances are those between an occurrence of a substring of letters and
\* the next occurrence of it, in letters, each counted as often as it appears.
DistancesAreGaps ==
  phase = "predict" =>
    LET n == Len(LetterPlaces(encoded))
        Gaps == {gap \in (1 .. n) \X (1 .. n) : SeenNext(gap[1], gap[2])}
    IN  /\ DOMAIN distances = {gap[2] - gap[1] : gap \in Gaps}
        /\ \A d \in DOMAIN distances :
             distances[d] = Quantify(Gaps, LAMBDA gap : gap[2] - gap[1] = d)

\* How many of the distances found a number divides.
Divided(x) ==
  MapThenSumSet(LAMBDA d : distances[d], {d \in DOMAIN distances : d % x = 0})

\* The different distances of which a number is a proper divisor, and one more
\* if one of them is its square.
Multiples(x) == {d \in DOMAIN distances : d % x = 0 /\ d # x}
TimesCounted(x) ==
  Cardinality(Multiples(x)) + (IF x * x \in DOMAIN distances THEN 1 ELSE 0)

\* They are 40% of the distances found, or more.
OftenEnough(x) == Multiples(x) # {} /\ 5 * TimesCounted(x) >= 2 * Total

\* Whatever the order of the hash table, the prediction is the greatest number
\* above 1 of which often enough the multiples are distances, each taken once
\* and the number itself not; and there is none only if no number is one. So it
\* divides 40% of the distances found, unless its square is a distance. That
\* it is not the greatest that does, see PredictionIsGreatest (main.cpp:27).
PredictionDivides ==
  program = "decoder" /\ script = "crack" =>
    /\ \A x \in 2 .. Len(encoded) : OftenEnough(x) => x <= keyLength
    /\ keyLength # 0 =>
         /\ keyLength > 1 /\ OftenEnough(keyLength)
         /\ \/ 5 * Divided(keyLength) >= 2 * Total
            \/ keyLength * keyLength \in DOMAIN distances

\* What src/Lab1/README.md:9-11 says of the program: the length taken for that
\* of the key is the greatest number that divides at least 40% of the distances
\* found. The code never counts a distance for itself, and counts one that was
\* found many times once (main.cpp:20, 79).
PredictionIsGreatest ==
  program = "decoder" /\ script = "crack" =>
    \A x \in 2 .. Len(encoded) :
      Divided(x) > 0 /\ 5 * Divided(x) >= 2 * Total => x <= keyLength

\* The letters of the text at a place of the key.
Column(place) ==
  LET at == LetterPlaces(text)
  IN  [c \in Code |-> Quantify(DOMAIN at, LAMBDA n :
         (n - 1) % Letters(secret) = place /\ text[at[n]].code = c)]

\* If a length is found and right, and at every place of the key the letter that
\* the code takes for the most frequent one is that, the cracked key is the key
\* and the decoder gives the text back; and when the decoder is reached, it
\* refuses the empty key exactly if the cracker could not tell the length.
CracksTheText ==
  phase = "end" /\ program = "decoder" /\ script = "crack" =>
    /\ keyLength = 0 <=> exit = ERROR_NO_KEY
    /\ (/\ keyLength = Letters(secret) /\ keyLength # 0
        /\ \A place \in 0 .. keyLength - 1 : \A c \in Code \ {MostFrequent} :
             Column(place)[c] < Column(place)[MostFrequent])
       => ReadVigenereKey(keyFile) = ReadVigenereKey(secret) /\ decoded = text
===============================================================================
