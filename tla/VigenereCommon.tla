---------------------------- MODULE VigenereCommon ----------------------------
(***************************************************************************)
(* What the three programs of Lab1 share (Lab1/Utility). A file is the     *)
(* sequence of its symbols; a symbol is a letter, of a case and with a     *)
(* code, or any other byte. The iterator over a file, which reads it       *)
(* again from its beginning for every loop, is the position in it.         *)
(***************************************************************************)
EXTENDS Integers, Sequences

CONSTANT AlphabetSize   \* ALPHABET_SIZE

ASSUME AlphabetAssumption == AlphabetSize \in Nat \ {0}

Code == 0 .. AlphabetSize - 1
Letter == [case : {"lower", "upper"}, code : Code]
Other == [case |-> "none", code |-> 0]
Symbol == Letter \cup {Other}

IsVigenereSupportedSymbol(symbol) == symbol.case # "none"

\* begin () == end (): the first byte cannot be read.
IsEmptyFile(file) == file = <<>>

\* The key after each symbol of a key file: the codes of its letters; the rest
\* is skipped.
KeyAfter(keyFile) ==
  LET key[n \in 0 .. Len(keyFile)] ==
        IF n = 0 THEN <<>>
        ELSE IF IsVigenereSupportedSymbol(keyFile[n])
               THEN Append(key[n - 1], keyFile[n].code)
               ELSE key[n - 1]
  IN  key

ReadVigenereKey(keyFile) == KeyAfter(keyFile)[Len(keyFile)]

EncodeSymbol(symbol, shift) == [symbol EXCEPT !.code = (@ + shift) % AlphabetSize]

\* Mutant: what is below zero is mirrored instead of wrapped.
DecodeSymbolMirror(symbol, shift) ==
  LET decoded == symbol.code - shift IN
  [symbol EXCEPT !.code = IF decoded < 0 THEN -decoded ELSE decoded]

DecodeSymbol(symbol, shift) ==
  LET decoded == symbol.code - shift IN
  [symbol EXCEPT !.code = IF decoded < 0 THEN (AlphabetSize + decoded) % AlphabetSize
                                         ELSE decoded % AlphabetSize]
===============================================================================
