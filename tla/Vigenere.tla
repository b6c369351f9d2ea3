------------------------------- MODULE Vigenere -------------------------------
(***************************************************************************)
(* VigenereEncoder and VigenereDecoder (Lab1/VigenereEncoder/main.cpp,     *)
(* Lab1/VigenereDecoder/main.cpp), the second run on what the first wrote. *)
(*                                                                         *)
(* A script runs the decoder at once, with the same key file, or runs the  *)
(* cracker of module Kasiski in between and decodes with the key it wrote. *)
(***************************************************************************)
EXTENDS VigenereCommon, FiniteSetsExt

CONSTANTS Texts, Secrets  \* bounds of the model: the files each script is given

Script == {"roundTrip", "crack"}

ASSUME FilesAssumption ==
  /\ DOMAIN Texts = Script /\ DOMAIN Secrets = Script
  /\ \A s \in Script : Texts[s] \subseteq Seq(Symbol) /\ Secrets[s] \subseteq Seq(Symbol)

VARIABLES
  script, text, secret,  \* what is run, on which file, with which key file
  keyFile,           \* the key file of the next program
  program,           \* the program that runs
  phase,             \* where it is
  key, keyIndex,     \* its key and its index in the key
  position,          \* symbols read by its loop
  encoded, decoded,  \* the files the two programs write
  exit               \* what the last of them returned

inputs == <<script, text, secret>>
cipherVars == <<inputs, keyFile, program, phase, key, keyIndex, position,
                encoded, decoded, exit>>

Running == "RUNNING"
ERROR_NO_INPUT == "ERROR_NO_INPUT"
ERROR_NO_KEY == "ERROR_NO_KEY"

CipherInit ==
  /\ script \in Script
  /\ text \in Texts[script] /\ secret \in Secrets[script]
  /\ keyFile = secret
  /\ program = "encoder" /\ phase = "open"
  /\ key = <<>> /\ keyIndex = 0 /\ position = 0
  /\ encoded = <<>> /\ decoded = <<>>
  /\ exit = Running

-----------------------------------------------------------------------------

Input == IF program = "encoder" THEN text ELSE encoded

Exit(code) == phase' = "end" /\ exit' = code

\* Both programs begin alike.
Open ==
  /\ phase = "open"
  /\ \/ /\ IsEmptyFile(Input) /\ Exit(ERROR_NO_INPUT)
        /\ UNCHANGED <<key, keyIndex, position>>
     \/ /\ ~IsEmptyFile(Input) /\ IsEmptyFile(keyFile) /\ Exit(ERROR_NO_KEY)
        /\ UNCHANGED <<key, keyIndex, position>>
     \/ /\ ~IsEmptyFile(Input) /\ ~IsEmptyFile(keyFile)
        /\ key' = ReadVigenereKey(keyFile)
        /\ keyIndex' = 0 /\ position' = 0
        /\ phase' = "loop"
        /\ UNCHANGED exit
  /\ UNCHANGED <<inputs, keyFile, program, encoded, decoded>>

\* One byte written.
Put(symbol) ==
  IF program = "encoder"
    THEN encoded' = Append(encoded, symbol) /\ UNCHANGED decoded
    ELSE decoded' = Append(decoded, symbol) /\ UNCHANGED encoded

Shifted(symbol, shift) ==
  IF program = "encoder" THEN EncodeSymbol(symbol, shift)
                         ELSE DecodeSymbol(symbol, shift)

\* Mutant: the index advances on every symbol.
CopyOtherSteps(symbol) ==
  /\ ~IsVigenereSupportedSymbol(symbol)
  /\ Put(symbol)
  /\ keyIndex' = IF key = <<>> THEN 0 ELSE (keyIndex + 1) % Len(key)
  /\ UNCHANGED <<phase, exit>>

CopyOther(symbol) ==
  /\ ~IsVigenereSupportedSymbol(symbol)
  /\ Put(symbol)
  /\ UNCHANGED <<keyIndex, phase, exit>>

\* Mutant: the index wraps one too late.
ShiftLetterLate(symbol) ==
  /\ IsVigenereSupportedSymbol(symbol)
  /\ IF keyIndex >= Len(key)
       THEN Exit("CRASH") /\ UNCHANGED <<keyIndex, encoded, decoded>>
       ELSE /\ Put(Shifted(symbol, key[keyIndex + 1]))
            /\ keyIndex' = (keyIndex + 1) % (Len(key) + 1)
            /\ UNCHANGED <<phase, exit>>

\* Past the end of the key there is nothing to read, and with an empty key the
\* remainder is by zero as well.
ShiftLetter(symbol) ==
  /\ IsVigenereSupportedSymbol(symbol)
  /\ IF keyIndex >= Len(key)
       THEN Exit("CRASH") /\ UNCHANGED <<keyIndex, encoded, decoded>>
       ELSE /\ Put(Shifted(symbol, key[keyIndex + 1]))
            /\ keyIndex' = (keyIndex + 1) % Len(key)
            /\ UNCHANGED <<phase, exit>>

Read ==
  /\ phase = "loop"
  /\ position < Len(Input)
  /\ position' = position + 1
  /\ \/ ShiftLetter(Input[position + 1])
     \/ CopyOther(Input[position + 1])
  /\ UNCHANGED <<inputs, keyFile, program, key>>

\* The encoder returns; the script starts the decoder or, at its first loop,
\* the cracker.
EncoderEnds ==
  /\ phase = "loop" /\ program = "encoder"
  /\ position = Len(Input)
  /\ IF script = "crack" THEN program' = "cracker" /\ phase' = "find"
                         ELSE program' = "decoder" /\ phase' = "open"
  /\ position' = 0
  /\ UNCHANGED <<inputs, keyFile, key, keyIndex, encoded, decoded, exit>>

DecoderEnds ==
  /\ phase = "loop" /\ program = "decoder"
  /\ position = Len(Input)
  /\ Exit("0")
  /\ UNCHANGED <<inputs, keyFile, program, key, keyIndex, position, encoded, decoded>>

-----------------------------------------------------------------------------
(* Properties. *)

Letters(file) == Quantify(DOMAIN file, LAMBDA i : IsVigenereSupportedSymbol(file[i]))

\* With the key file of the encoder, what the decoder has written is the
\* beginning of the text, and it ends with all of it.
DecodedIsPrefix ==
  script = "roundTrip" =>
    /\ decoded = SubSeq(text, 1, Len(decoded))
    /\ exit = "0" => decoded = text

\* A letter is shifted by the key symbol of the number of letters before it,
\* whatever else is between them: the definition of the cipher, which the
\* encoder computes with an index it carries along.
EncodedByLetterCount ==
  program = "encoder" =>
    \A i \in DOMAIN encoded :
      LET before == Letters(SubSeq(text, 1, i - 1)) IN
      encoded[i] = IF IsVigenereSupportedSymbol(text[i])
                     THEN [text[i] EXCEPT !.code =
                             (@ + ReadVigenereKey(secret)[(before % Letters(secret)) + 1])
                               % AlphabetSize]
                     ELSE text[i]

\* The key is read past its end only when the key file has no letter at all,
\* which neither program checks, and the text has one; the cracker never writes
\* such a key.
CrashNeedsEmptyKey ==
  exit = "CRASH" => /\ secret # <<>> /\ Letters(secret) = 0
                    /\ Letters(text) > 0
                    /\ program = "encoder"
===============================================================================
