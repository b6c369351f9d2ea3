---------------------------------- MODULE MD5 ----------------------------------
(***************************************************************************)
(* MD5Hasher on one text (Lab2/Shared/MD5.cpp): how bytes are gathered into*)
(* blocks and how the padding and the length are added, which is where a   *)
(* hasher that is right on short strings goes wrong. transform is taken to *)
(* append the block to the digest: what it mixes has no control.           *)
(*                                                                         *)
(* A byte has ByteBits bits, a block BlockSize bytes, and each of the two  *)
(* words of the count WordBytes bytes, in the place of 8, 64 and 4.        *)
(***************************************************************************)
EXTENDS Integers, Sequences

CONSTANTS
  ByteBits, BlockSize, WordBytes,
  MaxLength  \* bound of the model: the length of the text

LengthSize == 2 * WordBytes  \* 8: the bytes of the count

\* The powers of 2, up to that of the bits of the count.
power2[n \in 0 .. ByteBits * LengthSize] == IF n = 0 THEN 1 ELSE 2 * power2[n - 1]

Word4 == power2[ByteBits * WordBytes]  \* the values of uint4

ASSUME SizesAssumption ==
  /\ ByteBits \in Nat \ {0} /\ WordBytes \in Nat \ {0} /\ MaxLength \in Nat
  /\ BlockSize \in Nat /\ LengthSize < BlockSize
  /\ Word4 % (ByteBits * BlockSize) = 0

VARIABLES
  length,  \* the length of the text
  stage,   \* the update that is next
  bits,    \* what finalize keeps of the count
  count,   \* the number of bits, low word and high word
  buffer,  \* bytes that did not fit in the last block
  digest   \* the blocks transform was called with

md5Vars == <<length, stage, bits, count, buffer, digest>>

\* The bytes of a text are told apart by their places.
TextOf(size) == [i \in 1 .. size |-> <<"text", i>>]
Zero == 0
One == power2[ByteBits - 1]  \* 0x80

MD5Init ==
  /\ length = 0
  /\ stage = "text" /\ bits = <<>>
  /\ count = <<0, 0>>
  /\ buffer = [i \in 1 .. BlockSize |-> "uninitialized"]
  /\ digest = <<>>

\* memcpy to the buffer from index on.
CopyTo(bytes, index, input) ==
  [i \in DOMAIN bytes |-> IF index < i /\ i <= index + Len(input) THEN input[i - index]
                                                                 ELSE bytes[i]]

\* The number of bits after an update of so many bytes. The low word has
\* wrapped if it is less than what was added.
Counted(bytes) ==
  LET added == (bytes * ByteBits) % Word4
      low == (count[1] + added) % Word4
      carry == IF low < added THEN 1 ELSE 0
  IN  <<low, (count[2] + carry + (bytes * ByteBits) \div Word4) % Word4>>

Index == (count[1] \div ByteBits) % BlockSize

Update(input) ==
  LET firstpart == BlockSize - Index
      Chunks == (Len(input) - firstpart) \div BlockSize
      chunk(n) == SubSeq(input, firstpart + (n - 1) * BlockSize + 1, firstpart + n * BlockSize)
      done == firstpart + Chunks * BlockSize
  IN  /\ count' = Counted(Len(input))
      /\ IF Len(input) >= firstpart
           THEN LET full == CopyTo(buffer, Index, SubSeq(input, 1, firstpart)) IN
                /\ digest' = digest \o <<full>> \o [n \in 1 .. Chunks |-> chunk(n)]
                /\ buffer' = CopyTo(full, 0, SubSeq(input, done + 1, Len(input)))
           ELSE /\ UNCHANGED digest
                /\ buffer' = CopyTo(buffer, Index, input)

-----------------------------------------------------------------------------

\* The constructor: update with the text, then finalize.
UpdateText ==
  /\ stage = "text" /\ stage' = "padding"
  /\ length' \in 0 .. MaxLength
  /\ Update(TextOf(length'))
  /\ UNCHANGED bits

Encoded(word) == [i \in 1 .. WordBytes |-> (word \div power2[ByteBits * (i - 1)]) % power2[ByteBits]]

\* Mutant: the boundary is off by one, and a text that ends at it gets no bit 1.
PadLenNone == IF Index <= BlockSize - LengthSize
                THEN (BlockSize - LengthSize) - Index
                ELSE (2 * BlockSize - LengthSize) - Index

\* To 56 modulo 64, and at least one byte.
PadLen == IF Index < BlockSize - LengthSize
            THEN (BlockSize - LengthSize) - Index
            ELSE (2 * BlockSize - LengthSize) - Index

UpdatePadding ==
  /\ stage = "padding" /\ stage' = "bits"
  /\ bits' = Encoded(count[1]) \o Encoded(count[2])
  /\ Update([i \in 1 .. PadLen |-> IF i = 1 THEN One ELSE Zero])
  /\ UNCHANGED length

\* The number of bits is that before the padding.
UpdateBits ==
  /\ stage = "bits" /\ stage' = "finalized"
  /\ Update(bits)
  /\ UNCHANGED <<length, bits>>

MD5Next == UpdateText \/ UpdatePadding \/ UpdateBits

MD5Spec == MD5Init /\ [][MD5Next]_md5Vars

-----------------------------------------------------------------------------
(* Properties. *)

\* What RFC 1321, on which the code is based (MD5.cpp:9), has a text hashed
\* with: a bit 1 and as few bits 0 as make the length, in two words, end a block.
Padded ==
  LET fill == CHOOSE n \in 0 .. BlockSize - 1 :
                (length + 1 + n + LengthSize) % BlockSize = 0
      word(i) == ((length * ByteBits) \div power2[ByteBits * (i - 1)]) % power2[ByteBits]
  IN  TextOf(length) \o <<One>> \o [i \in 1 .. fill |-> Zero] \o [i \in 1 .. LengthSize |-> word(i)]

\* The blocks hashed are those of the padded text, for texts that end anywhere
\* in a block and for lengths that need the second word of the count.
HashesThePaddedText ==
  stage = "finalized" =>
    /\ BlockSize * Len(digest) = Len(Padded)
    /\ \A n \in DOMAIN digest : \A i \in 1 .. BlockSize :
         digest[n][i] = Padded[(n - 1) * BlockSize + i]
===============================================================================
