----------------------------- MODULE FileTransfer -----------------------------
(***************************************************************************)
(* The bytes of one file on their way: the end of Session::TrySendFile     *)
(* with FileService::Resolve, and the reading loop of the clients          *)
(* (Controller::loadFile, DummyClient/Main.cpp). The modules Exchange and  *)
(* DummyExchange take an answer as one message; this one is about its      *)
(* length, its chunks and what fills its last block.                       *)
(*                                                                         *)
(* A byte is named by where it comes from. The file may be written to while*)
(* it is sent, the connection may fail, and a key update may follow.       *)
(***************************************************************************)
EXTENDS Integers, Sequences, SequencesExt

CONSTANTS
  BLOCK_SIZE,
  BufferBlocks,  \* 128: the blocks of Session::buffer_ and of the client's buffer
  LengthLimit,   \* 2^32: the lengths that a uint32_t tells apart
  MaxFile        \* bound of the model: the length of the file

ASSUME TransferAssumption ==
  /\ BLOCK_SIZE \in Nat \ {0} /\ BufferBlocks \in Nat \ {0}
  /\ LengthLimit \in Nat \ {0} /\ MaxFile \in Nat

BufferSize == BLOCK_SIZE * BufferBlocks
HeaderSize == 2 * BLOCK_SIZE    \* 13 bytes: one block and less than another
KeyMessage == [i \in 1 .. 2 * BLOCK_SIZE + 1 |-> <<"key", i>>]  \* 33 bytes

\* What tellg gives for what has no length, such as a directory.
NoLength == -1

VARIABLES
  fileLength,    \* the length of the file, or NoLength
  changed,       \* history: has it been written to since its length was told
  announced,     \* fileLength of TrySendFile, a uint32_t
  sender,        \* where TrySendFile is
  position,      \* bytes read from the file
  transferBuffer,  \* Session::buffer_
  sent,          \* history: what the blocks sent have encoded
  stream,        \* what is on its way to the client
  keySent,       \* has a key update been written after the file
  receiver,      \* where the client is
  blocksLeft,    \* blocks its loop has to read
  initialBlock,  \* the block it decodes the next one with
  text           \* what it has decoded

senderVars == <<announced, sender, position, transferBuffer, sent, keySent>>
receiverVars == <<receiver, blocksLeft, initialBlock, text>>
transferVars == <<fileLength, changed, senderVars, stream, receiverVars>>

File(n) == [i \in 1 .. n |-> <<"file", i>>]

TransferInit ==
  /\ fileLength = 0
  /\ changed = FALSE
  /\ announced = 0 /\ sender = "resolve" /\ position = 0
  /\ transferBuffer = [i \in 1 .. BufferSize |-> <<"request", i>>]
  /\ sent = <<>> /\ stream = <<>> /\ keySent = FALSE
  /\ receiver = "header" /\ blocksLeft = 0 /\ initialBlock = <<>> /\ text = <<>>

-----------------------------------------------------------------------------
(* The session. *)

BlockCount(bytes) == (bytes \div BLOCK_SIZE) + (IF bytes % BLOCK_SIZE > 0 THEN 1 ELSE 0)

\* Block n of those a session sends; block 0 is the initial block.
Cipher(n) == [i \in 1 .. BLOCK_SIZE |-> <<"cipher", n, i>>]
Ciphers(first, last) == FlattenSeq([i \in 1 .. last - first + 1 |-> Cipher(first + i - 1)])

Overwrite(buffer, bytes) ==
  [i \in DOMAIN buffer |-> IF i <= Len(bytes) THEN bytes[i] ELSE buffer[i]]

\* There is no such file, or what there is has a length or none. The length
\* told is what is left of it in 32 bits (Session.cpp:411).
Resolve ==
  /\ sender = "resolve"
  /\ \/ /\ sender' = "done"
        /\ stream' = Append(stream, <<"STC_UNABLE_TO_SEND_FILE">>)
        /\ UNCHANGED <<fileLength, announced, transferBuffer>>
     \/ /\ fileLength' \in {NoLength} \cup (0 .. MaxFile)
        /\ sender' = "send"
        /\ announced' = fileLength' % LengthLimit
        /\ transferBuffer' = Overwrite(transferBuffer,
                                       [i \in 1 .. HeaderSize |-> <<"header", i>>])
        /\ stream' = Append(stream, <<"STC_FILE", announced'>>)
  /\ UNCHANGED <<changed, position, sent, keySent, receiverVars>>

\* What is left of the file, as much of it as the buffer takes.
Available == IF fileLength = NoLength \/ fileLength < position THEN 0
             ELSE IF fileLength - position < BufferSize THEN fileLength - position
             ELSE BufferSize

\* Mutant: a chunk that is not full is sent without its last block.
BlocksToSendWhole(read) == read \div BLOCK_SIZE

BlocksToSend(read) == BlockCount(read)

\* One turn of the loop: read, encode, write. A read that fills the buffer
\* leaves inputFile true, so a file of whole buffers takes one turn more.
SendChunk ==
  /\ sender = "send"
  /\ LET bytes == [i \in 1 .. Available |-> <<"file", position + i>>]
         filled == Overwrite(transferBuffer, bytes)
         blocks == BlocksToSend(Available)
         first == Len(sent) + 1
         encoded == Ciphers(first, first + blocks - 1)
     IN  /\ sent' = sent \o [n \in 1 .. blocks |->
                               SubSeq(filled, (n - 1) * BLOCK_SIZE + 1, n * BLOCK_SIZE)]
         /\ transferBuffer' = Overwrite(filled, encoded)
         /\ stream' = stream \o encoded
         /\ position' = position + Available
         /\ sender' = IF Available = BufferSize THEN "send" ELSE "done"
  /\ UNCHANGED <<fileLength, changed, announced, keySent, receiverVars>>

\* A write fails: AbortOnFatalError deletes the session.
WriteFails ==
  /\ sender \in {"resolve", "send"}
  /\ sender' = "aborted"
  /\ UNCHANGED <<fileLength, changed, announced, position, transferBuffer, sent,
                 keySent, stream, receiverVars>>

\* The next key update, if there is one.
UpdateKey ==
  /\ sender = "done" /\ ~ keySent
  /\ keySent' = TRUE
  /\ stream' = stream \o KeyMessage
  /\ UNCHANGED <<fileLength, changed, announced, sender, position, transferBuffer,
                 sent, receiverVars>>

\* Somebody writes to the file after its length was told.
FileChanges ==
  /\ sender = "send" /\ fileLength # NoLength
  /\ \E n \in 0 .. MaxFile : n # fileLength /\ fileLength' = n
  /\ changed' = TRUE
  /\ UNCHANGED <<senderVars, stream, receiverVars>>

-----------------------------------------------------------------------------
(* The client. *)

ReadHeader ==
  /\ receiver = "header" /\ stream # <<>>
  /\ stream' = Tail(stream)
  /\ IF Head(stream)[1] = "STC_FILE"
       THEN /\ blocksLeft' = BlockCount(Head(stream)[2])
            /\ receiver' = "blocks"
            /\ initialBlock' = Cipher(0)
       ELSE receiver' = "refused" /\ UNCHANGED <<blocksLeft, initialBlock>>
  /\ UNCHANGED <<fileLength, changed, senderVars, text>>

BlocksToRead == IF blocksLeft < BufferBlocks THEN blocksLeft ELSE BufferBlocks

\* A block is decoded with the one that was encoded before it, or is noise.
DecodeCipher(block, previous) ==
  IF \E n \in DOMAIN sent : block = Cipher(n) /\ previous = Cipher(n - 1)
    THEN sent[block[1][2]]
    ELSE [i \in 1 .. BLOCK_SIZE |-> <<"noise">>]

\* Mutant: each chunk is decoded from the initial block of the file.
NextInitialSame(bytes) == initialBlock

NextInitial(bytes) == SubSeq(bytes, Len(bytes) - BLOCK_SIZE + 1, Len(bytes))

\* One turn of the loop: the chunk is read as a whole.
ReadChunk ==
  /\ receiver = "blocks" /\ blocksLeft > 0
  /\ Len(stream) >= BlocksToRead * BLOCK_SIZE
  /\ LET bytes == SubSeq(stream, 1, BlocksToRead * BLOCK_SIZE)
         block(n) == IF n = 0 THEN initialBlock
                     ELSE SubSeq(bytes, (n - 1) * BLOCK_SIZE + 1, n * BLOCK_SIZE)
     IN  /\ text' = text \o FlattenSeq([n \in 1 .. BlocksToRead |->
                                          DecodeCipher(block(n), block(n - 1))])
         /\ initialBlock' = NextInitial(bytes)
         /\ stream' = SubSeq(stream, Len(bytes) + 1, Len(stream))
  /\ blocksLeft' = blocksLeft - BlocksToRead
  /\ UNCHANGED <<fileLength, changed, senderVars, receiver>>

ReturnFile ==
  /\ receiver = "blocks" /\ blocksLeft = 0
  /\ receiver' = "done"
  /\ UNCHANGED <<fileLength, changed, senderVars, stream, blocksLeft, initialBlock, text>>

\* The stream has ended before what it waits for.
ReadThrows ==
  /\ sender = "aborted"
  /\ \/ receiver = "header" /\ stream = <<>>
     \/ receiver = "blocks" /\ blocksLeft > 0 /\ Len(stream) < BlocksToRead * BLOCK_SIZE
  /\ receiver' = "failed"
  /\ UNCHANGED <<fileLength, changed, senderVars, stream, blocksLeft, initialBlock, text>>

TransferNext ==
  \/ Resolve \/ SendChunk \/ WriteFails \/ UpdateKey \/ FileChanges
  \/ ReadHeader \/ ReadChunk \/ ReturnFile \/ ReadThrows

TransferSpec == TransferInit /\ [][TransferNext]_transferVars

-----------------------------------------------------------------------------
(* Properties. *)

\* A file that has a length and keeps it while it is sent arrives, in chunks
\* read as they were written, with less than a block after it: the clients do
\* not cut off what fills the last block, which is not zeros but what the
\* buffer of the session held (Session.cpp:437). A file shorter than
\* LengthLimit arrives whole. Of a longer one, which the session sends whole,
\* the client takes no more than the remainder of its length (Session.cpp:411).
FileArrives ==
  receiver = "done" /\ ~ changed /\ fileLength # NoLength =>
    LET length == fileLength % LengthLimit
    IN  /\ SubSeq(text, 1, length) = File(length)
        /\ Len(text) - length < BLOCK_SIZE

\* The client takes the blocks of the file from the stream and no other byte,
\* and never waits for a block that does not come, as long as the file has a
\* length, keeps it, and is shorter than LengthLimit (Session.cpp:411): what is
\* next is the whole message after the file. The rest of a longer file would be
\* taken for messages.
StreamStaysInStep ==
  sender = "done" /\ ~ changed /\ fileLength \in 0 .. LengthLimit - 1 =>
    /\ receiver = "blocks" => Len(stream) >= BLOCK_SIZE * blocksLeft
    /\ receiver \in {"done", "refused"} => stream = IF keySent THEN KeyMessage ELSE <<>>
===============================================================================
