# CSDS: a TLA+ verification project

This directory holds TLA+ models of the programs in this repository, the TLC
configurations that check them on small instances, and TLAPS proofs about them.
The repository has three unrelated student projects; the one with concurrent
behaviour is Lab2, an encrypted file server with two clients.

## Inventory

### Lab2: the file server

| Part | State | Operations | Talks to |
| --- | --- | --- | --- |
| Main loop (`Server/Main.cpp`) | none | `poll`, then `TimerService::Step`; a `std::runtime_error` from either starts the loop again | io_context, timers |
| Accept loop (`Server/Server.cpp`) | one `Session` waiting for its peer | `StartAccept`, the accept handler | creates sessions |
| Session (`Server/Session.cpp`) | state machine, `asyncWaitByteLimit_`, socket, RSA key of the client, session key, one 1024-byte buffer for everything | read handlers, enter and exit functions of the states, `Abort` (`delete this`) | socket, timers, the two services |
| State machine (`Shared/StateMachine.cpp`) | the current state's name | `Consume(code)`: exit function, new state, enter function, and the code that one returns | called by Session |
| Timer service (`Server/TimerService.cpp`) | static priority queue | `AddTimer`, `RemoveAllTimers`, `Step` | calls back into sessions |
| Authentication (`Server/AuthService.cpp`) | a map of MD5 hashes, loaded on first use | `Check` | reads `auth.hashes` |
| Files (`Server/FileService.cpp`) | none | `Resolve` | reads `files/` |
| Codec (`Shared/RSA.cpp`, `Shared/Idea.cpp`, `Shared/MD5.cpp`) | none | RSA, IDEA in CBC mode, MD5 | both sides |
| Qt client (`Client/src/controller.cpp`, QML) | socket, RSA keys, current session key | `connectToServer`, `authenticate`, `loadFile`, `reset`, all blocking | the server |
| Dummy client (`DummyClient/Main.cpp`) | the same | one script: authenticate, three files, a key update between them | the server |

The server has one thread. Everything in it is a callback: `poll` runs the
completion handlers of sockets that are ready, `Step` runs the timers that are
due. What makes it hard:

- A session deletes itself (`Abort`), from inside its own handler or from inside
  a timer callback. Handlers and timers hold its raw address.
- Every authenticated session has a timer that writes it a new session key,
  between any two of its requests, while the asynchronous read of the next
  request is outstanding.
- Exceptions are the normal way out of a handler, of `poll` and of `Step`. All but one
  of them come from `Abort`.
- The bodies of requests are read synchronously, so one session can hold up all
  the others; files and answers are written synchronously.
- The clients learn of a new key from the same stream that carries answers.

What makes each part correct: a session that waits has exactly the read it
needs; timers and sessions match one to one and die together; `Step` ends, loses
no callback and starves none; a dead connection leads to a deleted session; no
handler outlives its session. Where the code does not keep to this, the properties say
exactly when. For the exchange with a client: both sides use the
same key for the same message, and every request is answered.

### Lab1: Vigenère

`VigenereEncoder` and `VigenereDecoder` (sequential filters over a file with a
key that advances on letters only), and `VigenereCracker` (distances between
repeated substrings, their divisors, a guess of the key length, frequency
analysis). They run one after another, by hand or from `CheckCracker.sh`, and talk
through files. Correctness: decoding inverts encoding; the distances are those of
the definition, the guessed length is a divisor of enough of them, and the key found is
the key wherever the method can find it.

### Lab4: elliptic curves

`EM.cpp` (points of a curve over a small prime field, their iteration, addition,
multiplication, the choice of a base point, key exchange, signatures),
`MathUtils.cpp` (modular arithmetic by brute force) and an experiment in
`Main.cpp`. Correctness: the group laws, the order of the base point, agreement
of the two key exchange sides, and that a signature made is accepted.

## Modules

| Module | What it is | Extends |
| --- | --- | --- |
| `TimerService` | the queue and `Step` of `TimerService.cpp` | |
| `Session` | all sessions of the server: states, reads, deletion, timer callback | `TimerService` |
| `Server` | the thread: main loop, accept loop, handlers; the properties | `Session` |
| `SessionLifecycle` | abstract specification: what the server promises of its sessions | |
| `Exchange` | one session and the Qt client: streams, keys, the shared buffer, answers | |
| `DummyExchange` | the same session and the script of the dummy client | `Exchange` |
| `KeyCodec` | RSA and the bytes of its numbers, from `GenerateKeys` to the key a client holds | |
| `AuthService` | `Check` and the table it reads from a file others write | |
| `FileTransfer` | the bytes of one file: chunks, padding, chaining, on both sides | |
| `Idea` | the cipher with narrow words, its key schedules and CBC | |
| `MD5` | how a text is gathered, counted and padded | |
| `VigenereCommon`, `Vigenere` | the alphabet; encoder and decoder, one after the other | |
| `Kasiski` | the cracker between the two | `Vigenere` |
| `EllipticGroup` | the operators of `EM.cpp` and `MathUtils.cpp` | |
| `CurveExperiment` | the loop of `Lab4/Main.cpp` over random curves | `EllipticGroup` |
| `Server_proof` | the inductive invariant of `Server`, the safety theorems, and that it implements `SessionLifecycle` | `Server` |
| `Exchange_proof` | the safety theorems of `Exchange` and their inductive invariant | `Exchange` |
| `DummyExchange_proof` | the same for the script of the dummy client | `DummyExchange`, `Exchange_proof` |
| `NaturalRecursion` | induction, recursion, division and congruence over the naturals and sums over finite sets, for the next four | |
| `Services_proof` | what the loop over the file leaves in the table; what MD5 has been given; sender and receiver of a file take the same blocks | `AuthService`, `MD5`, `FileTransfer`, `NaturalRecursion` |
| `Vigenere_proof` | encoder and decoder shift each symbol alike; what the cracker finds, predicts and cracks | `Kasiski`, `NaturalRecursion` |
| `Ciphers_proof` | decryption undoes encryption; RSA returns what it encoded, and numbers are read back from their buffers | `Idea`, `KeyCodec`, `NaturalRecursion` |
| `CurveExperiment_proof` | the counters of the experiment, the points it picks from, and its types: sums of points stay on the curve, and the count of an order ends; the group law; the orders of points, and that exchanges agree and signatures are accepted | `CurveExperiment`, `NaturalRecursion` |

`MCServer`, `MCExchange`, `MCDummy`, `MCShared`, `MCLab1` and `MCCurve` are the
instances for TLC.

`Server` EXTENDS `Session`, which EXTENDS `TimerService`: the C++ classes call
each other directly, so the modules share their variables. `Exchange` looks at one
session from the other side. The two divide the session between them: `Server`
lets any code arrive and any write fail and keeps track of reads, timers and
deletion; `Exchange` keeps track of what is in the streams and in the buffer, and
takes from `Server` when the timer callback may run (the session in
`WaitingForQueries`, its read incomplete; a completed read is handled before the
next `Step`, see `HandlerReady`). `DummyExchange` keeps the session of `Exchange`
and puts another client in the place of the Qt one.

Those modules take a key, a login and an answer as one value. The next five say
what that rests on, a byte at a time: that the key sent is the key received
(`KeyCodec`), that a login is looked up in the file that was read (`AuthService`),
that an announced file and nothing else is taken from the stream (`FileTransfer`),
that a block decodes to what was encoded (`Idea`), and that the hash is one of the
whole text (`MD5`). They do not interact while they run, so `MCShared` runs
whichever of them starts first, alone.

### How the state corresponds to the code

- A session is its **address** (`CallbackOwnerId`, the `void *` that owns a
  timer). `state[a]` is the name of its current state, `"Constructed"` between
  `new Session` and `Start`, `"Freed"` when nothing lives at `a`. `new` may return
  any free address, so a stale pointer may find a new session behind it.
- `limit[a]` is `asyncWaitByteLimit_`; `read[a]` is the `async_read`: pending, or
  completed with its handler queued (`"done"`, `"error"`), or none.
- `orphans[a]` counts handlers that were cancelled by the deletion of their session
  and have yet to run with the dangling `this`. Running one is undefined behaviour:
  the model lets the program be lost (`up` FALSE) or, if a new session lives at the
  address, that session be aborted in its place.
- `open[a]` says whether a session may still receive anything. Bytes on the wire
  are not modelled: any code may arrive where a code is read, and any write may fail.
- `callbacks`, `current`, `reschedule` are the queue and the locals of `Step`;
  `clock` is what `clock()` returns.
- `SessionKeyGeneration` is passed through inside a handler, with one exception. The
  client sends the numbers of its RSA key; with n = 0 `RSA::Encode` divides by zero
  (`RSA.cpp:57`, from `Session.cpp:327`), and that exception leaves `poll` without an
  `Abort`: `main` catches it (`Main.cpp:28`), the session keeps its state, and no read
  and no timer will ever run for it. Such a session is called stranded below.
- `running` is the session whose handler is on the stack. A handler is one step
  (`Consume`), except that it stops where it blocks in a synchronous read
  (`ValidatingAuth`, `SendingFile`) and goes on in `Serve`. Nothing else of the
  server runs meanwhile, but clients disconnect and time passes.
- `loop` is `"Poll"` or `"Step"`. One callback of `Step` is one step (`RunTimer`).
- `accept` is the `async_accept`: the session it is for and how far it has come.

In `Exchange`:

- `up` and `down` are the two directions of the connection. `up` holds parts of
  messages: the code byte, the rest of the input, blocks of the body, each with the
  number of its message in `made`. Whatever the session reads, it reads as an input
  (two parts) or as a body, so a stream out of step is misread as in the code: a
  block where a code is expected may be any code. `down` holds whole messages, with
  the key that each carries or is encoded with.
- `buffer` is what `async_read` has stored of the current input. `SessionKeyTimer`
  writes over it, as `WriteSessionKey` does; `overwritten` remembers that it did.
- `state`, `sessionKey` and `clientKey` are what they are called in the code; keys
  are numbered. `expect` is the size of the body announced by the input.
- `form` is the form the Qt client displays, or the call it is blocked in.
- A name or a login takes no block or more, up to a bound; a name is that of a file of
  the server or not, and a login is right or wrong. What is decoded with another key, or
  from other bytes, than it was encoded with is no such name and no such login. What
  `Resolve` opens is a file, nothing, or a directory: the empty name is that of `files/`
  itself, and bytes that are no name may be one of a directory too. `"DIRECTORY"` is an
  `STC_FILE` with the length a directory is given, 2^32 - 1 (`tellg` gives -1 or 2^63 - 1 and
  the session keeps 32 bits of it); after it the client is in `AwaitData` and takes all
  that comes for its data.

In the modules about bytes:

- `KeyCodec`: numbers are sequences of digits of base 3, two for the session key, the
  primes and e (16 bytes) and four for n and the encoded key (32 bytes). RSA is
  computed. `export_bits` writes no leading zero, so a shorter number moves up and the
  stale digits of the buffer follow; every stale content is tried.
- `AuthService`: `authFile` is what is on the disk, any count with any number of
  hashes after it; `loginPasswordHashes` is the map. `passwordHash` is a local that
  keeps its value when the second read of a pair fails.
- `FileTransfer`: a byte is named by its origin (the file, a header, a request that
  was in the buffer before). `fileLength` is the length of the file, or `NoLength`;
  `announced` is what a `uint32_t` keeps of it, with `LengthLimit` in the place of 2^32. A
  block of cipher text is named by its number in the
  chain, and decodes to its text only with the block before it.
- `Idea`: `chain` is the initial block and the blocks of a text; `encoded` and
  `decoded` are what the consumers were given.
- `MD5`: one step per call of `update`; `digest` is the list of blocks that
  `transform` was given. Where a byte of the text is shows in its name.

In Lab1 the variables are the locals of the three programs, which run in the order of
a `script`; a symbol is a letter with a code and a case, or another symbol. The
cracker walks its hash table in any order. In Lab4 they are the locals of `main`;
`rand` is a choice.

`Boost.Asio` is external. Assumed of it: `poll` returns only when no handler is
queued; closing a socket queues the handlers of its outstanding reads; nothing is
assumed about the order in which queued handlers run.

## Runs

| Run | Checks | Instance |
| --- | --- | --- |
| `server` | `TypeOK`, `ReadMatchesState`, `OneSessionListens`, `OneTimerPerSession`, `NoRetryIsLost`, `OnlyStepAbortsBreak`, `ImplementsLifecycle`, `StepTerminates`, `DueTimerFires`, `DeadSessionFreed` | 3 addresses, period 1, clock up to 2 |
| `exchange` | `TypeOK`, `KeysAgree`, `FilesDecipherable`, `FileAnswersRequest`, `AuthAnswerComesFirst`, `RefusalFollowsUpdate`, `CallsReturn` | keys up to 2, 4 messages of the client, 6 blocks |
| `exchange_refusal` | `ExistingFileIsSent`, found violated | keys up to 3, 4 messages, 2 blocks |
| `exchange_stall` | `RequestsAreAnswered`, found violated | the same |
| `dummy` | `ScriptKeysAgree`, `GivesUpOnlyForAReason`, `SuccessIsComplete`, `ScriptEnds` | 3 requests as in the code, keys up to 6 |
| `shared` | `KeyArrives`, `ChecksAgainstFile`, `FileArrives`, `StreamStaysInStep`, `DecodingUndoesEncoding`, `HashesThePaddedText` | see below |
| `idea_test` | `BlocksRoundTrip`, found violated | the same |
| `lab1` | `DecodedIsPrefix`, `EncodedByLetterCount`, `CrashNeedsEmptyKey`, `DistancesAreGaps`, `PredictionDivides`, `CracksTheText` | 3 letters, files up to 3 symbols; texts of 8 symbols and of none with keys of 2 and 3 letters and of none, substrings of 2 |
| `key_length` | `PredictionIsGreatest`, found violated | the same |
| `curve_experiment` | `TypeOK`, `PointsFormAGroup`, `IteratesInnerPoints`, `OrderIsPrimeFactor`, `RightOrderIsAccepted`, `EveryTestIsCounted`, `ExchangesAgree` | every curve modulo 3, 5 and 7, two tests |
| `curve_order` | `OrderIsExact`, found violated | every curve modulo 7, order 5 or more, one test |
| `curve_points` | `AllPointsAreSeen`, found violated | the same |

### The server

Three addresses are two sessions with clients and the one that listens: enough
for two timers in one `Step`, for one session to be aborted there while the other
waits its turn, for an address to be used again while a handler of its former
owner is queued. The clock bound leaves room for each timer to fire, be queued
again and fire again. The proofs below show that the safety results do not depend
on these numbers. Deadlock is not checked because the program may be lost, after
which nothing happens; while it is up, `StepTerminates` and `DeadSessionFreed`
state progress. There is no symmetry, as the run has liveness properties.

What the properties say together: sessions never lose their read or their timer, but
for the stranded one, which has neither and is never deleted (`ReadMatchesState` says
that it is the only one, `DeadSessionFreed` that every other session goes with its client);
`Step` never has to retry a callback; and the one way in which the server can break
is a key update whose write fails inside `Step`. There `Abort` deletes a session
whose read is outstanding, and its handler later runs on freed memory. Every other
abort happens in the session's own handler, when no read is outstanding, and is
harmless. `OnlyStepAbortsBreak` draws exactly that line, and TLC reaches the broken
side of it: the actions `HandleOrphan` and `HandleAcceptDangling` do fire.

### The exchange

Four messages of the client are the RSA key, a login and two requests (or a login that
fails first); two keys are the first one and an update, which may come before, into or
after a request. A body of one block is shorter than an input, one of six holds a
misread input, a body for it and another input: what is left of a misread request is
read, answered, and read again. A body of no block is an empty login or name. The two runs
that find a violation have a third key and bodies of up to two blocks. The proofs below hold for every bound. Deadlock
is not checked in the exchange: it ends when the user closes the connection or
the bounds are reached.

What the exchange shows: the sides never disagree about the key for good, a file
always decodes, and no file goes to the wrong request, even when the server has
lost its place in the stream. The first two end for a client that has been told of a
directory: it takes whatever comes for data. `FileAnswersRequest` says it in two halves. Until an
update overwrites an input, there is at most one answer on its way, to the request the
client waits for, and beside it only updates. Afterwards one request may be answered
twice, so the client can be a request ahead of the answers it reads, and a directory may
be announced that nobody asked for, since a misread size may be 0; even then files
come in the order of their requests, each at most once. Two things go wrong, each in a
run of its own:

- `exchange_refusal`: the client encodes a name, the key is updated, the session
  decodes the name with the new key and refuses a file that exists. The Qt client
  reads updates only while it waits for a file, so this happens to its first
  request after any update. `RefusalFollowsUpdate` is the good half: the new key
  is read before the refusal, so asking again helps.
- `exchange_stall`: an input arrives in two segments and the timer fires between
  them. `WriteSessionKey` uses the buffer the read is filling, the request's code
  becomes `STC_SESSION_KEY`, and its body is taken for the next input. The client
  waits for ever.

`CallsReturn` names what may keep a call of the client: an overwritten input, or a
directory (`WaitsForDirectory`). The form sends what was typed (`FileChooser.qml:47`), and
the empty name always opens the directory; the name of a file does so only if it was
encoded with a key that has been updated, as its bytes are then arbitrary. The client
waits for 2^32 - 1 bytes in both cases. Nothing else of the exchange keeps a call, as
long as an announced file comes as announced; when it does not is the matter of
`FileTransfer`.

`dummy` has the same session with a client that reads a file at once and waits for an
update after each but the last. Its timer may fire, and the connection fail, at any
time. The script keeps the session's keys; an update that comes where it expects a
file ends it. `GivesUpOnlyForAReason` says that it has no other reason than that or a
refusal, `SuccessIsComplete` that 0 means three files under three keys, although 0 is
also what it would return after an exception, which `result` tells apart, and
`ScriptEnds` that it never waits for ever, not even for a request that was overwritten,
unless a request that was not legible opened a directory and the connection stays.

### The parts of Lab2 that work on bytes

`shared` explores each of the five modules completely for its bounds:

- `KeyArrives` (base 3, primes up to 7, two session keys, every stale buffer): the
  client has the session's key unless n, e, the key or its encoding begins with a zero
  digit, which is seldom in the code. The second key matters: a generated
  key with a leading zero is filled up by the last digits of the one before it, and that
  is the key that is sent.
- `ChecksAgainstFile` (two hashes, up to two pairs, every place where a file can be cut
  off, the file changed at any time): the result is that of the file the table was read
  from. It states the one exception exactly: the login after which a file is cut off is
  approved with the password of the pair before, or with none if the cut is in a hash.
- `FileArrives`, `StreamStaysInStep` (blocks of 2 bytes, a buffer of 3 blocks, lengths told
  modulo 12, files up to 14 bytes, which are two full buffers and a block): files of every
  length, so every remainder of a block and of a buffer occurs, also 0 and full buffers,
  after which the loop takes a turn that sends nothing. A file of 4 GiB or more (12 to 14
  bytes here) is announced modulo 2^32 (`Session.cpp:411`) and sent whole: `FileArrives` says
  that the client then has the beginning of it, as long as the remainder and less than a
  block more, and `StreamStaysInStep` leaves these files out, as the rest of one is taken
  for messages. Both assume that the file is not written to while it is sent and that it
  has a length; the model has runs in which neither holds, and there the client waits for
  blocks that never come.
- `DecodingUndoesEncoding` (words of 4 bits; 17 is a prime as 65537 is; 144 keys, six
  chains): the decryption keys invert the encryption keys, including the swap that the
  first and the half round do not have, whenever no inverted subkey is 0. `idea_test`
  shows that the condition is needed.
- `HashesThePaddedText` (2 bits a byte, blocks of 8, two words of 3 bytes for the count,
  texts of up to 70 bytes): every remainder of a block and lengths at which the low word
  of the count wraps.

Widths and sizes are constants of the modules in the place of the code's; the
assumptions name what the code relies on (2^16 + 1 prime, the count shorter than a
block).

### Lab1 and Lab4

Texts of eight symbols have substrings of two letters that recur at several
distances, windows broken by another symbol, and ties between divisors. What the run
shows of the cracker: the distances are those of the definition; in any order of the
hash table, the length predicted is the greatest number often enough counted
(`OftenEnough`). The count is not the one that Lab1's README describes: it takes each
different distance once, never for itself, and counts the root of a square twice, while the
total is that of all distances found (`main.cpp:20`, `:27`, `:79`, `:87`). What is often enough
counted divides 40% of the distances, but for that root (`PredictionDivides`); it is not
always the greatest number that does (`key_length`: a key of 3 letters and a text of 8 equal
letters have the one distance 3, four times, and the prediction is 0).
`CrashNeedsEmptyKey` gives the only way to a remainder by zero.

Modulo 3, 5 and 7 there are curves with points of order 2, curves whose inner points
are few, and base points of odd and of even order. The iterator visits exactly the points
with both coordinates above 0 (`IteratesInnerPoints`), not all points, as Lab4's README has
it (`curve_points`); `OrderIsPrimeFactor` is about the points it visits. The group laws hold
for all of the curves; `PickRandomG` takes half of an even order for the order (`curve_order`), and then,
and only then, a valid signature may be refused (`RightOrderIsAccepted`).

### What disagrees with the repository

| Run | Code | What |
| --- | --- | --- |
| `exchange_refusal` | `Lab2/Server/Session.cpp:394` | an existing file is refused after a key update |
| `exchange_stall` | `Lab2/Server/Session.cpp:323` | a key update overwrites a request in the buffer; the client waits for ever |
| `idea_test` | `Lab2/Shared/Idea.cpp:35` | the inverse of 0 is taken for 1: a key with such a subkey does not decode |
| `curve_order` | `Lab4/EM.cpp:146` | the order of G is half the true one when that is even |
| `key_length` | `Lab1/VigenereCracker/main.cpp:20` | a distance is not counted for itself, and one found many times counts once: not the greatest number that divides 40% |
| `curve_points` | `Lab4/EM.cpp:88` | the pass that chooses G leaves out the points on both axes |

Of the following the repository says nothing; the properties state them as exceptions: the
session stranded by a key with n = 0 (`Session.cpp:327`; `ReadMatchesState`,
`DeadSessionFreed`), the directory announced in the place of a file (`FileService.cpp:10`;
`CallsReturn`, `ScriptEnds`), the file of 4 GiB or more (`Session.cpp:411`; `FileArrives`,
`StreamStaysInStep`), and the session aborted inside `Step` (`Session.cpp:334`;
`OnlyStepAbortsBreak`).

### Fairness

- `StepFairness`: `Step`, once entered, goes on. It is ordinary code.
- `HandlerFairness`: strong fairness of the reactor and of the start of each
  handler, because every `poll` runs the reactor and handlers queue up in order;
  weak fairness of a started handler, which includes that a client that has begun a
  request sends the rest of it or loses its connection. The code has no timeout
  there: a client that stays silent stops the server, so without that assumption
  no session is sure to be deleted. It is the hypothesis of `DeadSessionFreed`, for the session the
  property is about, and not part of `TimerSpec`, so the properties of the timers do
  not rest on it.
- That `poll` returns is *not* assumed, since enough traffic can keep it going.
  `DueTimerFires` therefore carries the hypothesis that `Step` is entered again and
  again, and `StepTerminates` is about a `Step` that has been entered.

- `Fairness` of `Exchange`: the network delivers, the server runs what is ready for
  this session (no other session holds it up), the client's reads return. Nothing
  is assumed of the user or of the timer, which may fire at any time or never.
- `DummyFairness`: the same of the session, and the script, which is one thread, goes
  on. Here the timer has to fire while the session waits for queries, which it does
  after every period of 20 s of processor time. Six keys are more than the script ever reads,
  so `ScriptEnds` does not depend on the bound.

## Proofs

`Server_proof` proves, for every set of addresses, period and clock bound, that
`Inv` is an inductive invariant:

    Inv == TypeOK /\ OneSessionListens /\ ReadMatchesState
             /\ OneTimerPerSession /\ NoRetryIsLost /\ OnlyStepAbortsBreak

None of its parts is inductive alone, and `ReadMatchesState` allows for the stranded
session. `OneTimerPerSession` and `ReadMatchesState` together show that a due timer finds its session in `WaitingForQueries` with the
right read outstanding (no handler runs during `Step`, so the session is not in
`SendingFile`), hence `NoRetryIsLost`. `ReadMatchesState` shows that a handler that
aborts its session leaves no read behind, hence `OnlyStepAbortsBreak`.
`OneSessionListens` shows that a started session begins with neither. The lemmas
on `Abort`, `EnterWaiting` and `StartSessionKeyUpdateTimer` are shared by the
actions that use them.

The end of the module proves `Spec => ImplementsLifecycle`. It adds that `Step`
works with a time that has passed (`StepIsLate`), so an update is never early, and
maps every step of `Server` to a step of `SessionLifecycle` or a stutter.

`Exchange_proof` proves the six safety properties of the exchange for every bound on
keys, requests and blocks, in layers that each use those before:

1. `TypeInv`: the types, with what they rest on. Each part of a request in `up` or in
   `buffer` is one of a request made (`PartsAreKnown`), and a request is served only
   when its whole input is in `buffer` (`InputIsWhole`).
2. `Orderly`: until an input is overwritten, where the message of a blocked call is: in
   `up`, in `buffer`, being served, or answered in `down`, and nothing else is with it.
   `AuthAnswerComesFirst` and the first half of `FileAnswersRequest` follow.
3. `KeysInv`: `KeysAgree`, `FilesDecipherable` and `RefusalFollowsUpdate`, inductive
   together because no update is skipped, which is what layer 2 shows. The first two hold
   until the client waits for the data of a directory, a wait that only the end of the
   connection ends.
4. `OrderInv`: after an overwrite too, inputs that name a request come in the order
   of the requests (`RestsInOrder`), and the session has still to read only those
   made after every request whose file is on its way (`FilesPrecede`).

`DummyExchange_proof` reuses what that module says of the session's steps.
`DummyInv` adds to the types which requests the script has made (`ScriptInv`); that
requests and updates come with ever newer keys (`ScriptKeysInv`); where the answer to
the last request is, or, once an input was overwritten, that the script gets no further
(`PacedInv`); and that the updates unread and those the script took to get where it
is are no more than the keys generated (`CountInv`). From the last two follows
`GivesUpOnlyForAReason`: a script that finds an update in the place of a file was
overtaken by the timer. `EndInv` keeps what is true when it returns.

`NaturalRecursion` proves what the other modules need of numbers. Its induction is
about sets of naturals and comes from the pigeonhole principle; with it, a function
defined by recursion exists and satisfies its equation. A sum over a finite set, which
the community modules define by taking one element after the other, is the number of
units in it, whatever the order; so sums are compared as sets are. `Alike` is
congruence, and `PrimeFactor` says that a prime divides a product only if it divides a
factor.

- `Services_proof`, `AuthService`: what the table is after each turn of the loop, by
  induction over the turns: a login has the password of the last pair that names it among those read,
  and the exception is the login at which the file ends. `AuthInv` keeps the table
  together with the file it was read from while that changes on the disk.
- `Services_proof`, `MD5`: `Taken` says that a text has been given to `update`, in one call
  or several: its blocks are the digest, the rest of it is at the start of the buffer,
  and the count is its number of bits. One call of `update` takes its input
  (`UpdateTakes`), whether it fills the block or not, as the carry into the second word
  is that of the sum (`Carries`) and a block is a whole number of times in a word
  (`PlaceInBlock`). `Hashed` says what has been taken before each step; `PadLen` is the
  only length that ends a block (`PadLenFits`), and the two words that `finalize` keeps
  are the digits of one number (`WordsCounted`).
- `Vigenere_proof`: the place in the key is the number of letters so far, modulo the
  length of the key, so the shift of a symbol is a function of the text before it. A
  symbol is a letter after the shift if and only if it was before, so the decoder
  finds the same number. `ScriptInv` says how far each program is (`EncoderOK`,
  `CrackerOK`, `DecoderOK`) and with what files. The cracker has four invariants more.
  `SearchInv`: the window is the run of letters before the place, the table has the
  last place of each substring, and the distances count the pairs of an occurrence and
  the next up to here. A counter of the hash table is the number of different distances
  its number properly divides, and one more if it is the root of one (`CountedTimes`,
  `SquareDivides`). `PredictInv`: of the divisors the loop has seen, none that is
  frequent enough is greater than the length. `CountInv`: each counter is the number of
  letters of its kind at its place of the key. `CrackInv`: the key written is that of the
  encoder, if the text is typical, and then the decoder restores the text; this rests
  on the letters at one place of the key being all shifted alike (`ColumnsShift`), so
  that the most frequent letter gives the shift (`GuessesShift`).
- `Services_proof`, `FileTransfer`: `TransferInv` relates the two loops, whatever the number of
  lengths that can be told apart. The blocks sent are the
  bytes of the file up to `position`; until the last turn of the sender's loop they are
  full; the client has decoded the first of them, and before it in the stream are the
  others and then whatever the session says next. It holds as long as the file has a
  length and is not written to, as the properties assume. The client counts the blocks of
  the length announced, which are no more than those of the length (`AnnouncedIs`,
  `BlockCountGrows`), and the same if that is below `LengthLimit`.
- `Ciphers_proof`, `Idea`: `DecodingUndoesEncoding` for every width of words with a prime
  one above the number of words, every key and every chain. `Kept` is the invariant of
  the loop of `modInverse`: each remainder is its coefficient times the number, modulo
  the prime, and the product of coefficient and remainder across the two rows is the
  prime, which bounds the coefficients by it; so what is returned is the inverse
  (`InverseIs`). A word 0 stands for the number of words in a product, so each product
  with a word is undone by the product with its inverse, except by 0: 0 should be
  its own inverse, and the code gives 1; hence the condition on the subkeys. `EncryptSubKeys` and `DecryptSubKeys` are
  related round by round, the swapped additions included; what a round mixes after
  its first half is an exclusive or that does not change what it was computed from, so
  a second one with the same subkeys removes it (`FoldedTwice`), and `RoundUndone` says
  that decryption goes through the words before each round in reverse. `ChainInv` then
  follows the chain: what is sent, what the receiver has decoded of it, and which
  block both combine the next one with.
- `Ciphers_proof`, `KeyCodec`: `KeyArrives` for every base, every size and every set of primes.
  Fermat's little theorem comes from the product of the numbers below a prime, which
  is the same after each was multiplied by a number that the prime does not divide
  (the pigeonhole principle makes that a permutation). With two different primes
  `DecodeReturns`: an exponent that is 1 modulo p - 1 and q - 1 returns every number below
  p q, those that p or q divides included. `ImportReturns` reads a number back from
  what `ExportBits` left in a buffer if it fills its place, whatever was in the buffer
  before. `KeyInv` says what the message on its way is, and that the session has
  read the n and e that were sent.
- `CurveExperiment_proof`: `EveryTestIsCounted`, with the place of the program and the
  type of its counters (`CountInv`), and `IteratesInnerPoints`. For this, what the trial
  division finds prime divides a product only if it divides a factor (`NoZeroProduct`:
  the least number whose product with the second factor is a multiple divides the
  prime). So a square has at most two roots, and `Negate` makes the greater of
  the lesser, which `UpdateCurrentY` finds (`CurrentYIsRoot`). `IterInv`: the points
  seen are those before the iterator, in the order of x and then of y. And `TypeOK`,
  for which the count of an order has to end. The cubic less the square of the line
  through two of its points splits into three factors (`CubicSplits`), so the sum is a
  point of the curve (`SumOnCurve`). A summand that is not its own negative can be found
  from the sum and the other summand (`SameSummand`), and no sum with a point is that
  point (`SumMovesOn`), so the multiples of a point do not repeat before the count
  stops (`ChainDistinct`); a curve has no more than twice the modulus points, as
  each x has at most two (`PlacesDiffer`). `TypeInv`: keys and signatures are below the
  order, and a test goes on only if there is one left.
  And `PointsFormAGroup`, for every curve modulo an odd prime. Points are summed
  along a line y = s x + t: a `Triple` is a line and the three points where it meets
  the curve, a point counted as often as the line touches there. The negative of a sum
  makes a triple with the summands (`SumTriple`), and the third point of a triple is
  the negative of the sum of the other two (`TripleSum`), so the points of a
  triple may be taken in any order (`TripleTurns`). `SumIsNone`: what the code takes for the
  infinite point is the sum of opposite points only. For associativity, the line through A
  and B and the one through B and C cross in B; the line through A + B and C and the
  one through B + C and A then meet the curve in the same third point, which is
  given by the slopes of the first two (`FourthPoint`), unless these are one line
  (`OneLine`). Where a sum on the way is none, what was added must come off again
  (`SumCancels`): this needs a tangent at every point, which the test of `RandomGenerate`
  gives (`DiscriminantIs`, `SumIsNew`) - but not modulo 2, where the one curve it
  lets pass is singular and addition is not associative. The theorem
  `GroupOfPoints` leaves m = 2 out, and the runs do too. No base point is found there:
  the only inner point is its own negative, and its count is 1 (`CountModuloTwo`).
  On the group law rest `OrderIsPrimeFactor`, `ExchangesAgree` and
  `RightOrderIsAccepted`, for every prime. `Multiple` is the function that adds a point
  again and again; `MultipleSum` and `MultipleProduct` are its laws. A multiple repeats,
  as there are finitely many points, so every point has an order (`OrderExists`), and a
  multiple is none exactly if the order divides its number (`OrderDivides`). The count
  of the code stops where twice the multiple is none, at the order or half of it
  (`CountedOrder`). Adding a point moves every element along an orbit, all orbits have
  as many elements as the order says, and they fill the curve (`OrbitsFill`), so the
  order divides the number of points (`OrderDividesCount`).
  `MultiplyPoint` throws where a sum or a double on the way is none. Below a prime above
  2 that divides the order, none is (`TurnMultiplies`), so it computes the multiple
  (`ProductIs`), and both sides of an exchange reach the multiple by the product of the
  keys (`ViewsAgree`). In a signature the factors u1 and u2 make the key again: u1 plus
  u2 times Alice's key is the key modulo the order taken (`FactorsMakeKey`). So the sum
  that the check computes is a point, and the one that signed if the order taken is the
  true one (`CheckIs`). The inductive invariants are `BaseInv`, that the order is the
  greatest prime counted and G a point it was counted for, and `SignedInv`,
  that the signature is one that `Sign` makes with Alice's key.

The theorems assume of the constants what the modules do:

| Assumption | What it says |
| --- | --- |
| `PeriodAssumption`, `MaxClockAssumption`, `NoSessionAssumption` | the period is a positive natural, the clock bound a natural; `NoSession` is no address |
| `BoundsAssumption`, `ScriptAssumption` | the bounds of the exchange are naturals, a body may have a block; the script requests at least one file, and sends two messages before that |
| `HashAssumption` | the number of pairs is bounded; what half a hash leaves is the hash of nothing |
| `AlphabetAssumption`, `FilesAssumption`, `CrackerAssumption` | there is a letter; texts and keys are sequences of symbols; substrings are not empty and the most frequent letter is one |
| `SizesAssumption` | bytes and words have a size, the two words of the count are less than a block, and a word counts a whole number of blocks |
| `WidthAssumption`, `InputAssumption` | a word has two bits or more, and one more than the number of words is a prime; keys are eight words, chains are not empty and consist of blocks of four words |
| `CodecAssumption` | the base is 2 or more, the sizes are positive; the primes are primes that fit into the key size |
| `TransferAssumption` | a block has a byte, a buffer a block, and there is a length to tell; the bound on files is a natural |
| `ModuliAssumption`, `OrderAssumption`, `CountAssumption`, `HashesAssumption` | moduli are primes, the order required is 3 or more, the tests a natural number, hashes natural numbers |

Model-checked only:

- the liveness properties (`StepTerminates`, `DueTimerFires`, `DeadSessionFreed`,
  `CallsReturn`, `ScriptEnds`), which need fairness and ENABLED, out of reach of the
  provers used here;
- what the runs that expect a violation show, a counterexample each.

## Not modelled

Not modelled, with the reason:

- `MD5::transform` and `hexdigest`: a fixed mixing of words without control, and its
  printing. `GetPrimesUntil` of Lab4 is never called.
- The primality tests of `random_prime` (Boost), and the chance that two calls within
  one tick of `clock ()` give the same prime.
- The encoding of text: sizes in UTF-16 units beside bytes in UTF-8
  (`controller.cpp:90`).
- Socket buffers: writes end or fail. A client that does not read can block the server
  (`Session.cpp:331`), and one that stays silent in a request does (`Session.cpp:354`);
  the fairness assumes neither.
- Overflow of 64 bits in Lab4 (`EM.cpp:91`) and the undefined end iterator of Lab1
  (`File.cpp:7`).
- Names and logins of 256 bytes or more, whose size does not fit into the byte it is sent
  in (`controller.cpp:90`, `:134`): the models take sizes as announced.
- A connection on which 2^32 - 1 bytes of key updates are sent to a client that waits for
  a directory: `AwaitData` never ends but with the connection.
- Arguments, printing, logging, layout of the Qt screens.

All safety and action properties of the passing runs are theorems; the liveness
properties stay with TLC.
