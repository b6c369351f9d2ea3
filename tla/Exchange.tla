------------------------------- MODULE Exchange -------------------------------
(***************************************************************************)
(* One session of the file server and the Qt client it serves              *)
(* (Lab2/Server/Session.cpp, Lab2/Client/src/controller.cpp), joined by    *)
(* the two byte streams of a TCP connection.                               *)
(*                                                                         *)
(* The module Server abstracts from what clients send; this one is about   *)
(* nothing else: how requests are cut out of the stream, which session key *)
(* each side uses for what, and which answer a request gets. From Server   *)
(* it takes that a timer callback may run whenever the session waits for   *)
(* queries and its read is incomplete, and at no other time.               *)
(*                                                                         *)
(* Bytes are counted in parts. The input of a waiting state is two parts,  *)
(* the code byte and the rest; a block of the body of a request is one, so *)
(* that one block is less than an input and two blocks are not (8 < 10 <=  *)
(* 16 bytes). A login or a name may be empty, and then its body has no     *)
(* block. Session keys are numbered in the order they are generated, and   *)
(* taken to differ from each other.                                        *)
(*                                                                         *)
(* An answer with a file is one message: a file has the length announced,  *)
(* and is decoded whole. (Lengths are the matter of FileTransfer.) A       *)
(* directory has none: opened in the place of a file it is announced with  *)
(* 2^32 - 1 bytes, and nothing follows.                                    *)
(***************************************************************************)
EXTENDS Naturals, Sequences

CONSTANTS
  MaxKeys,      \* bound of the model: the timer generates keys up to this one
  MaxRequests,  \* bound of the model: messages the client sends
  MaxBlocks     \* bound of the model: blocks of the body of a request

ASSUME BoundsAssumption ==
  MaxKeys \in Nat /\ MaxRequests \in Nat /\ MaxBlocks \in Nat \ {0}

VARIABLES
  state,      \* the state of the session, "Closed" once it is deleted
  buffer,     \* Session::buffer_: the parts of the input received so far
  expect,     \* blocks of the body the session reads synchronously
  sessionKey, \* Session::currentSessionKey_ (0: none yet)
  form,       \* the client: the form on display, or what it blocks on
  clientKey,  \* Controller::_crypto.currentSessionKey (0: none yet)
  made,       \* history: the messages the client has sent
  up, down,   \* what is on its way to the server, and to the client
  overwritten \* history: has a key update hit an input partly received

serverVars == <<state, buffer, expect, sessionKey>>
clientVars == <<form, clientKey, made>>
vars == <<serverVars, clientVars, up, down, overwritten>>

Key == Nat
Code == {"STC_SESSION_KEY", "STC_FILE", "STC_UNABLE_TO_SEND_FILE",
         "STC_AUTH_SUCCESSFUL", "STC_AUTH_FAILED",
         "CTS_RSA_KEY", "CTS_FILE_REQUEST", "CTS_AUTH_REQUEST", "OTHER"}

\* A message of the client: "good" stands for a login and password that are
\* right, or the name of a file that the server has.
\* No file has the empty name.
Request ==
  {r \in [code : {"CTS_RSA_KEY", "CTS_AUTH_REQUEST", "CTS_FILE_REQUEST"},
          key : Key, blocks : 0 .. MaxBlocks, good : BOOLEAN] :
     r.code = "CTS_FILE_REQUEST" /\ r.good => r.blocks > 0}
\* A part of the message made[id], or what a key update left in the buffer.
Part == [part : {"code", "rest", "block", "update"}, id : 0 .. MaxRequests]
\* A message of the server: the key it carries, or is encoded with, and the
\* request it answers. "DIRECTORY" is an STC_FILE that announces a directory.
Answer == [code : Code \cup {"DIRECTORY"}, key : Key, id : 0 .. MaxRequests]
\* The answers to the request for a file that bring none.
NoFile == {"STC_UNABLE_TO_SEND_FILE", "DIRECTORY"}

Waiting == {"Initial", "WaitingForAuth", "WaitingForQueries"}
\* What a call of the client blocks on: the next message, or (AwaitData) the
\* bytes that were announced with a directory.
Awaiting == {"AwaitKey", "AwaitAuth", "AwaitFile", "AwaitData"}

InputSize == 2

Forms == Awaiting \cup {"ServerChooser", "LoginForm", "FileChooser", "Closed"}

\* All but what the client is doing.
DataOK ==
  /\ state \in Waiting \cup {"ValidatingAuth", "SendingFile", "Closed"}
  /\ buffer \in Seq(Part) /\ Len(buffer) <= InputSize
  /\ expect \in 0 .. MaxBlocks + 1
  /\ sessionKey \in Key
  /\ clientKey \in Key
  /\ made \in Seq(Request) /\ Len(made) <= MaxRequests
  /\ up \in Seq(Part)
  /\ down \in Seq(Answer)
  /\ overwritten \in BOOLEAN

TypeOK == DataOK /\ form \in Forms

Init ==
  /\ state = "Initial" /\ buffer = <<>> /\ expect = 0 /\ sessionKey = 0
  /\ form = "ServerChooser" /\ clientKey = 0 /\ made = <<>>
  /\ up = <<>> /\ down = <<>>
  /\ overwritten = FALSE

-----------------------------------------------------------------------------
(* The client. Each of its calls blocks the user interface. When it fails  *)
(* to connect it gives up: the next attempt is another exchange.           *)

\* One write: the code byte, the rest of the input, the blocks of the body.
Put(request) ==
  LET id == Len(made) + 1 IN
  /\ made' = Append(made, request)
  /\ up' = up \o <<[part |-> "code", id |-> id], [part |-> "rest", id |-> id]>>
              \o [i \in 1 .. request.blocks |-> [part |-> "block", id |-> id]]

Send(request) ==
  /\ Len(made) < MaxRequests
  /\ Put(request)
  /\ UNCHANGED <<clientKey, down, overwritten, serverVars>>

ConnectToServer ==
  /\ form = "ServerChooser"
  /\ form' = "AwaitKey"
  /\ Send([code |-> "CTS_RSA_KEY", key |-> 0, blocks |-> 0, good |-> TRUE])

Authenticate ==
  /\ form = "LoginForm"
  /\ form' = "AwaitAuth"
  /\ \E blocks \in 0 .. MaxBlocks, good \in BOOLEAN :
       Send([code |-> "CTS_AUTH_REQUEST", key |-> clientKey,
             blocks |-> blocks, good |-> good])

\* The name is what the user typed, be it nothing.
LoadFile ==
  /\ form = "FileChooser"
  /\ form' = "AwaitFile"
  /\ \E blocks \in 0 .. MaxBlocks, good \in BOOLEAN :
       /\ good => blocks > 0
       /\ Send([code |-> "CTS_FILE_REQUEST", key |-> clientKey,
                blocks |-> blocks, good |-> good])

\* What the client does with the next message, which it takes off the stream.
Receives ==
  /\ down # <<>>
  /\ down' = Tail(down)
  /\ UNCHANGED <<made, up, overwritten, serverVars>>

ReadFirstKey ==
  /\ form = "AwaitKey"
  /\ Receives
  /\ IF Head(down).code = "STC_SESSION_KEY"
       THEN form' = "LoginForm" /\ clientKey' = Head(down).key
       ELSE form' = "Closed" /\ UNCHANGED clientKey

ReadAuthAnswer ==
  /\ form = "AwaitAuth"
  /\ Receives
  /\ form' = IF Head(down).code = "STC_AUTH_SUCCESSFUL" THEN "FileChooser"
                                                        ELSE "LoginForm"
  /\ UNCHANGED clientKey

\* Mutant: a key update ends the wait for the file.
ReadFileAnswerStops ==
  /\ form = "AwaitFile"
  /\ Receives
  /\ form' = "FileChooser"
  /\ clientKey' = IF Head(down).code = "STC_SESSION_KEY" THEN Head(down).key
                                                         ELSE clientKey

\* Mutant: a key update is skipped over.
ReadFileAnswerSkips ==
  /\ form = "AwaitFile"
  /\ Receives
  /\ form' = IF Head(down).code = "STC_SESSION_KEY" THEN form
                                                    ELSE "FileChooser"
  /\ UNCHANGED clientKey

\* The loop of loadFile: a key update is not an answer. (The blocks of a file
\* are part of its message here.)
ReadFileAnswer ==
  /\ form = "AwaitFile"
  /\ Receives
  /\ IF Head(down).code = "STC_SESSION_KEY"
       THEN clientKey' = Head(down).key /\ UNCHANGED form
       ELSE /\ form' = IF Head(down).code = "DIRECTORY" THEN "AwaitData"
                                                        ELSE "FileChooser"
            /\ UNCHANGED clientKey

\* Whatever comes is taken for the data of the directory: far less of it than
\* was announced, until the connection ends.
ReadAsData ==
  /\ form = "AwaitData"
  /\ Receives
  /\ UNCHANGED <<form, clientKey>>

\* The end of the stream: the read throws and the form reports an error.
ReadFails ==
  /\ form \in Awaiting
  /\ state = "Closed"
  /\ down = <<>>
  /\ form' = CASE form = "AwaitKey" -> "Closed"
               [] form = "AwaitAuth" -> "LoginForm"
               [] form \in {"AwaitFile", "AwaitData"} -> "FileChooser"
  /\ UNCHANGED <<clientKey, made, up, down, overwritten, serverVars>>

\* The user goes back to the choice of the server; the socket is closed.
Reset ==
  /\ form \in {"LoginForm", "FileChooser"}
  /\ form' = "Closed"
  /\ UNCHANGED <<clientKey, made, up, down, overwritten, serverVars>>

-----------------------------------------------------------------------------
(* The session.                                                            *)

\* Mutant: transfer_at_least in the place of transfer_exactly.
ReceivePartAtLeast ==
  /\ state \in Waiting
  /\ up # <<>>
  /\ buffer' = Append(buffer, Head(up))
  /\ up' = Tail(up)
  /\ UNCHANGED <<state, expect, sessionKey, clientVars, down, overwritten>>

\* Some of the input has arrived: async_read stores it in buffer_.
ReceivePart ==
  /\ state \in Waiting
  /\ Len(buffer) < InputSize
  /\ up # <<>>
  /\ buffer' = Append(buffer, Head(up))
  /\ up' = Tail(up)
  /\ UNCHANGED <<state, expect, sessionKey, clientVars, down, overwritten>>

\* What the byte at the start of the input may be: anything, if it is part of
\* an initial block or of an encoded name.
CodeOf(part) ==
  CASE part.part = "code" -> {made[part.id].code}
    [] part.part = "update" -> {"STC_SESSION_KEY"}
    [] OTHER -> Code

\* How many blocks the size bytes at the end of the input may announce: those
\* of the request, or any number if they are no size.
SizeOf(part) ==
  IF part.part = "rest" THEN {made[part.id].blocks} ELSE 0 .. MaxBlocks + 1

\* A write to the client: it may fail once the client has closed its end,
\* and then the session is aborted.
Write(answer, next) ==
  \/ down' = Append(down, answer) /\ state' = next
  \/ form = "Closed" /\ state' = "Closed" /\ UNCHANGED down

\* GenerateSessionKey, then WriteSessionKey.
UpdateKey(next) ==
  /\ sessionKey' = sessionKey + 1
  /\ Write([code |-> "STC_SESSION_KEY", key |-> sessionKey', id |-> 0], next)

\* StateMachine::Consume in the read handler, the input being complete.
Consume ==
  /\ state \in Waiting
  /\ Len(buffer) = InputSize
  /\ \E code \in CodeOf(buffer[1]) :
       \/ /\ \/ state = "Initial" /\ code = "CTS_RSA_KEY"
                /\ UpdateKey("WaitingForAuth")
             \/ state = "WaitingForQueries" /\ code = "STC_SESSION_KEY"
                /\ UpdateKey("WaitingForQueries")
          /\ buffer' = <<>>
          /\ UNCHANGED expect
       \/ /\ \/ state = "WaitingForAuth" /\ code = "CTS_AUTH_REQUEST"
                /\ state' = "ValidatingAuth"
             \/ state = "WaitingForQueries" /\ code = "CTS_FILE_REQUEST"
                /\ state' = "SendingFile"
          /\ expect' \in SizeOf(buffer[2])
          /\ UNCHANGED <<buffer, sessionKey, down>>
       \/ /\ <<state, code>> \notin
               {<<"Initial", "CTS_RSA_KEY">>,
                <<"WaitingForAuth", "CTS_AUTH_REQUEST">>,
                <<"WaitingForQueries", "STC_SESSION_KEY">>,
                <<"WaitingForQueries", "CTS_FILE_REQUEST">>}
          /\ state' = "Closed"
          /\ UNCHANGED <<buffer, expect, sessionKey, down>>
  /\ UNCHANGED <<clientVars, up, overwritten>>

\* The body of the request is there, and decodes with the session key to what
\* the client encoded.
BodyArrived == Len(up) >= expect
Legible ==
  LET id == buffer[2].id IN
  /\ buffer[2].part = "rest"
  /\ expect > 0 => made[id].key = sessionKey
  /\ \A i \in 1 .. expect : up[i] = [part |-> "block", id |-> id]

\* Mutant: the next input is waited for before the body is read.
BodyIsLeft ==
  /\ buffer' = <<>>
  /\ UNCHANGED up
  /\ expect' = 0

\* The synchronous read of the body, and the wait for the next input.
TakeBody ==
  /\ buffer' = <<>>
  /\ up' = SubSeq(up, expect + 1, Len(up))
  /\ expect' = 0

ReadAndValidateAuth ==
  /\ state = "ValidatingAuth"
  /\ BodyArrived
  /\ LET id == buffer[2].id IN
     IF Legible /\ made[id].good
       THEN Write([code |-> "STC_AUTH_SUCCESSFUL", key |-> 0, id |-> id],
                  "WaitingForQueries")
       ELSE Write([code |-> "STC_AUTH_FAILED", key |-> 0, id |-> id],
                  "WaitingForAuth")
  /\ TakeBody
  /\ UNCHANGED <<sessionKey, clientVars, overwritten>>

\* Mutant: the file is encoded with the key of the request.
TrySendFileOldKey ==
  /\ state = "SendingFile"
  /\ BodyArrived
  /\ LET id == buffer[2].id IN
     IF buffer[2].part = "rest" /\ expect > 0 /\ made[id].good
       THEN Write([code |-> "STC_FILE", key |-> made[id].key, id |-> id],
                  "WaitingForQueries")
       ELSE \E code \in NoFile :
              Write([code |-> code, key |-> 0, id |-> id], "WaitingForQueries")
  /\ TakeBody
  /\ UNCHANGED <<sessionKey, clientVars, overwritten>>

\* What FileService::Resolve opens. The empty name is that of the directory of
\* the files; a name that is not legible, or of no file, may open a directory
\* too (it may be ".", or begin with a byte 0), or nothing.
Resolve ==
  IF expect = 0 THEN {"DIRECTORY"}
  ELSE IF Legible /\ made[buffer[2].id].good THEN {"STC_FILE"}
  ELSE NoFile

TrySendFile ==
  /\ state = "SendingFile"
  /\ BodyArrived
  /\ \E code \in Resolve :
       Write([code |-> code,
              key |-> IF code = "STC_FILE" THEN sessionKey ELSE 0,
              id |-> buffer[2].id], "WaitingForQueries")
  /\ TakeBody
  /\ UNCHANGED <<sessionKey, clientVars, overwritten>>

\* Mutant: the keys are updated as soon as there is one.
SessionKeyTimerEarly ==
  /\ state \in {"WaitingForAuth", "WaitingForQueries"}
  /\ Len(buffer) < InputSize
  /\ sessionKey < MaxKeys
  /\ UpdateKey(state)
  /\ buffer' = [i \in DOMAIN buffer |-> [part |-> "update", id |-> 0]]
  /\ overwritten' = (overwritten \/ buffer # <<>>)
  /\ UNCHANGED <<expect, clientVars, up>>

\* The callback of the session key timer. The new key goes out through
\* buffer_, over whatever the read has stored there.
SessionKeyTimer ==
  /\ state = "WaitingForQueries"
  /\ Len(buffer) < InputSize
  /\ sessionKey < MaxKeys
  /\ UpdateKey("WaitingForQueries")
  /\ buffer' = [i \in DOMAIN buffer |-> [part |-> "update", id |-> 0]]
  /\ overwritten' = (overwritten \/ buffer # <<>>)
  /\ UNCHANGED <<expect, clientVars, up>>

\* The end of the stream: a read of the session cannot be completed.
EndOfStream ==
  /\ form = "Closed"
  /\ \/ state \in Waiting /\ Len(buffer) < InputSize /\ up = <<>>
     \/ state \in {"ValidatingAuth", "SendingFile"} /\ ~ BodyArrived
  /\ state' = "Closed"
  /\ UNCHANGED <<buffer, expect, sessionKey, clientVars, up, down, overwritten>>

-----------------------------------------------------------------------------
Next ==
  \/ ConnectToServer
  \/ Authenticate
  \/ LoadFile
  \/ ReadFirstKey
  \/ ReadAuthAnswer
  \/ ReadFileAnswer
  \/ ReadAsData
  \/ ReadFails
  \/ Reset
  \/ ReceivePart
  \/ Consume
  \/ ReadAndValidateAuth
  \/ TrySendFile
  \/ SessionKeyTimer
  \/ EndOfStream

Spec == Init /\ [][Next]_vars

\* The network delivers what is sent, the server's thread runs what is ready,
\* and the client's blocking reads return what has arrived. Nothing is assumed
\* of the user, nor of the timer.
Fairness ==
  /\ WF_vars(ReceivePart)
  /\ WF_vars(Consume)
  /\ WF_vars(ReadAndValidateAuth)
  /\ WF_vars(TrySendFile)
  /\ WF_vars(ReadFirstKey)
  /\ WF_vars(ReadAuthAnswer)
  /\ WF_vars(ReadFileAnswer \/ ReadAsData)
  /\ WF_vars(ReadFails)

LiveSpec == Spec /\ Fairness

-----------------------------------------------------------------------------
(* Safety.                                                                 *)

IsUpdate(i) == down[i].code = "STC_SESSION_KEY"

\* k is the key the client holds when it has read the first n messages on
\* their way to it.
HeldAfter(n, k) ==
  \/ k = clientKey /\ \A i \in 1 .. n : ~ IsUpdate(i)
  \/ \E i \in 1 .. n : /\ IsUpdate(i) /\ down[i].key = k
                       /\ \A j \in i + 1 .. n : ~ IsUpdate(j)

\* The two sides agree on the key whenever no update is on its way: the client
\* takes every update off the stream as one, whatever it is waiting for
\* (controller.cpp:159, Session.cpp:321), unless it takes all that comes for
\* the data of a directory.
KeysAgree ==
  state # "Closed" /\ form # "AwaitData" => HeldAfter(Len(down), sessionKey)

\* The client decodes a file with the key it was encoded with, however many
\* updates were sent before it and in spite of a request misread on the way
\* (controller.cpp:199, Session.cpp:437).
FilesDecipherable ==
  form # "AwaitData" =>
    \A i \in DOMAIN down :
      down[i].code = "STC_FILE" => HeldAfter(i - 1, down[i].key)

\* Until a key update hits an input, the server says nothing but the one answer
\* to the request the client waits for, and keys. Afterwards a request that was
\* misread may be answered twice, the client be a request ahead of the answers,
\* and a directory be announced that nobody asked for: still, files come in
\* the order of the requests they answer, and each at most once
\* (controller.cpp:150, Session.cpp:373).
FileAnswersRequest ==
  /\ ~ overwritten =>
       \A i \in DOMAIN down :
         down[i].code \in {"STC_FILE"} \cup NoFile =>
           /\ form = "AwaitFile"
           /\ down[i].id = Len(made)
           /\ \A j \in DOMAIN down : j # i => IsUpdate(j)
  /\ \A i, j \in DOMAIN down :
       /\ i < j
       /\ down[i].code = "STC_FILE"
       /\ down[j].code = "STC_FILE"
       => down[i].id < down[j].id

\* The one byte the client reads as the answer to its login is never the
\* first byte of a key update, which would leave the rest of the update in
\* the stream (controller.cpp:106, Session.cpp:142).
AuthAnswerComesFirst ==
  form = "AwaitAuth" /\ down # <<>> =>
    /\ Head(down).code \in {"STC_AUTH_SUCCESSFUL", "STC_AUTH_FAILED"}
    /\ Head(down).id = Len(made)

\* When a file that exists is refused, or taken for a directory, the client has
\* learnt of another key before it reads so: asking again after a refusal is of
\* use (Session.cpp:394, controller.cpp:156).
RefusalFollowsUpdate ==
  ~ overwritten =>
    \A i \in DOMAIN down :
      /\ down[i].code \in NoFile
      /\ made[down[i].id].good
      => ~ HeldAfter(i - 1, made[down[i].id].key)

\* A file that exists is sent (README.md of Lab2, line 24): the code refuses
\* it when the key was updated between the request and its arrival.
ExistingFileIsSent ==
  \A i \in DOMAIN down :
    down[i].code = "STC_UNABLE_TO_SEND_FILE" => ~ made[down[i].id].good

-----------------------------------------------------------------------------
(* Liveness.                                                               *)

\* The client waits for the data of a directory, having asked for no file that
\* exists, or with a key that is no longer the session's.
WaitsForDirectory ==
  LET last == made[Len(made)] IN
  /\ form = "AwaitData"
  /\ ~ last.good \/ last.key # sessionKey

\* A call of the client returns, but for two cases: a key update has hit an
\* input that was partly received (Session.cpp:321 writes over what
\* Session.cpp:258 has read), or the name sent opened a directory, which the
\* empty name always does and an existing file's only if it was encoded with a
\* key updated since (Session.cpp:401, Session.cpp:411).
CallsReturn ==
  form \in Awaiting ~> (form \notin Awaiting \/ overwritten \/ WaitsForDirectory)

\* Every request for a file is answered, in whatever way.
RequestsAreAnswered == form = "AwaitFile" ~> form # "AwaitFile"

===============================================================================
