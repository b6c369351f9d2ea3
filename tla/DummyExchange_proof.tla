------------------------- MODULE DummyExchange_proof -------------------------
(***************************************************************************)
(* Proofs about one session and the script of the dummy client, for every  *)
(* number of requests and of keys. What the session does to the streams is *)
(* what Exchange_proof says of it.                                         *)
(***************************************************************************)
EXTENDS DummyExchange, Exchange_proof, FiniteSetTheorems

-----------------------------------------------------------------------------
(* How far the script is, and its steps by what they do with the message   *)
(* they take.                                                              *)

ScriptForms == Awaiting \cup {"ServerChooser", "AwaitUpdate", "Closed"}

\* The requests made so far, by what the script blocks on.
ScriptInv ==
  /\ form \in ScriptForms
  /\ form = "ServerChooser" => Len(made) = 0
  /\ form = "AwaitKey" => Len(made) = 1
  /\ form = "AwaitAuth" => Len(made) = 2
  /\ form = "AwaitFile" => Len(made) \in 3 .. RequestsCount + 2
  /\ form = "AwaitUpdate" => Len(made) \in 3 .. RequestsCount + 1
  /\ form = "Closed" <=> result # ""

Reads == LogIn \/ RequestFirst \/ ReadFile \/ ReadData \/ RequestNext

\* The message is the one waited for, and the script sends its next request.
Asks(request) ==
  /\ Put(request)
  /\ clientKey' = request.key /\ result' = result
  /\ request.blocks > 0
  /\ \/ /\ form = "AwaitKey" /\ form' = "AwaitAuth"
        /\ IsUpdate(1) /\ request.key = down[1].key
        /\ request.code = "CTS_AUTH_REQUEST"
     \/ /\ form = "AwaitAuth" /\ form' = "AwaitFile"
        /\ down[1].code = "STC_AUTH_SUCCESSFUL" /\ request.key = clientKey
        /\ request.code = "CTS_FILE_REQUEST"
     \/ /\ form = "AwaitUpdate" /\ form' = "AwaitFile"
        /\ IsUpdate(1) /\ request.key = down[1].key
        /\ request.code = "CTS_FILE_REQUEST"

\* It is a file, and not the last.
GoesOn ==
  /\ form = "AwaitFile" /\ form' = "AwaitUpdate"
  /\ down[1].code = "STC_FILE" /\ AwaitsUpdate
  /\ UNCHANGED <<clientKey, made, up, result>>

\* It is the last file, or something else than what is waited for.
Returns ==
  /\ form' = "Closed" /\ UNCHANGED <<clientKey, made, up>>
  /\ \/ form = "AwaitKey" /\ ~ IsUpdate(1) /\ result' = "1"
     \/ /\ form = "AwaitAuth" /\ result' = "1"
        /\ down[1].code # "STC_AUTH_SUCCESSFUL"
     \/ form = "AwaitUpdate" /\ ~ IsUpdate(1) /\ result' = "1"
     \/ /\ form = "AwaitFile" /\ result' = "1"
        /\ IsUpdate(1) \/ down[1].code = "STC_UNABLE_TO_SEND_FILE"
     \/ /\ form = "AwaitFile" /\ result' = "0"
        /\ down[1].code = "STC_FILE" /\ ~ AwaitsUpdate

\* It is a directory, or what comes in the place of its data.
Waits ==
  /\ form' = "AwaitData" /\ UNCHANGED <<clientKey, made, up, result>>
  /\ form = "AwaitFile" \/ form = "AwaitData"

\* What a read of the script takes off the stream.
LEMMA ReadTakes ==
  ASSUME DataInv, Reads
  PROVE  /\ down # <<>> /\ down' = Tail(down) /\ down' \in Seq(Answer)
         /\ Len(down) \in Nat \ {0} /\ Len(down') = Len(down) - 1
         /\ down[1] \in Answer /\ Head(down) = down[1]
         /\ \A i \in 1 .. Len(down') : down'[i] = down[i + 1]
         /\ UNCHANGED <<overwritten, serverVars>>
PROOF
<1>1. /\ down # <<>> /\ down' = Tail(down)
      /\ UNCHANGED <<overwritten, serverVars>>
  BY DEF Reads, LogIn, RequestFirst, ReadFile, ReadData, ReadAsData, Receives,
         RequestNext, Takes
<1>2. DataOK
  BY DEF DataInv
<1> QED
  BY <1>1, <1>2, ReceivedParts

\* A request of the script.
LEMMA Responds ==
  ASSUME NEW code \in {"CTS_AUTH_REQUEST", "CTS_FILE_REQUEST"},
         NEW key \in Key, NEW blocks \in 1 .. MaxBlocks,
         Respond(code, key, blocks)
  PROVE  \E request \in Request :
           /\ Put(request) /\ clientKey' = request.key
           /\ request.code = code /\ request.key = key
           /\ request.blocks > 0
PROOF
<1>1. PICK good \in BOOLEAN :
        Put([code |-> code, key |-> key, blocks |-> blocks, good |-> good])
  BY DEF Respond
<1> DEFINE request == [code |-> code, key |-> key, blocks |-> blocks,
                       good |-> good]
<1>2. request \in Request
  BY BoundsAssumption DEF Request, BoundsAssumption
<1>3. /\ request.code = code /\ request.key = key
      /\ request.blocks = blocks /\ blocks > 0
  BY BoundsAssumption DEF BoundsAssumption
<1>4. clientKey' = key
  BY DEF Respond
<1> HIDE DEF request
<1>5. Put(request)
  BY <1>1 DEF request
<1> QED
  BY <1>2, <1>3, <1>4, <1>5

\* Every read of the script is of one of the four kinds.
LEMMA ReadKinds ==
  ASSUME DataInv, Reads
  PROVE  (\E request \in Request : Asks(request)) \/ GoesOn \/ Returns \/ Waits
PROOF
<1>1. Head(down) = down[1] /\ down[1].key \in Key /\ clientKey \in Key
  BY ReadTakes DEF Answer, DataInv, DataOK
<1>2. MaxBlocks \in 1 .. MaxBlocks /\ 1 \in 1 .. MaxBlocks
  BY BoundsAssumption DEF BoundsAssumption
<1>3. CASE LogIn
  <2>1. CASE Head(down).code = "STC_SESSION_KEY"
    <3>1. /\ form = "AwaitKey" /\ form' = "AwaitAuth" /\ UNCHANGED result
          /\ Respond("CTS_AUTH_REQUEST", down[1].key, MaxBlocks)
      BY <1>1, <1>3, <2>1 DEF LogIn
    <3>2. PICK request \in Request :
            /\ Put(request) /\ clientKey' = request.key
            /\ request.code = "CTS_AUTH_REQUEST" /\ request.key = down[1].key
            /\ request.blocks > 0
      BY <1>1, <1>2, <3>1, Responds
    <3> QED
      BY <1>1, <2>1, <3>1, <3>2 DEF Asks, IsUpdate
  <2>2. CASE Head(down).code # "STC_SESSION_KEY"
    BY <1>1, <1>3, <2>2 DEF LogIn, GiveUp, Return, Returns, IsUpdate
  <2> QED
    BY <2>1, <2>2
<1>4. CASE RequestFirst
  <2>1. CASE Head(down).code = "STC_AUTH_SUCCESSFUL"
    <3>1. /\ form = "AwaitAuth" /\ form' = "AwaitFile" /\ UNCHANGED result
          /\ Respond("CTS_FILE_REQUEST", clientKey, 1)
      BY <1>1, <1>4, <2>1 DEF RequestFirst
    <3>2. PICK request \in Request :
            /\ Put(request) /\ clientKey' = request.key
            /\ request.code = "CTS_FILE_REQUEST" /\ request.key = clientKey
            /\ request.blocks > 0
      BY <1>1, <1>2, <3>1, Responds
    <3> QED
      BY <1>1, <2>1, <3>1, <3>2 DEF Asks
  <2>2. CASE Head(down).code # "STC_AUTH_SUCCESSFUL"
    BY <1>1, <1>4, <2>2 DEF RequestFirst, GiveUp, Return, Returns
  <2> QED
    BY <2>1, <2>2
<1>5. CASE RequestNext
  <2>1. CASE Head(down).code = "STC_SESSION_KEY"
    <3>1. /\ form = "AwaitUpdate" /\ form' = "AwaitFile" /\ UNCHANGED result
          /\ Respond("CTS_FILE_REQUEST", down[1].key, 1)
      BY <1>1, <1>5, <2>1 DEF RequestNext
    <3>2. PICK request \in Request :
            /\ Put(request) /\ clientKey' = request.key
            /\ request.code = "CTS_FILE_REQUEST" /\ request.key = down[1].key
            /\ request.blocks > 0
      BY <1>1, <1>2, <3>1, Responds
    <3> QED
      BY <1>1, <2>1, <3>1, <3>2 DEF Asks, IsUpdate
  <2>2. CASE Head(down).code # "STC_SESSION_KEY"
    BY <1>1, <1>5, <2>2 DEF RequestNext, GiveUp, Return, Returns, IsUpdate
  <2> QED
    BY <2>1, <2>2
<1>6. CASE ReadFile
  BY <1>1, <1>6 DEF ReadFile, Return, GoesOn, Returns, Waits, IsUpdate
<1>7. CASE ReadData
  BY <1>7 DEF ReadData, ReadAsData, Receives, Waits
<1> QED
  BY <1>3, <1>4, <1>5, <1>6, <1>7 DEF Reads

\* The end of the script by an exception, and the end of the connection.
LEMMA EndKinds ==
  ASSUME Throws \/ ConnectionLost
  PROVE  /\ UNCHANGED <<buffer, expect, sessionKey, clientKey, made, up,
                        overwritten>>
         /\ \/ /\ form' = "Closed" /\ result' = "exception"
               /\ UNCHANGED <<state, down>>
            \/ /\ state' = "Closed" /\ UNCHANGED <<form, result>>
               /\ form \notin {"ServerChooser", "Closed"}
               /\ \E n \in 0 .. Len(down) : down' = SubSeq(down, 1, n)
  BY DEF Throws, ConnectionLost, Return, serverVars, clientVars

\* What is left of a stream whose connection failed.
LEMMA LostTypes ==
  ASSUME DataInv, NEW n \in 0 .. Len(down), down' = SubSeq(down, 1, n)
  PROVE  /\ down' \in Seq(Answer) /\ Len(down') = n
         /\ n \in Nat /\ n <= Len(down) /\ Len(down) \in Nat
         /\ \A i \in 1 .. n : down'[i] = down[i]
PROOF
<1>1. down \in Seq(Answer) /\ Len(down) \in Nat
  BY LenProperties DEF DataInv, DataOK
<1>2. \A i \in 1 .. n : down[i] \in Answer
  BY <1>1, ElementOfSeq
<1> QED
  BY <1>1, <1>2, SubSeqProperties

SessionActs ==
  \/ ReceivePart \/ Consume \/ ReadAndValidateAuth \/ TrySendFile
  \/ SessionKeyTimer \/ EndOfStream

\* The steps of the exchange with the script.
LEMMA DummySteps ==
  ASSUME [DummyNext]_dummyVars
  PROVE  \/ ConnectToServer /\ UNCHANGED result
         \/ Reads
         \/ Throws \/ ConnectionLost
         \/ SessionActs /\ UNCHANGED <<form, clientKey, made, result>>
         \/ UNCHANGED dummyVars
PROOF
<1>1. SessionActs => UNCHANGED <<form, clientKey, made>>
  BY DEF SessionActs, ReceivePart, Consume, ReadAndValidateAuth, TrySendFile,
         SessionKeyTimer, EndOfStream, clientVars
<1> QED
  BY <1>1 DEF DummyNext, Connect, Reads, SessionStep, SessionActs

\* What the session tells the client in a step: a new key, an answer, or
\* nothing. It generates a key that it cannot send only when the client is gone.
LEMMA SessionTells ==
  ASSUME DataInv, SessionActs
  PROVE  \/ /\ state # "Closed" /\ Len(down') = Len(down) + 1
            /\ \A i \in 1 .. Len(down) : down'[i] = down[i]
            /\ \/ /\ sessionKey' = sessionKey + 1
                  /\ down'[Len(down) + 1].code = "STC_SESSION_KEY"
                  /\ down'[Len(down) + 1].key = sessionKey'
               \/ /\ sessionKey' = sessionKey
                  /\ down'[Len(down) + 1].code # "STC_SESSION_KEY"
         \/ /\ UNCHANGED <<sessionKey, down>>
            /\ state = "Closed" => state' = "Closed"
         \/ /\ form = "Closed" /\ state' = "Closed"
            /\ sessionKey' = sessionKey + 1 /\ UNCHANGED down
PROOF
<1>1. DataOK
  BY DEF DataInv
<1>2. ASSUME NEW next, UpdateKey(next), state # "Closed"
      PROVE  \/ /\ Len(down') = Len(down) + 1
                /\ \A i \in 1 .. Len(down) : down'[i] = down[i]
                /\ sessionKey' = sessionKey + 1
                /\ down'[Len(down) + 1].code = "STC_SESSION_KEY"
                /\ down'[Len(down) + 1].key = sessionKey'
             \/ /\ form = "Closed" /\ state' = "Closed"
                /\ sessionKey' = sessionKey + 1 /\ UNCHANGED down
  BY <1>1, <1>2, UpdateEffect
<1>3. ASSUME NEW answer \in Answer, NEW next, Write(answer, next),
             answer.code # "STC_SESSION_KEY"
      PROVE  \/ /\ Len(down') = Len(down) + 1
                /\ \A i \in 1 .. Len(down) : down'[i] = down[i]
                /\ down'[Len(down) + 1].code # "STC_SESSION_KEY"
             \/ /\ state' = "Closed" /\ UNCHANGED down
  BY <1>1, <1>3, WriteEffect
<1>4. CASE ReceivePart \/ EndOfStream
  BY <1>4 DEF ReceivePart, EndOfStream
<1>5. CASE Consume
  BY <1>2, <1>5 DEF Consume, Waiting
<1>6. CASE SessionKeyTimer
  BY <1>2, <1>6 DEF SessionKeyTimer
<1>7. CASE ReadAndValidateAuth
  <2>1. PICK answer \in Answer, next \in Waiting :
          Write(answer, next) /\ answer.code # "STC_SESSION_KEY"
    BY <1>7, AuthServes
  <2>2. UNCHANGED sessionKey /\ state # "Closed"
    BY <1>7 DEF ReadAndValidateAuth
  <2> QED
    BY <1>3, <2>1, <2>2
<1>8. CASE TrySendFile
  <2>1. PICK answer \in Answer :
          /\ Write(answer, "WaitingForQueries")
          /\ answer.code # "STC_SESSION_KEY"
    BY <1>8, FileServes DEF NoFile
  <2>2. UNCHANGED sessionKey /\ state # "Closed"
    BY <1>8 DEF TrySendFile
  <2> QED
    BY <1>3, <2>1, <2>2
<1> QED
  BY <1>4, <1>5, <1>6, <1>7, <1>8 DEF SessionActs

-----------------------------------------------------------------------------
(* Types.                                                                  *)

\* The script starts with nothing sent and nothing received.
LEMMA DummyTypeInit == DummyInit => DataInv /\ ScriptInv
PROOF
<1> SUFFICES ASSUME DummyInit PROVE DataInv /\ ScriptInv
  OBVIOUS
<1>1. Init /\ result = "" /\ form = "ServerChooser" /\ Len(made) = 0
  BY EmptySeq DEF DummyInit, Init
<1>2. DataInv
  BY <1>1, BoundsAssumption, TypeInit DEF TypeInv
<1> QED
  BY <1>1, <1>2 DEF ScriptInv, ScriptForms, Awaiting

\* A request sent by the script is the next one, and there is room for it.
LEMMA AskedTypes ==
  ASSUME DataInv, ScriptInv, Reads, NEW request \in Request, Asks(request)
  PROVE  /\ DataInv' /\ ScriptInv'
         /\ Len(made) < MaxRequests /\ Len(made') = Len(made) + 1
         /\ made'[Len(made')] = request
         /\ \A i \in 1 .. Len(made) : made'[i] = made[i]
PROOF
<1>1. DataOK /\ Len(made) \in Nat
  BY Lengths DEF DataInv
<1>2. Put(request) /\ clientKey' = request.key /\ result' = result
  BY DEF Asks
<1>3. Len(made) < MaxRequests
  <2>1. \/ Len(made) = 1
        \/ Len(made) = 2
        \/ Len(made) \in 3 .. RequestsCount + 1
    BY DEF Asks, ScriptInv
  <2>2. RequestsCount \in Nat /\ RequestsCount >= 1
        /\ MaxRequests = RequestsCount + 2
    BY ScriptAssumption DEF ScriptAssumption
  <2>3. CASE Len(made) = 1
    BY <2>2, <2>3
  <2>4. CASE Len(made) = 2
    BY <2>2, <2>4
  <2>5. CASE Len(made) \in 3 .. RequestsCount + 1
    BY <2>2, <2>5
  <2> QED
    BY <2>1, <2>3, <2>4, <2>5
<1>4. /\ Len(made') = Len(made) + 1 /\ made'[Len(made')] = request
      /\ \A i \in 1 .. Len(made) : made'[i] = made[i]
  BY <1>1, <1>2, <1>3, BoundsAssumption, PutParts
<1>5. DataInv'
  <2>1. down' \in Seq(Answer) /\ UNCHANGED <<overwritten, serverVars>>
    BY ReadTakes
  <2>2. clientKey' \in Key
    BY <1>2 DEF Request
  <2> QED
    BY <1>2, <1>3, <2>1, <2>2, BoundsAssumption, PutTypes
<1>6. ScriptInv'
  <2>1. /\ form' \in ScriptForms /\ form' # "Closed" /\ result' = ""
        /\ \/ form' = "AwaitAuth" /\ Len(made) = 1
           \/ form' = "AwaitFile" /\ Len(made) = 2
           \/ form' = "AwaitFile" /\ Len(made) \in 3 .. RequestsCount + 1
    BY DEF Asks, ScriptInv, ScriptForms, Awaiting
  <2>2. RequestsCount \in Nat /\ RequestsCount >= 1
    BY ScriptAssumption DEF ScriptAssumption
  <2>3. Len(made) = 1 => Len(made') = 2
    BY <1>4
  <2>4. Len(made) = 2 => Len(made') \in 3 .. RequestsCount + 2
    <3> SUFFICES ASSUME Len(made) = 2
                 PROVE  Len(made') \in 3 .. RequestsCount + 2
      OBVIOUS
    <3> QED
      BY <1>4, <2>2
  <2>5. Len(made) \in 3 .. RequestsCount + 1
        => Len(made') \in 3 .. RequestsCount + 2
    BY <1>1, <1>4, <2>2
  <2> QED
    BY <2>1, <2>3, <2>4, <2>5, Zenon DEF ScriptInv
<1> QED
  BY <1>3, <1>4, <1>5, <1>6

\* Every step keeps the types, and the script in step with its requests.
LEMMA DummyTypeNext ==
  ASSUME DataInv, ScriptInv, [DummyNext]_dummyVars
  PROVE  DataInv' /\ ScriptInv'
PROOF
<1>1. DataOK /\ PartsAreKnown /\ InputIsWhole /\ Len(made) \in Nat
      /\ RequestsCount \in Nat \ {0}
  BY Lengths, ScriptAssumption DEF DataInv, ScriptAssumption
<1>2. CASE ConnectToServer /\ UNCHANGED result
  <2>1. PICK request \in Request :
          Send(request) /\ form = "ServerChooser" /\ form' = "AwaitKey"
    BY <1>1, <1>2, BoundsAssumption, CallsAreRequests DEF ConnectToServer
  <2>2. /\ Put(request) /\ Len(made) < MaxRequests
        /\ UNCHANGED <<clientKey, down, overwritten, serverVars>>
    BY <2>1 DEF Send
  <2>3. DataInv'
    <3>1. clientKey' \in Key /\ down' \in Seq(Answer)
      BY <1>1, <2>2 DEF DataOK
    <3> QED
      BY <2>2, <3>1, BoundsAssumption, PutTypes
  <2>4. Len(made') = Len(made) + 1
    BY <1>1, <2>2, BoundsAssumption, PutParts
  <2>5. Len(made) = 0
    BY <2>1 DEF ScriptInv
  <2>6. Len(made') = 1
    BY <2>4, <2>5
  <2>7. form' = "AwaitKey" /\ form' \in ScriptForms /\ result' = ""
    BY <1>2, <2>1 DEF ScriptForms, Awaiting, ScriptInv
  <2> QED
    BY <2>3, <2>6, <2>7, Zenon DEF ScriptInv
<1>3. CASE Reads
  <2>1. CASE \E request \in Request : Asks(request)
    BY <1>3, <2>1, AskedTypes
  <2>2. CASE GoesOn \/ Returns \/ Waits
    <3>1. UNCHANGED <<clientKey, made, up>>
      BY <2>2 DEF GoesOn, Returns, Waits
    <3>2. DataInv'
      <4>1. Receives /\ clientKey' \in Key
        BY <1>1, <1>3, <3>1, ReadTakes DEF Receives, DataOK
      <4> QED
        BY <4>1, ReceiveTypes
    <3>3. ScriptInv'
      <4>1. CASE GoesOn
        <5>0. form' = "AwaitUpdate" /\ result' = ""
          BY <4>1 DEF GoesOn, ScriptInv
        <5>1. /\ Len(made) \in 3 .. RequestsCount + 2
              /\ Len(made) - 2 < RequestsCount
          BY <4>1 DEF GoesOn, ScriptInv, AwaitsUpdate
        <5>2. Len(made') \in 3 .. RequestsCount + 1
          BY <1>1, <3>1, <5>1
        <5>3. form' \in ScriptForms
          BY <5>0 DEF ScriptForms
        <5> QED
          BY <5>0, <5>2, <5>3, Zenon DEF ScriptInv
      <4>2. CASE Returns
        BY <4>2 DEF Returns, ScriptInv, ScriptForms
      <4>3. CASE Waits
        BY <4>3 DEF Waits, ScriptInv, ScriptForms, Awaiting
      <4> QED
        BY <2>2, <4>1, <4>2, <4>3
    <3> QED
      BY <3>2, <3>3
  <2> QED
    BY <1>3, <2>1, <2>2, ReadKinds
<1>4. CASE Throws \/ ConnectionLost
  <2>1. /\ UNCHANGED <<buffer, expect, sessionKey, clientKey, made, up,
                       overwritten>>
        /\ \/ /\ form' = "Closed" /\ result' = "exception"
              /\ UNCHANGED <<state, down>>
           \/ /\ state' = "Closed" /\ UNCHANGED <<form, result>>
              /\ down' \in Seq(Answer)
    BY <1>4, EndKinds, LostTypes
  <2>2. DataInv'
    <3>1. down' \in Seq(Answer) /\ state' \in States
          /\ (state' = state \/ state' = "Closed")
      BY <1>1, <2>1 DEF DataOK, States
    <3>2. DataOK'
      BY <1>1, <2>1, <3>1 DEF DataOK, States
    <3> QED
      BY <1>1, <2>1, <3>1, <3>2
      DEF DataInv, PartsAreKnown, Known, InputIsWhole
  <2>3. ScriptInv'
    BY <2>1 DEF ScriptInv, ScriptForms
  <2> QED
    BY <2>2, <2>3
<1>5. CASE SessionActs /\ UNCHANGED <<form, clientKey, made, result>>
  BY <1>5, BoundsAssumption, SessionTypes DEF SessionActs, ScriptInv
<1>6. CASE UNCHANGED dummyVars
  BY <1>1, <1>6
  DEF dummyVars, vars, serverVars, clientVars, DataInv, DataOK, PartsAreKnown,
      Known, InputIsWhole, ScriptInv
<1> QED
  BY <1>2, <1>3, <1>4, <1>5, <1>6, DummySteps

-----------------------------------------------------------------------------
(* Keys. Every update on its way carries a newer key than the one the      *)
(* script holds and the updates before it, and the script asks for its     *)
(* files with the keys it held one after another.                          *)

UpdatesAreNewer ==
  \A i \in 1 .. Len(down) : IsUpdate(i) =>
    /\ clientKey < down[i].key /\ down[i].key <= sessionKey
    /\ \A j \in i + 1 .. Len(down) : IsUpdate(j) => down[i].key < down[j].key

RequestsAreNewer ==
  \A i \in 3 .. Len(made) :
    /\ made[i].key <= clientKey
    /\ \A j \in i + 1 .. Len(made) : made[i].key < made[j].key

RequestIsCurrent ==
  form \in {"AwaitAuth", "AwaitFile", "AwaitUpdate"} =>
    made[Len(made)].key = clientKey

ScriptKeysInv ==
  /\ clientKey <= sessionKey
  /\ UpdatesAreNewer /\ RequestsAreNewer
  /\ RequestIsCurrent /\ ScriptKeysAgree

\* Keys are numbers.
LEMMA KeysAreNumbers ==
  ASSUME DataOK
  PROVE  /\ clientKey \in Nat /\ sessionKey \in Nat
         /\ Len(down) \in Nat /\ Len(made) \in Nat
         /\ \A i \in 1 .. Len(down) : down[i].key \in Nat
         /\ \A i \in 1 .. Len(made) : made[i].key \in Nat
PROOF
<1>1. /\ clientKey \in Nat /\ sessionKey \in Nat
      /\ Len(down) \in Nat /\ Len(made) \in Nat
  BY Lengths DEF DataOK, Key
<1>2. \A i \in 1 .. Len(down) : down[i] \in Answer
  BY ElementOfSeq DEF DataOK
<1>3. \A i \in 1 .. Len(made) : made[i] \in Request
  BY ElementOfSeq DEF DataOK
<1> QED
  BY <1>1, <1>2, <1>3 DEF Answer, Request, Key

\* There is no key at first.
LEMMA ScriptKeysInit == DummyInit => ScriptKeysInv
PROOF
<1> SUFFICES ASSUME DummyInit PROVE ScriptKeysInv
  OBVIOUS
<1>1. /\ Len(down) = 0 /\ Len(made) = 0 /\ clientKey = 0 /\ sessionKey = 0
      /\ form = "ServerChooser"
  BY EmptySeq DEF DummyInit, Init
<1>2. UpdatesAreNewer /\ RequestsAreNewer /\ RequestIsCurrent
  BY <1>1 DEF UpdatesAreNewer, RequestsAreNewer, RequestIsCurrent
<1>3. KeysAgree
  BY <1>1 DEF KeysAgree, HeldAfter
<1> QED
  BY <1>1, <1>2, <1>3 DEF ScriptKeysInv, ScriptKeysAgree

\* The updates left when the first message is taken, by a script that keeps
\* the key if it is one or that gives up.
LEMMA NewerTaken ==
  ASSUME DataInv, DataInv', UpdatesAreNewer, UNCHANGED sessionKey,
         clientKey <= sessionKey,
         Len(down) > 0, Len(down') = Len(down) - 1,
         \A i \in 1 .. Len(down') : down'[i] = down[i + 1],
         \/ clientKey' = clientKey
         \/ IsUpdate(1) /\ clientKey' = down[1].key
  PROVE  /\ UpdatesAreNewer'
         /\ clientKey <= clientKey' /\ clientKey' <= sessionKey'
PROOF
<1>1. /\ Len(down) \in Nat /\ clientKey \in Nat /\ sessionKey \in Nat
      /\ clientKey' \in Nat
      /\ \A i \in 1 .. Len(down) : down[i].key \in Nat
  BY KeysAreNumbers DEF DataInv, DataOK, Key
<1>2. \A i \in 1 .. Len(down') :
        /\ i + 1 \in 2 .. Len(down)
        /\ down'[i] = down[i + 1] /\ (IsUpdate(i)' <=> IsUpdate(i + 1))
  BY <1>1 DEF IsUpdate
<1>3. clientKey <= clientKey' /\ clientKey' <= sessionKey'
  BY <1>1 DEF UpdatesAreNewer
<1>4. ASSUME NEW i \in 1 .. Len(down'), IsUpdate(i)'
      PROVE  /\ clientKey' < down'[i].key /\ down'[i].key <= sessionKey'
             /\ \A j \in i + 1 .. Len(down') :
                  IsUpdate(j)' => down'[i].key < down'[j].key
  <2>1. /\ i + 1 \in 2 .. Len(down) /\ i + 1 \in 1 .. Len(down)
        /\ IsUpdate(i + 1) /\ down'[i] = down[i + 1]
    BY <1>1, <1>2, <1>4
  <2>2. clientKey < down[i + 1].key /\ down[i + 1].key <= sessionKey
    BY <2>1 DEF UpdatesAreNewer
  <2>3. IsUpdate(1) => down[1].key < down[i + 1].key
    BY <1>1, <2>1 DEF UpdatesAreNewer
  <2>4. ASSUME NEW j \in i + 1 .. Len(down'), IsUpdate(j)'
        PROVE  down'[i].key < down'[j].key
    <3>1. j \in 1 .. Len(down') /\ j + 1 \in (i + 1) + 1 .. Len(down)
      BY <1>1
    <3>2. IsUpdate(j + 1) /\ down'[j] = down[j + 1]
      BY <1>2, <2>4, <3>1
    <3> QED
      BY <2>1, <3>1, <3>2 DEF UpdatesAreNewer
  <2> QED
    BY <1>1, <2>1, <2>2, <2>3, <2>4
<1> QED
  BY <1>3, <1>4 DEF UpdatesAreNewer

\* A message that the session appends.
LEMMA NewerAppended ==
  ASSUME DataInv, UpdatesAreNewer, UNCHANGED clientKey,
         clientKey <= sessionKey,
         NEW n, n = Len(down) + 1, Len(down') = n,
         \A i \in 1 .. Len(down) : down'[i] = down[i],
         \/ sessionKey' = sessionKey /\ down'[n].code # "STC_SESSION_KEY"
         \/ sessionKey' = sessionKey + 1 /\ down'[n].key = sessionKey'
  PROVE  UpdatesAreNewer' /\ clientKey' <= sessionKey'
PROOF
<1>1. /\ Len(down) \in Nat /\ clientKey \in Nat /\ sessionKey \in Nat
      /\ \A i \in 1 .. Len(down) : down[i].key \in Nat
  BY KeysAreNumbers DEF DataInv
<1>2. /\ \A i \in 1 .. Len(down) : IsUpdate(i)' <=> IsUpdate(i)
      /\ \A i \in 1 .. n : i \in 1 .. Len(down) \/ i = n
  BY <1>1 DEF IsUpdate
<1>3. IsUpdate(n)' =>
        down'[n].key = sessionKey + 1 /\ sessionKey' = sessionKey + 1
  BY DEF IsUpdate
<1>4. sessionKey <= sessionKey' /\ sessionKey' \in Nat
  BY <1>1
<1>5. ASSUME NEW i \in 1 .. n, IsUpdate(i)'
      PROVE  /\ clientKey' < down'[i].key /\ down'[i].key <= sessionKey'
             /\ \A j \in i + 1 .. n :
                  IsUpdate(j)' => down'[i].key < down'[j].key
  <2>1. CASE i = n
    BY <1>1, <1>3, <1>5, <2>1
  <2>2. CASE i \in 1 .. Len(down)
    <3>1. /\ IsUpdate(i) /\ down'[i] = down[i] /\ down[i].key \in Nat
          /\ clientKey < down[i].key /\ down[i].key <= sessionKey
      BY <1>1, <1>2, <1>5, <2>2 DEF UpdatesAreNewer
    <3>2. ASSUME NEW j \in i + 1 .. n, IsUpdate(j)'
          PROVE  down'[i].key < down'[j].key
      <4>1. CASE j = n
        BY <1>1, <1>3, <3>1, <3>2, <4>1
      <4>2. CASE j \in i + 1 .. Len(down)
        <5>1. j \in 1 .. Len(down) /\ IsUpdate(j) /\ down'[j] = down[j]
          BY <1>1, <1>2, <2>2, <3>2, <4>2
        <5> QED
          BY <2>2, <3>1, <4>2, <5>1 DEF UpdatesAreNewer
      <4> QED
        BY <1>1, <2>2, <4>1, <4>2
    <3> QED
      BY <1>1, <1>4, <3>1, <3>2
  <2> QED
    BY <1>2, <2>1, <2>2
<1> QED
  BY <1>1, <1>4, <1>5 DEF UpdatesAreNewer

\* The script asks for a file with a key newer than those it asked with before.
LEMMA AskedWithNewer ==
  ASSUME DataInv, DataInv', ScriptInv, ScriptKeysInv, Reads,
         NEW request \in Request, Asks(request)
  PROVE  RequestsAreNewer' /\ RequestIsCurrent'
PROOF
<1>1. /\ Len(made) \in Nat /\ Len(down) \in Nat /\ Len(down) > 0
      /\ clientKey \in Nat /\ request.key \in Nat
      /\ \A i \in 1 .. Len(down) : down[i].key \in Nat
      /\ \A i \in 1 .. Len(made) : made[i].key \in Nat
  BY KeysAreNumbers, ReadTakes DEF DataInv, Request, Key
<1>2. /\ Len(made') = Len(made) + 1 /\ made'[Len(made')] = request
      /\ \A i \in 1 .. Len(made) : made'[i] = made[i]
      /\ clientKey' = request.key
  BY AskedTypes DEF Asks
<1>3. clientKey <= request.key
  BY <1>1 DEF Asks, ScriptKeysInv, UpdatesAreNewer
<1>4. Len(made) = 1 \/ Len(made) = 2 \/ form = "AwaitUpdate"
  BY DEF Asks, ScriptInv
<1>5. form = "AwaitUpdate" => clientKey < request.key
  <2> SUFFICES ASSUME form = "AwaitUpdate" PROVE clientKey < request.key
    OBVIOUS
  <2>1. IsUpdate(1) /\ request.key = down[1].key /\ 1 \in 1 .. Len(down)
    BY <1>1 DEF Asks
  <2> QED
    BY <2>1 DEF ScriptKeysInv, UpdatesAreNewer
<1>6. ASSUME NEW i \in 3 .. Len(made')
      PROVE  /\ made'[i].key <= clientKey'
             /\ \A j \in i + 1 .. Len(made') : made'[i].key < made'[j].key
  <2>1. CASE i = Len(made) + 1
    BY <1>1, <1>2, <2>1
  <2>2. CASE i \in 3 .. Len(made)
    <3>1. /\ made'[i] = made[i] /\ made[i].key <= clientKey
          /\ made[i].key \in Nat
      BY <1>1, <1>2, <2>2 DEF ScriptKeysInv, RequestsAreNewer
    <3>2. form = "AwaitUpdate"
      <4>1. Len(made) # 1 /\ Len(made) # 2
        BY <1>1, <2>2
      <4> QED
        BY <1>4, <4>1
    <3>3. made[i].key < request.key
      BY <1>1, <1>5, <3>1, <3>2
    <3>4. ASSUME NEW j \in i + 1 .. Len(made')
          PROVE  made'[i].key < made'[j].key
      <4>1. CASE j = Len(made')
        BY <1>2, <3>1, <3>3, <4>1
      <4>2. CASE j \in i + 1 .. Len(made)
        <5>1. made'[j] = made[j]
          BY <1>1, <1>2, <2>2, <4>2
        <5>2. made[i].key < made[j].key
          BY <2>2, <4>2 DEF ScriptKeysInv, RequestsAreNewer
        <5> QED
          BY <3>1, <5>1, <5>2
      <4> QED
        BY <1>1, <1>2, <4>1, <4>2
    <3>5. made'[i].key <= clientKey'
      BY <1>1, <1>2, <1>3, <3>1
    <3> QED
      BY <3>4, <3>5
  <2> QED
    BY <1>1, <1>2, <2>1, <2>2
<1>7. RequestsAreNewer'
  BY <1>6 DEF RequestsAreNewer
<1>8. RequestIsCurrent'
  BY <1>2 DEF RequestIsCurrent
<1> QED
  BY <1>7, <1>8

\* A script that goes on holds the key of what it took, if that was an update.
LEMMA ScriptTakes ==
  ASSUME DataInv, Reads, form' \notin {"Closed", "AwaitData"}
  PROVE  /\ Len(down) > 0 /\ Len(down') = Len(down) - 1
         /\ \A i \in 1 .. Len(down') : down'[i] = down[i + 1]
         /\ \/ IsUpdate(1) /\ clientKey' = down[1].key
            \/ ~ IsUpdate(1) /\ clientKey' = clientKey
PROOF
<1>1. /\ Len(down) > 0 /\ Len(down') = Len(down) - 1
      /\ \A i \in 1 .. Len(down') : down'[i] = down[i + 1]
  BY ReadTakes
<1>2. CASE \E request \in Request : Asks(request)
  BY <1>1, <1>2 DEF Asks, IsUpdate
<1>3. CASE GoesOn
  BY <1>1, <1>3 DEF GoesOn, IsUpdate
<1> QED
  BY <1>1, <1>2, <1>3, ReadKinds DEF Returns, Waits

\* What the script reads leaves the agreement on the key as it is.
LEMMA AgreeTaken ==
  ASSUME DataInv, ScriptInv, ScriptKeysAgree, Reads
  PROVE  ScriptKeysAgree'
PROOF
<1> SUFFICES ASSUME form' \notin {"Closed", "AwaitData"}, state' # "Closed"
             PROVE  HeldAfter(Len(down), sessionKey)'
  BY DEF ScriptKeysAgree, KeysAgree
<1>1. /\ Len(down) > 0 /\ Len(down') = Len(down) - 1
      /\ \A i \in 1 .. Len(down') : down'[i] = down[i + 1]
      /\ \/ IsUpdate(1) /\ clientKey' = down[1].key
         \/ ~ IsUpdate(1) /\ clientKey' = clientKey
  BY ScriptTakes
<1>2. DataOK /\ Len(down) \in Nat /\ UNCHANGED <<state, sessionKey>>
  BY Lengths, ReadTakes DEF DataInv, serverVars
<1>3. form \notin {"Closed", "AwaitData"}
  BY DEF Reads, LogIn, RequestFirst, ReadFile, ReadData, ReadAsData,
         RequestNext
<1>4. PICK n \in 0 .. Len(down) - 1 : n = Len(down')
  BY <1>1, <1>2
<1>5. PICK k : k = sessionKey
  OBVIOUS
<1>6. HeldAfter(n + 1, k)
  BY <1>1, <1>2, <1>3, <1>4, <1>5 DEF ScriptKeysAgree, KeysAgree
<1>7. HeldAfter(n, k)'
  BY <1>1, <1>2, <1>6, HeldAfterTaking
<1> QED
  BY <1>2, <1>4, <1>5, <1>7

\* So does what the session tells a script that is still there.
LEMMA AgreeTold ==
  ASSUME DataInv, DataInv', ScriptKeysAgree, SessionActs,
         UNCHANGED <<form, clientKey, made>>
  PROVE  ScriptKeysAgree'
PROOF
<1> SUFFICES ASSUME form \notin {"Closed", "AwaitData"}, state' # "Closed"
             PROVE  HeldAfter(Len(down), sessionKey)'
  BY DEF ScriptKeysAgree, KeysAgree
<1>1. DataOK
  BY DEF DataInv
<1>2. PICK n \in Nat : n = Len(down)
  BY <1>1, Lengths
<1>3. PICK k : k = sessionKey'
  OBVIOUS
<1>4. CASE UNCHANGED <<sessionKey, down>> /\ state # "Closed"
  BY <1>4 DEF ScriptKeysAgree, KeysAgree, HeldAfter, IsUpdate
<1>5. CASE /\ state # "Closed" /\ Len(down') = Len(down) + 1
           /\ \A i \in 1 .. Len(down) : down'[i] = down[i]
           /\ sessionKey' = sessionKey
           /\ down'[Len(down) + 1].code # "STC_SESSION_KEY"
  <2>1. HeldAfter(n, k)
    BY <1>2, <1>3, <1>5 DEF ScriptKeysAgree, KeysAgree
  <2>2. HeldAfter(n + 1, k)'
    BY <1>2, <1>5, <2>1, HeldAfterOther
  <2> QED
    BY <1>2, <1>3, <1>5, <2>2
<1>6. CASE /\ Len(down') = Len(down) + 1
           /\ down'[Len(down) + 1].code = "STC_SESSION_KEY"
           /\ down'[Len(down) + 1].key = sessionKey'
  <2>1. HeldAfter(n + 1, down[n + 1].key)'
    BY <1>2, <1>6, HeldAfterUpdate
  <2> QED
    BY <1>2, <1>6, <2>1
<1> QED
  BY <1>4, <1>5, <1>6, SessionTells

\* Every step keeps the keys in order.
LEMMA ScriptKeysNext ==
  ASSUME DataInv, DataInv', ScriptInv, ScriptKeysInv, [DummyNext]_dummyVars
  PROVE  ScriptKeysInv'
PROOF
<1>1. DataOK /\ Len(down) \in Nat /\ clientKey \in Nat /\ sessionKey \in Nat
  BY KeysAreNumbers DEF DataInv
\* When no key changes and no request is made, and what is on its way is
\* what was before, or less.
<1>2. ASSUME UNCHANGED <<sessionKey, clientKey, made>>,
             Len(down') \in Nat, Len(down') <= Len(down),
             \A i \in 1 .. Len(down') : down'[i] = down[i]
      PROVE  clientKey' <= sessionKey' /\ UpdatesAreNewer' /\ RequestsAreNewer'
  <2>1. \A i \in 1 .. Len(down') :
          /\ i \in 1 .. Len(down) /\ (IsUpdate(i)' <=> IsUpdate(i))
          /\ \A j \in i + 1 .. Len(down') : j \in i + 1 .. Len(down)
    BY <1>1, <1>2 DEF IsUpdate
  <2>2. UpdatesAreNewer'
    BY <1>1, <1>2, <2>1 DEF ScriptKeysInv, UpdatesAreNewer, IsUpdate
  <2> QED
    BY <1>2, <2>2 DEF ScriptKeysInv, RequestsAreNewer
<1>3. CASE ConnectToServer /\ UNCHANGED result
  <2>1. PICK request \in Request :
          /\ Send(request) /\ form = "ServerChooser" /\ form' = "AwaitKey"
    BY <1>1, <1>3, BoundsAssumption, CallsAreRequests DEF ConnectToServer
  <2>2. UNCHANGED <<clientKey, down, sessionKey, state>>
    BY <2>1 DEF Send, serverVars
  <2>3. Len(made) = 0
    BY <2>1 DEF ScriptInv
  <2>4. Len(made') = Len(made) + 1
    BY <1>1, <2>1, BoundsAssumption, PutParts DEF Send
  <2>5. RequestsAreNewer'
    BY <2>3, <2>4 DEF RequestsAreNewer
  <2>6. RequestIsCurrent'
    BY <2>1 DEF RequestIsCurrent
  <2>7. ScriptKeysAgree'
    BY <2>1, <2>2
    DEF ScriptKeysInv, ScriptKeysAgree, KeysAgree, HeldAfter, IsUpdate
  <2>8. UpdatesAreNewer' /\ clientKey' <= sessionKey'
    BY <2>2 DEF ScriptKeysInv, UpdatesAreNewer, IsUpdate
  <2> QED
    BY <2>5, <2>6, <2>7, <2>8 DEF ScriptKeysInv
<1>4. CASE Reads
  <2>1. /\ Len(down) > 0 /\ Len(down') = Len(down) - 1
        /\ \A i \in 1 .. Len(down') : down'[i] = down[i + 1]
        /\ UNCHANGED sessionKey
    BY <1>4, ReadTakes DEF serverVars
  <2>2. ScriptKeysAgree'
    BY <1>4, AgreeTaken DEF ScriptKeysInv
  <2>3. CASE \E request \in Request : Asks(request)
    <3>1. \/ clientKey' = clientKey
          \/ IsUpdate(1) /\ clientKey' = down[1].key
      BY <2>3 DEF Asks
    <3>2. UpdatesAreNewer' /\ clientKey' <= sessionKey'
      BY <2>1, <3>1, NewerTaken DEF ScriptKeysInv
    <3>3. RequestsAreNewer' /\ RequestIsCurrent'
      BY <1>4, <2>3, AskedWithNewer
    <3> QED
      BY <2>2, <3>2, <3>3 DEF ScriptKeysInv
  <2>4. CASE GoesOn \/ Returns \/ Waits
    <3>1. UNCHANGED <<clientKey, made>>
      BY <2>4 DEF GoesOn, Returns, Waits
    <3>2. UpdatesAreNewer' /\ clientKey' <= sessionKey'
      BY <2>1, <3>1, NewerTaken DEF ScriptKeysInv
    <3>3. RequestsAreNewer'
      BY <3>1 DEF ScriptKeysInv, RequestsAreNewer
    <3>4. RequestIsCurrent'
      BY <2>4, <3>1 DEF GoesOn, Returns, Waits, ScriptKeysInv, RequestIsCurrent
    <3> QED
      BY <2>2, <3>2, <3>3, <3>4 DEF ScriptKeysInv
  <2> QED
    BY <1>4, <2>3, <2>4, ReadKinds
<1>5. CASE Throws \/ ConnectionLost
  <2>1. /\ UNCHANGED <<sessionKey, clientKey, made>>
        /\ \/ form' = "Closed" /\ UNCHANGED down
           \/ /\ state' = "Closed" /\ UNCHANGED form
              /\ \E n \in 0 .. Len(down) : down' = SubSeq(down, 1, n)
    BY <1>5, EndKinds
  <2>2. /\ Len(down') \in Nat /\ Len(down') <= Len(down)
        /\ \A i \in 1 .. Len(down') : down'[i] = down[i]
    BY <1>1, <2>1, LostTypes
  <2>3. ScriptKeysAgree'
    BY <2>1 DEF ScriptKeysAgree, KeysAgree
  <2>4. RequestIsCurrent'
    BY <2>1 DEF ScriptKeysInv, RequestIsCurrent
  <2> QED
    BY <1>2, <2>1, <2>2, <2>3, <2>4 DEF ScriptKeysInv
<1>6. CASE SessionActs /\ UNCHANGED <<form, clientKey, made, result>>
  <2>1. ScriptKeysAgree' /\ RequestsAreNewer' /\ RequestIsCurrent'
    BY <1>6, AgreeTold
    DEF ScriptKeysInv, RequestsAreNewer, RequestIsCurrent
  <2>2. CASE /\ Len(down') = Len(down) + 1
             /\ \A i \in 1 .. Len(down) : down'[i] = down[i]
             /\ \/ /\ sessionKey' = sessionKey + 1
                   /\ down'[Len(down) + 1].key = sessionKey'
                \/ /\ sessionKey' = sessionKey
                   /\ down'[Len(down) + 1].code # "STC_SESSION_KEY"
    <3>1. UpdatesAreNewer' /\ clientKey' <= sessionKey'
      BY <1>6, <2>2, NewerAppended DEF ScriptKeysInv
    <3> QED
      BY <2>1, <3>1 DEF ScriptKeysInv
  <2>3. CASE UNCHANGED down
             /\ (sessionKey' = sessionKey \/ sessionKey' = sessionKey + 1)
    <3>1. \A i \in 1 .. Len(down) : down[i].key \in Nat
      BY <1>1, KeysAreNumbers
    <3>2. sessionKey <= sessionKey' /\ sessionKey' \in Nat
      BY <1>1, <2>3
    <3>3. UpdatesAreNewer' /\ clientKey' <= sessionKey'
      BY <1>1, <1>6, <2>3, <3>1, <3>2
      DEF ScriptKeysInv, UpdatesAreNewer, IsUpdate
    <3> QED
      BY <2>1, <3>3 DEF ScriptKeysInv
  <2> QED
    BY <1>6, <2>2, <2>3, SessionTells
<1>7. CASE UNCHANGED dummyVars
  BY <1>7
  DEF dummyVars, vars, serverVars, clientVars, ScriptKeysInv, UpdatesAreNewer,
      RequestsAreNewer, RequestIsCurrent, ScriptKeysAgree, KeysAgree,
      HeldAfter, IsUpdate
<1> QED
  BY <1>3, <1>4, <1>5, <1>6, <1>7, DummySteps

-----------------------------------------------------------------------------
(* What is on its way, as long as the script reads: the answer to its last  *)
(* request and updates. Once an update has hit an input partly received,   *)
(* the script has asked for a file and the next message it reads, if there *)
(* is one, is that update or an earlier one.                               *)

\* The message i answers the last request, truly.
RightAnswer(i) ==
  \/ down[i].code = "STC_FILE" /\ made[Len(made)].good
  \/ /\ down[i].code \in NoFile
     /\ made[Len(made)].good => \E j \in 1 .. i - 1 : IsUpdate(j)

LoginAnswered ==
  /\ Len(down) > 0
  /\ \/ down[1].code = "STC_AUTH_SUCCESSFUL"
     \/ down[1].code = "STC_AUTH_FAILED" /\ ~ made[Len(made)].good
  /\ \A i \in 2 .. Len(down) : IsUpdate(i)

PacedDown ==
  /\ form = "ServerChooser" => Len(down) = 0
  /\ form = "AwaitKey" => OnlyUpdates /\ Len(down) <= 1
  /\ form = "AwaitAuth" => Len(down) = 0 \/ LoginAnswered
  /\ form = "AwaitFile" =>
       \A i \in 1 .. Len(down) :
         \/ IsUpdate(i)
         \/ /\ RightAnswer(i)
            /\ \A j \in 1 .. Len(down) : j # i => IsUpdate(j)
  /\ form = "AwaitUpdate" => OnlyUpdates

KeyPaced ==
  \/ state = "Initial" /\ Arriving /\ Len(down) = 0
  \/ state = "WaitingForAuth" /\ Quiet

LoginPaced ==
  \/ state = "WaitingForAuth" /\ Arriving /\ Len(down) = 0
  \/ state = "ValidatingAuth" /\ Served /\ Len(down) = 0
  \/ /\ state = "WaitingForAuth" /\ Quiet
     /\ Len(down) > 0 /\ down[1].code = "STC_AUTH_FAILED"
  \/ state = "WaitingForQueries" /\ Quiet /\ Len(down) > 0

FilePaced ==
  \/ state = "WaitingForQueries" /\ Arriving /\ OnlyUpdates
  \/ state = "SendingFile" /\ Served /\ OnlyUpdates
  \/ state = "WaitingForQueries" /\ Quiet

PacedSession ==
  /\ form = "ServerChooser" => state = "Initial" /\ Quiet
  /\ form = "AwaitKey" => KeyPaced
  /\ form = "AwaitAuth" => LoginPaced
  /\ form = "AwaitFile" => FilePaced
  /\ form = "AwaitUpdate" => state = "WaitingForQueries" /\ Quiet

PacedRequest ==
  /\ form = "AwaitKey" => Asked("CTS_RSA_KEY") /\ made[Len(made)].blocks = 0
  /\ form = "AwaitAuth" => Asked("CTS_AUTH_REQUEST")
  /\ form \in {"AwaitFile", "AwaitUpdate"} => Asked("CTS_FILE_REQUEST")

Paced ==
  /\ PacedDown /\ PacedRequest
  /\ state # "Closed" => PacedSession

Overtaken ==
  /\ form = "AwaitFile"
  /\ Len(down) > 0 => IsUpdate(1)
  /\ state # "Closed" =>
       Len(down) > 0 /\ state \in {"WaitingForQueries", "SendingFile"}

PacedInv ==
  form \notin {"Closed", "AwaitData"} => IF overwritten THEN Overtaken ELSE Paced

\* Nothing is on its way at first.
LEMMA PacedInit == DummyInit => PacedInv
PROOF
<1> SUFFICES ASSUME DummyInit PROVE PacedInv
  OBVIOUS
<1>1. /\ Len(down) = 0 /\ Len(up) = 0 /\ Len(buffer) = 0
      /\ form = "ServerChooser" /\ state = "Initial" /\ ~ overwritten
  BY EmptySeq DEF DummyInit, Init
<1> QED
  BY <1>1
  DEF PacedInv, Paced, PacedDown, PacedRequest, PacedSession, Quiet

\* The connection request.
LEMMA PacedConnect ==
  ASSUME DataInv, ScriptInv, PacedInv, ConnectToServer
  PROVE  PacedInv'
PROOF
<1>1. DataOK
  BY DEF DataInv
<1>2. PICK request \in Request :
        /\ Send(request) /\ form = "ServerChooser" /\ form' = "AwaitKey"
        /\ request.code = "CTS_RSA_KEY" /\ request.blocks = 0
  BY <1>1, BoundsAssumption, CallsAreRequests DEF ConnectToServer
<1>3. /\ UNCHANGED <<state, buffer, down, overwritten>>
      /\ Put(request) /\ Len(made) < MaxRequests
  BY <1>2 DEF Send, serverVars
<1>4. /\ ~ overwritten /\ Len(down) = 0
      /\ state # "Closed" => state = "Initial" /\ Quiet
  BY <1>2 DEF PacedInv, Overtaken, Paced, PacedDown, PacedSession
<1>5. PacedDown'
  BY <1>2, <1>3, <1>4 DEF PacedDown, OnlyUpdates
<1>6. CASE state # "Closed"
  <2>1. Arriving' /\ Asked("CTS_RSA_KEY")' /\ made'[Len(made')].blocks = 0
    BY <1>2, <1>3, <1>4, <1>6, PutArrives
  <2> QED
    BY <1>2, <1>3, <1>4, <1>5, <1>6, <2>1
    DEF PacedInv, Paced, PacedRequest, PacedSession, KeyPaced
<1>7. CASE state = "Closed"
  <2>1. made'[Len(made')] = request /\ Len(made') = Len(made) + 1
    BY <1>1, <1>3, BoundsAssumption, PutParts
  <2>2. Len(made') > 0
    BY <1>1, <2>1, Lengths
  <2>3. PacedRequest'
    BY <1>2, <2>1, <2>2 DEF PacedRequest, Asked
  <2> QED
    BY <1>2, <1>3, <1>4, <1>5, <1>7, <2>3 DEF PacedInv, Paced
<1> QED
  BY <1>6, <1>7

\* The script reads the answer it waits for and sends its next request.
LEMMA PacedAsks ==
  ASSUME DataInv, ScriptInv, PacedInv, Reads,
         NEW request \in Request, Asks(request)
  PROVE  PacedInv'
PROOF
<1>1. /\ Len(down) \in Nat /\ Len(down) > 0 /\ Len(down') = Len(down) - 1
      /\ \A i \in 1 .. Len(down') : down'[i] = down[i + 1]
      /\ UNCHANGED <<state, buffer, overwritten>>
  BY ReadTakes DEF serverVars
<1>2. /\ form \in {"AwaitKey", "AwaitAuth", "AwaitUpdate"}
      /\ ~ overwritten /\ Paced /\ Put(request)
  BY DEF Asks, PacedInv, Overtaken
<1>3. /\ Len(made') = Len(made) + 1 /\ made'[Len(made')] = request
      /\ Len(made) < MaxRequests /\ Len(made) \in Nat
  BY AskedTypes, Lengths DEF DataInv
<1>4. \A i \in 1 .. Len(down') : i + 1 \in 2 .. Len(down)
  BY <1>1
<1>5. PacedRequest'
  <2>1. Len(made') > 0
    BY <1>3
  <2> QED
    BY <1>3, <2>1 DEF PacedRequest, Asks, Asked
<1>6. form = "AwaitKey" => Len(down') = 0
  <2> SUFFICES ASSUME form = "AwaitKey" PROVE Len(down') = 0
    OBVIOUS
  <2>1. Len(down) <= 1
    BY <1>2 DEF Paced, PacedDown
  <2> QED
    BY <1>1, <2>1
<1>7. form # "AwaitKey" => OnlyUpdates'
  <2> SUFFICES ASSUME form # "AwaitKey", NEW i \in 1 .. Len(down')
               PROVE  IsUpdate(i)'
    BY DEF OnlyUpdates
  <2>1. i + 1 \in 2 .. Len(down) /\ i + 1 \in 1 .. Len(down)
        /\ down'[i] = down[i + 1]
    BY <1>1, <1>4
  <2>2. CASE form = "AwaitAuth"
    <3>1. LoginAnswered
      BY <1>1, <1>2, <2>2 DEF Paced, PacedDown
    <3> QED
      BY <2>1, <3>1 DEF LoginAnswered, IsUpdate
  <2>3. CASE form = "AwaitUpdate"
    BY <1>2, <2>1, <2>3 DEF Paced, PacedDown, OnlyUpdates, IsUpdate
  <2> QED
    BY <1>2, <2>2, <2>3
<1>8. PacedDown'
  BY <1>6, <1>7 DEF Asks, PacedDown, OnlyUpdates
<1>9. state # "Closed" => PacedSession'
  <2> SUFFICES ASSUME state # "Closed" PROVE PacedSession'
    OBVIOUS
  <2>1. /\ Quiet
        /\ form = "AwaitKey" => state = "WaitingForAuth"
        /\ form # "AwaitKey" => state = "WaitingForQueries"
    <3>1. PacedSession
      BY <1>2 DEF Paced
    <3>2. Len(down) # 0
      BY <1>1
    <3> QED
      BY <1>2, <3>1, <3>2 DEF Asks, PacedSession, KeyPaced, LoginPaced
  <2>2. Arriving'
    BY <1>1, <1>2, <1>3, <2>1, PutArrives
  <2> QED
    BY <1>1, <1>6, <1>7, <2>1, <2>2
    DEF Asks, PacedSession, LoginPaced, FilePaced
<1> QED
  BY <1>1, <1>2, <1>5, <1>8, <1>9 DEF PacedInv, Paced

\* The file the script has asked for is all it needed before the next update.
LEMMA PacedGoesOn ==
  ASSUME DataInv, PacedInv, Reads, GoesOn
  PROVE  PacedInv' /\ made[Len(made)].good
PROOF
<1>1. /\ Len(down) \in Nat /\ Len(down) > 0 /\ Len(down') = Len(down) - 1
      /\ \A i \in 1 .. Len(down') : down'[i] = down[i + 1]
      /\ UNCHANGED <<state, buffer, up, made, overwritten>>
  BY ReadTakes DEF serverVars, GoesOn
<1>2. /\ form = "AwaitFile" /\ form' = "AwaitUpdate"
      /\ ~ IsUpdate(1) /\ down[1].code = "STC_FILE"
  BY DEF GoesOn, IsUpdate
<1>3. ~ overwritten /\ Paced
  BY <1>1, <1>2 DEF PacedInv, Overtaken
<1>4. /\ RightAnswer(1)
      /\ \A j \in 1 .. Len(down) : j # 1 => IsUpdate(j)
  <2>1. 1 \in 1 .. Len(down)
    BY <1>1
  <2> QED
    BY <1>2, <1>3, <2>1 DEF Paced, PacedDown
<1>5. made[Len(made)].good
  BY <1>2, <1>4 DEF RightAnswer, NoFile
<1>6. OnlyUpdates'
  <2>1. \A i \in 1 .. Len(down') : i + 1 \in 1 .. Len(down) /\ i + 1 # 1
    BY <1>1
  <2> QED
    BY <1>1, <1>4, <2>1 DEF OnlyUpdates, IsUpdate
<1>7. state # "Closed" => state = "WaitingForQueries" /\ Quiet
  <2>1. ~ OnlyUpdates
    BY <1>1, <1>2 DEF OnlyUpdates
  <2> QED
    BY <1>2, <1>3, <2>1 DEF Paced, PacedSession, FilePaced
<1>8. PacedDown' /\ PacedRequest'
  BY <1>1, <1>2, <1>3, <1>6 DEF Paced, PacedDown, PacedRequest, Asked
<1>9. state # "Closed" => PacedSession'
  BY <1>1, <1>2, <1>7 DEF PacedSession, Quiet
<1> QED
  BY <1>1, <1>3, <1>5, <1>8, <1>9 DEF PacedInv, Paced

\* The end of the connection, with some of what was on its way.
LEMMA PacedLost ==
  ASSUME DataInv, PacedInv, Throws \/ ConnectionLost
  PROVE  PacedInv'
PROOF
<1>1. /\ UNCHANGED <<made, overwritten>>
      /\ \/ form' = "Closed"
         \/ /\ state' = "Closed" /\ UNCHANGED form
            /\ form \notin {"ServerChooser", "Closed"}
            /\ \E n \in 0 .. Len(down) : down' = SubSeq(down, 1, n)
  BY EndKinds
<1>2. CASE form' \in {"Closed", "AwaitData"}
  BY <1>2 DEF PacedInv
<1>3. CASE /\ state' = "Closed" /\ UNCHANGED form /\ form \notin {"Closed", "AwaitData"}
           /\ \E n \in 0 .. Len(down) : down' = SubSeq(down, 1, n)
  <2>1. /\ Len(down) \in Nat /\ Len(down') \in Nat /\ Len(down') <= Len(down)
        /\ \A i \in 1 .. Len(down') : down'[i] = down[i]
    BY <1>3, LostTypes
  <2>2. \A i \in 1 .. Len(down') :
          i \in 1 .. Len(down) /\ (IsUpdate(i)' <=> IsUpdate(i))
    BY <2>1 DEF IsUpdate
  <2>3. Len(down') = 0 \/ 1 \in 1 .. Len(down')
    BY <2>1
  <2>4. CASE overwritten
    BY <1>1, <1>3, <2>1, <2>2, <2>3, <2>4 DEF PacedInv, Overtaken
  <2>5. CASE ~ overwritten
    <3>1. PacedDown /\ PacedRequest
      BY <1>3, <2>5 DEF PacedInv, Paced
    <3>2. form = "ServerChooser" => Len(down') = 0
      BY <2>1, <3>1 DEF PacedDown
    <3>3. OnlyUpdates => OnlyUpdates'
      BY <2>2 DEF OnlyUpdates
    <3>4. Len(down) <= 1 => Len(down') <= 1
      BY <2>1
    <3>5. LoginAnswered => Len(down') = 0 \/ LoginAnswered'
      <4> SUFFICES ASSUME LoginAnswered, 1 \in 1 .. Len(down')
                   PROVE  LoginAnswered'
        BY <2>3
      <4>1. down'[1] = down[1] /\ Len(down') > 0
        BY <2>1
      <4>2. \A i \in 2 .. Len(down') :
              i \in 1 .. Len(down') /\ i \in 2 .. Len(down)
        BY <2>1
      <4> QED
        BY <1>1, <2>2, <4>1, <4>2 DEF LoginAnswered
    <3>6. Len(down) = 0 => Len(down') = 0
      BY <2>1
    <3>7. ASSUME form = "AwaitFile", NEW i \in 1 .. Len(down')
          PROVE  \/ IsUpdate(i)'
                 \/ /\ RightAnswer(i)'
                    /\ \A j \in 1 .. Len(down') : j # i => IsUpdate(j)'
      <4>1. CASE IsUpdate(i)
        BY <2>2, <4>1
      <4>2. CASE /\ RightAnswer(i)
                 /\ \A j \in 1 .. Len(down) : j # i => IsUpdate(j)
        <5>1. \A j \in 1 .. i - 1 : j \in 1 .. Len(down')
          BY <2>1
        <5>2. RightAnswer(i)'
          BY <1>1, <2>1, <2>2, <4>2, <5>1 DEF RightAnswer
        <5> QED
          BY <2>2, <4>2, <5>2
      <4> QED
        BY <2>2, <3>1, <3>7, <4>1, <4>2 DEF PacedDown
    <3>8. PacedDown'
      BY <1>3, <3>1, <3>2, <3>3, <3>4, <3>5, <3>6, <3>7 DEF PacedDown
    <3>9. PacedRequest'
      BY <1>1, <1>3, <3>1 DEF PacedRequest, Asked
    <3> QED
      BY <1>1, <1>3, <2>5, <3>8, <3>9 DEF PacedInv, Paced
  <2> QED
    BY <2>4, <2>5
<1> QED
  BY <1>1, <1>2, <1>3

\* The parts of a request arrive.
LEMMA PacedArrives ==
  ASSUME DataInv, ScriptInv, PacedInv, ReceivePart
  PROVE  PacedInv'
PROOF
<1>1. DataOK /\ Len(up) > 0
  BY ArrivedParts DEF DataInv
<1>2. /\ UNCHANGED <<state, expect, form, made, down, overwritten>>
      /\ state \in Waiting
  BY DEF ReceivePart, clientVars
<1>3. CASE form \in {"Closed", "AwaitData"}
  BY <1>2, <1>3 DEF PacedInv
<1>4. CASE form \notin {"Closed", "AwaitData"} /\ overwritten
  BY <1>2, <1>4 DEF PacedInv, Overtaken, IsUpdate
<1>5. CASE form \notin {"Closed", "AwaitData"} /\ ~ overwritten
  <2>1. Paced /\ PacedSession /\ ~ Quiet /\ state # "Closed"
    BY <1>1, <1>2, <1>5 DEF PacedInv, Paced, Quiet, Waiting
  <2>2. /\ Arriving
        /\ form = "AwaitKey" \/ form = "AwaitAuth" \/ form = "AwaitFile"
    BY <1>2, <1>5, <2>1
    DEF ScriptInv, ScriptForms, Awaiting, PacedSession, KeyPaced, LoginPaced,
        FilePaced, Waiting
  <2>3. made[Len(made)].blocks \in Nat
    <3>1. Len(made) > 0
      BY <2>1, <2>2 DEF Paced, PacedRequest, Asked
    <3>2. made[Len(made)] \in Request
      BY <1>1, <3>1, Lengths, ElementOfSeq DEF DataOK
    <3> QED
      BY <3>2, BoundsAssumption DEF Request, BoundsAssumption
  <2>4. Arriving'
    BY <2>2, <2>3, ArriveArrives
  <2>5. PacedDown' /\ PacedRequest' /\ (OnlyUpdates' <=> OnlyUpdates)
    BY <1>2, <2>1
    DEF Paced, PacedDown, PacedRequest, Asked, OnlyUpdates, IsUpdate,
        LoginAnswered, RightAnswer
  <2>6. PacedSession'
    BY <1>2, <2>1, <2>2, <2>4, <2>5
    DEF PacedSession, KeyPaced, LoginPaced, FilePaced, Waiting
  <2> QED
    BY <1>2, <1>5, <2>5, <2>6 DEF PacedInv, Paced
<1> QED
  BY <1>3, <1>4, <1>5

\* An update after what is on its way, when the script can expect one.
LEMMA PacedUpdated ==
  ASSUME DataInv, PacedDown, UNCHANGED <<form, made>>,
         Len(down') = Len(down) + 1,
         \A i \in 1 .. Len(down) : down'[i] = down[i],
         down'[Len(down) + 1].code = "STC_SESSION_KEY",
         \/ form = "AwaitKey" /\ Len(down) = 0
         \/ form = "AwaitAuth" /\ LoginAnswered
         \/ form \in {"AwaitFile", "AwaitUpdate"}
  PROVE  PacedDown' /\ (OnlyUpdates => OnlyUpdates')
PROOF
<1>1. Len(down) \in Nat
  BY Lengths DEF DataInv
<1>2. /\ \A i \in 1 .. Len(down) : IsUpdate(i)' <=> IsUpdate(i)
      /\ \A i \in 1 .. Len(down') :
           i \in 1 .. Len(down) \/ (i = Len(down) + 1 /\ IsUpdate(i)')
  <2>1. \A i \in 1 .. Len(down) : IsUpdate(i)' <=> IsUpdate(i)
    BY DEF IsUpdate
  <2>2. \A i \in 1 .. Len(down') : i \in 1 .. Len(down) \/ i = Len(down) + 1
    BY <1>1
  <2>3. ASSUME NEW i \in 1 .. Len(down'), i = Len(down) + 1
        PROVE  IsUpdate(i)'
    <3>1. down'[i].code = "STC_SESSION_KEY"
      BY <2>3
    <3> QED
      BY <3>1 DEF IsUpdate
  <2> QED
    BY <2>1, <2>2, <2>3
<1>3. OnlyUpdates => OnlyUpdates'
  BY <1>2 DEF OnlyUpdates
<1>4. CASE form = "AwaitKey"
  <2>1. Len(down') <= 1 /\ Len(down) = 0
    BY <1>4
  <2>2. OnlyUpdates'
    BY <1>2, <2>1 DEF OnlyUpdates
  <2> QED
    BY <1>3, <1>4, <2>1, <2>2 DEF PacedDown
<1>5. CASE form = "AwaitAuth"
  <2>1. LoginAnswered
    BY <1>5
  <2>2. 1 \in 1 .. Len(down) /\ down'[1] = down[1] /\ Len(down') > 0
    BY <1>1, <2>1 DEF LoginAnswered
  <2>3. \A i \in 2 .. Len(down') : i \in 1 .. Len(down') /\
          (i \in 1 .. Len(down) => i \in 2 .. Len(down))
    BY <1>1
  <2>4. LoginAnswered'
    BY <1>2, <2>1, <2>2, <2>3 DEF LoginAnswered
  <2> QED
    BY <1>3, <1>5, <2>4 DEF PacedDown
<1>6. CASE form = "AwaitFile"
  <2>1. ASSUME NEW i \in 1 .. Len(down')
        PROVE  \/ IsUpdate(i)'
               \/ /\ RightAnswer(i)'
                  /\ \A j \in 1 .. Len(down') : j # i => IsUpdate(j)'
    <3>1. CASE i \in 1 .. Len(down) /\ ~ IsUpdate(i)
      <4>1. /\ RightAnswer(i)
            /\ \A j \in 1 .. Len(down) : j # i => IsUpdate(j)
        BY <1>6, <3>1 DEF PacedDown
      <4>2. \A j \in 1 .. i - 1 : j \in 1 .. Len(down)
        BY <1>1, <3>1
      <4>3. RightAnswer(i)'
        BY <1>2, <3>1, <4>1, <4>2 DEF RightAnswer
      <4> QED
        BY <1>2, <4>1, <4>3
    <3> QED
      BY <1>2, <3>1
  <2> QED
    BY <1>3, <1>6, <2>1 DEF PacedDown
<1>7. CASE form = "AwaitUpdate"
  BY <1>3, <1>7 DEF PacedDown
<1> QED
  BY <1>3, <1>4, <1>5, <1>6, <1>7

\* A key sent to a script that is still there arrives.
LEMMA UpdateIsSent ==
  ASSUME DataInv, form \notin {"Closed", "AwaitData"}, NEW next, UpdateKey(next)
  PROVE  /\ state' = next /\ Len(down') = Len(down) + 1
         /\ \A i \in 1 .. Len(down) : down'[i] = down[i]
         /\ down'[Len(down) + 1].code = "STC_SESSION_KEY"
         /\ Len(down) \in Nat
  BY UpdateEffect, Lengths DEF DataInv

\* An input that hit an update, or came after one that did.
LEMMA OvertakenConsumes ==
  ASSUME DataInv, Overtaken, Consume
  PROVE  Overtaken'
PROOF
<1>1. /\ form = "AwaitFile" /\ UNCHANGED form
      /\ state = "WaitingForQueries" /\ Len(down) > 0 /\ IsUpdate(1)
  BY DEF Overtaken, Consume, Waiting, clientVars
<1>2. CASE UpdateKey("WaitingForQueries")
  <2>1. /\ state' = "WaitingForQueries" /\ Len(down') = Len(down) + 1
        /\ \A i \in 1 .. Len(down) : down'[i] = down[i]
        /\ Len(down) \in Nat
    BY <1>1, <1>2, UpdateIsSent
  <2>2. Len(down') > 0 /\ down'[1] = down[1]
    BY <1>1, <2>1
  <2> QED
    BY <1>1, <2>1, <2>2 DEF Overtaken, IsUpdate
<1>3. CASE state' \in {"SendingFile", "Closed"} /\ UNCHANGED down
  BY <1>1, <1>3 DEF Overtaken, IsUpdate
<1> QED
  BY <1>1, <1>2, <1>3 DEF Consume

\* A whole input starts what its request asks for.
LEMMA PacedConsumes ==
  ASSUME DataInv, ScriptInv, PacedInv, Consume
  PROVE  PacedInv'
PROOF
<1>1. DataOK /\ Len(buffer) = InputSize /\ state \in Waiting
  BY DEF DataInv, Consume
<1>2. UNCHANGED <<form, made, up, overwritten>>
  BY DEF Consume, clientVars
<1>3. CASE form \in {"Closed", "AwaitData"} \/ overwritten
  BY <1>2, <1>3, OvertakenConsumes DEF PacedInv
<1>4. CASE form \notin {"Closed", "AwaitData"} /\ ~ overwritten
  <2>1. Paced /\ PacedSession /\ ~ Quiet
    BY <1>1, <1>4 DEF PacedInv, Paced, Quiet, InputSize, Waiting
  <2>2. /\ Arriving
        /\ \/ form = "AwaitKey" /\ state = "Initial" /\ Len(down) = 0
           \/ form = "AwaitAuth" /\ state = "WaitingForAuth" /\ Len(down) = 0
           \/ form = "AwaitFile" /\ state = "WaitingForQueries" /\ OnlyUpdates
    BY <1>1, <1>4, <2>1
    DEF ScriptInv, ScriptForms, Awaiting, PacedSession, KeyPaced, LoginPaced,
        FilePaced, Waiting
  <2>3. /\ CodeOf(buffer[1]) = {made[Len(made)].code}
        /\ SizeOf(buffer[2]) = {made[Len(made)].blocks}
    BY <1>1, <2>2, ArrivedInput
  <2>4. PacedRequest'
    BY <1>2, <2>1 DEF Paced, PacedRequest, Asked
  <2>5. CASE form = "AwaitKey"
    <3>1. state = "Initial" /\ Len(down) = 0
          /\ made[Len(made)].code = "CTS_RSA_KEY"
          /\ made[Len(made)].blocks = 0
      BY <2>1, <2>2, <2>5 DEF Paced, PacedRequest, Asked
    <3>2. UpdateKey("WaitingForAuth") /\ buffer' = <<>>
      BY <2>3, <3>1 DEF Consume
    <3>3. /\ state' = "WaitingForAuth" /\ Len(down') = Len(down) + 1
          /\ \A i \in 1 .. Len(down) : down'[i] = down[i]
          /\ down'[Len(down) + 1].code = "STC_SESSION_KEY"
      BY <1>4, <3>2, UpdateIsSent
    <3>4. PacedDown'
      BY <1>2, <2>1, <2>5, <3>1, <3>3, PacedUpdated DEF Paced
    <3>5. Quiet'
      BY <1>1, <1>2, <2>2, <3>1, <3>2, Lengths, EmptySeq
      DEF Quiet, Arriving, InputSize
    <3> QED
      BY <1>2, <1>4, <2>4, <2>5, <3>3, <3>4, <3>5
      DEF PacedInv, Paced, PacedSession, KeyPaced
  <2>6. CASE form = "AwaitAuth" \/ form = "AwaitFile"
    <3>1. \/ /\ form = "AwaitAuth" /\ state = "WaitingForAuth"
             /\ made[Len(made)].code = "CTS_AUTH_REQUEST"
             /\ Len(down) = 0
          \/ /\ form = "AwaitFile" /\ state = "WaitingForQueries"
             /\ made[Len(made)].code = "CTS_FILE_REQUEST"
             /\ OnlyUpdates
      BY <2>1, <2>2, <2>6 DEF Paced, PacedRequest, Asked
    <3>2. /\ \/ form = "AwaitAuth" /\ state' = "ValidatingAuth"
             \/ form = "AwaitFile" /\ state' = "SendingFile"
          /\ expect' = made[Len(made)].blocks /\ UNCHANGED <<buffer, down>>
      BY <2>3, <3>1 DEF Consume
    <3>3. Served'
      BY <1>1, <1>2, <2>2, <3>2 DEF Served, Arriving
    <3>4. PacedDown' /\ (OnlyUpdates' <=> OnlyUpdates)
      BY <1>2, <2>1, <3>2
      DEF Paced, PacedDown, OnlyUpdates, IsUpdate, LoginAnswered, RightAnswer
    <3>5. PacedSession'
      BY <1>2, <3>1, <3>2, <3>3, <3>4 DEF PacedSession, LoginPaced, FilePaced
    <3> QED
      BY <1>2, <1>4, <2>4, <3>4, <3>5 DEF PacedInv, Paced
  <2> QED
    BY <2>2, <2>5, <2>6
<1> QED
  BY <1>3, <1>4

\* A message sent to a script that is still there arrives.
LEMMA AnswerIsSent ==
  ASSUME DataInv, form \notin {"Closed", "AwaitData"}, NEW answer \in Answer, NEW next,
         Write(answer, next)
  PROVE  /\ state' = next /\ Len(down') = Len(down) + 1
         /\ \A i \in 1 .. Len(down) : down'[i] = down[i]
         /\ down'[Len(down) + 1] = answer
         /\ Len(down) \in Nat
  BY WriteEffect, Lengths DEF DataInv

\* The login is refused only when it is wrong: no update can be on its way.
LEMMA PacedAuth ==
  ASSUME DataInv, ScriptInv, ScriptKeysInv, PacedInv, ReadAndValidateAuth
  PROVE  PacedInv'
PROOF
<1>1. /\ state = "ValidatingAuth" /\ BodyArrived /\ TakeBody
      /\ UNCHANGED <<form, made, overwritten>>
  BY DEF ReadAndValidateAuth, clientVars
<1>2. CASE form \in {"Closed", "AwaitData"}
  BY <1>1, <1>2 DEF PacedInv
<1>3. CASE form \notin {"Closed", "AwaitData"}
  <2>1. /\ ~ overwritten /\ Paced /\ form = "AwaitAuth"
        /\ Served /\ Len(down) = 0
    BY <1>1, <1>3
    DEF PacedInv, Overtaken, Paced, PacedSession, KeyPaced, LoginPaced,
        FilePaced, ScriptInv, ScriptForms, Awaiting
  <2>2. PICK answer \in Answer, next \in Waiting :
          /\ Write(answer, next)
          /\ answer.id = buffer[2].id
          /\ \/ answer.code = "STC_AUTH_SUCCESSFUL"
                /\ next = "WaitingForQueries"
             \/ /\ answer.code = "STC_AUTH_FAILED"
                /\ next = "WaitingForAuth"
                /\ ~ (Legible /\ made[answer.id].good)
    BY AuthServes
  <2>3. /\ state' = next /\ Len(down') = Len(down) + 1
        /\ down'[Len(down) + 1] = answer
    BY <1>3, <2>2, AnswerIsSent
  <2>4. Len(down') = 1 /\ down'[1] = answer
    BY <2>1, <2>3
  <2>5. Legible /\ answer.id = Len(made)
    <3>1. HeldAfter(Len(down), sessionKey)
      BY <1>1, <1>3 DEF ScriptKeysInv, ScriptKeysAgree, KeysAgree
    <3>2. clientKey = sessionKey
      BY <2>1, <3>1 DEF HeldAfter
    <3>3. made[Len(made)].key = clientKey
      BY <2>1 DEF ScriptKeysInv, RequestIsCurrent
    <3> QED
      BY <2>1, <2>2, <3>2, <3>3, ServedIsLegible
  <2>6. LoginAnswered'
    <3>1. Len(down') > 0 /\ \A i \in 2 .. Len(down') : IsUpdate(i)'
      BY <2>4
    <3> QED
      BY <1>1, <2>2, <2>4, <2>5, <3>1 DEF LoginAnswered
  <2>7. Quiet'
    BY <1>1, <2>1, ServedLeavesNothing
  <2>8. PacedDown'
    BY <1>1, <2>1, <2>6 DEF PacedDown
  <2>9. PacedSession'
    <3>1. LoginPaced'
      BY <2>2, <2>3, <2>4, <2>6, <2>7 DEF LoginPaced, LoginAnswered
    <3> QED
      BY <1>1, <2>1, <3>1 DEF PacedSession
  <2>10. PacedRequest'
    BY <1>1, <2>1 DEF Paced, PacedRequest, Asked
  <2> QED
    BY <1>1, <2>1, <2>8, <2>9, <2>10 DEF PacedInv, Paced
<1> QED
  BY <1>2, <1>3

\* The file is sent, or it is not there, or an update is on its way.
LEMMA PacedFile ==
  ASSUME DataInv, ScriptInv, ScriptKeysInv, PacedInv, TrySendFile
  PROVE  PacedInv'
PROOF
<1>1. /\ state = "SendingFile" /\ BodyArrived /\ TakeBody
      /\ UNCHANGED <<form, made, overwritten>>
  BY DEF TrySendFile, clientVars
<1>2. CASE form \in {"Closed", "AwaitData"}
  BY <1>1, <1>2 DEF PacedInv
<1>3. CASE form \notin {"Closed", "AwaitData"}
  <2>1. PICK answer \in Answer :
          /\ Write(answer, "WaitingForQueries")
          /\ answer.id = buffer[2].id
          /\ \/ /\ answer.code = "STC_FILE" /\ answer.key = sessionKey
                /\ Legible /\ made[answer.id].good
             \/ /\ answer.code \in NoFile
                /\ ~ (expect > 0 /\ Legible /\ made[answer.id].good)
    BY FileServes
  <2>2. /\ state' = "WaitingForQueries" /\ Len(down') = Len(down) + 1
        /\ \A i \in 1 .. Len(down) : down'[i] = down[i]
        /\ down'[Len(down) + 1] = answer
        /\ Len(down) \in Nat
    BY <1>3, <2>1, AnswerIsSent
  <2>3. CASE overwritten
    <3>1. Overtaken /\ Len(down) > 0 /\ IsUpdate(1)
      BY <1>1, <1>3, <2>3 DEF PacedInv, Overtaken
    <3>2. Len(down') > 0 /\ down'[1] = down[1]
      BY <2>2, <3>1
    <3> QED
      BY <1>1, <2>2, <2>3, <3>1, <3>2 DEF PacedInv, Overtaken, IsUpdate
  <2>4. CASE ~ overwritten
    <3>1. Paced /\ form = "AwaitFile" /\ Served /\ OnlyUpdates
      BY <1>1, <1>3, <2>4
      DEF PacedInv, Paced, PacedSession, KeyPaced, LoginPaced, FilePaced,
          ScriptInv, ScriptForms, Awaiting
    <3>2. PICK n \in Nat : n = Len(down) + 1
      BY <2>2
    <3>3. /\ \A i \in 1 .. n - 1 : IsUpdate(i) /\ IsUpdate(i)'
          /\ \A i \in 1 .. Len(down') : i # n => i \in 1 .. n - 1
      BY <2>2, <3>1, <3>2 DEF OnlyUpdates, IsUpdate
    <3>4. RightAnswer(n)'
      <4>1. /\ answer.id = Len(made)
            /\ expect = made[Len(made)].blocks
            /\ Legible <=> expect = 0 \/ made[Len(made)].key = sessionKey
        BY <2>1, <3>1, ServedIsLegible
      <4>2. CASE answer.code = "STC_FILE" /\ made[answer.id].good
        BY <1>1, <2>2, <3>2, <4>1, <4>2 DEF RightAnswer
      <4>3. CASE /\ answer.code \in NoFile
                 /\ ~ (expect > 0 /\ Legible /\ made[answer.id].good)
        <5>1. ASSUME made[Len(made)].good
              PROVE  \E j \in 1 .. n - 1 : IsUpdate(j)'
          <6>1. sessionKey # clientKey
            <7>1. made[Len(made)].key = clientKey
              BY <3>1 DEF ScriptKeysInv, RequestIsCurrent
            <7>2. made[Len(made)] \in Request /\ Asked("CTS_FILE_REQUEST")
              BY <3>1, Lengths, ElementOfSeq
              DEF DataInv, DataOK, Asked, Paced, PacedRequest
            <7>3. expect > 0
              BY <4>1, <5>1, <7>2 DEF Request, Asked
            <7> QED
              BY <4>1, <4>3, <5>1, <7>1, <7>3
          <6>2. HeldAfter(Len(down), sessionKey)
            BY <1>1, <1>3 DEF ScriptKeysInv, ScriptKeysAgree, KeysAgree
          <6>3. \E j \in 1 .. Len(down) : IsUpdate(j)
            BY <6>1, <6>2 DEF HeldAfter
          <6> QED
            BY <2>2, <3>2, <3>3, <6>3
        <5> QED
          BY <1>1, <2>2, <3>2, <4>3, <5>1 DEF RightAnswer
      <4> QED
        BY <2>1, <4>2, <4>3
    <3>5. PacedDown'
      <4>1. \A i \in 1 .. Len(down') :
              \/ IsUpdate(i)'
              \/ /\ RightAnswer(i)'
                 /\ \A j \in 1 .. Len(down') : j # i => IsUpdate(j)'
        BY <3>3, <3>4
      <4> QED
        BY <1>1, <3>1, <4>1 DEF PacedDown
    <3>6. Quiet'
      BY <1>1, <3>1, ServedLeavesNothing
    <3>7. PacedSession' /\ PacedRequest'
      BY <1>1, <2>2, <3>1, <3>6
      DEF PacedSession, FilePaced, Paced, PacedRequest, Asked
    <3> QED
      BY <1>1, <2>4, <3>5, <3>7 DEF PacedInv, Paced
  <2> QED
    BY <2>3, <2>4
<1> QED
  BY <1>2, <1>3

\* The timer: an update after everything else, or in the place of an input.
LEMMA PacedTimer ==
  ASSUME DataInv, ScriptInv, PacedInv, SessionKeyTimer
  PROVE  PacedInv'
PROOF
<1>1. /\ state = "WaitingForQueries" /\ Len(buffer) < InputSize
      /\ UpdateKey("WaitingForQueries")
      /\ buffer' = [i \in DOMAIN buffer |-> [part |-> "update", id |-> 0]]
      /\ overwritten' = (overwritten \/ buffer # <<>>)
      /\ UNCHANGED <<form, made, up>>
  BY DEF SessionKeyTimer, clientVars
<1>2. DataOK /\ Len(buffer') = Len(buffer)
  BY <1>1, OverwrittenBuffer DEF DataInv
<1>3. CASE form \in {"Closed", "AwaitData"}
  BY <1>1, <1>3 DEF PacedInv
<1>4. CASE form \notin {"Closed", "AwaitData"}
  <2>1. /\ state' = "WaitingForQueries" /\ Len(down') = Len(down) + 1
        /\ \A i \in 1 .. Len(down) : down'[i] = down[i]
        /\ down'[Len(down) + 1].code = "STC_SESSION_KEY"
        /\ Len(down) \in Nat
    BY <1>1, <1>4, UpdateIsSent
  <2>2. \/ overwritten /\ Overtaken
        \/ ~ overwritten /\ Paced /\ PacedSession
    BY <1>1, <1>4 DEF PacedInv, Paced
  <2>3. CASE /\ form = "AwaitFile" /\ overwritten'
             /\ OnlyUpdates \/ (Len(down) > 0 /\ IsUpdate(1))
    <3>1. Len(down') > 0 /\ IsUpdate(1)'
      <4>1. CASE Len(down) > 0
        <5>1. 1 \in 1 .. Len(down)
          BY <2>1, <4>1
        <5> QED
          BY <2>1, <2>3, <5>1 DEF OnlyUpdates, IsUpdate
      <4>2. CASE Len(down) = 0
        BY <2>1, <4>2 DEF IsUpdate
      <4> QED
        BY <2>1, <4>1, <4>2
    <3> QED
      BY <1>1, <2>1, <2>3, <3>1 DEF PacedInv, Overtaken
  <2>4. CASE /\ ~ overwritten /\ Paced /\ PacedSession
             /\ buffer # <<>>
    <3>1. Len(buffer) # 0
      BY <1>2, <2>4, EmptySeq DEF DataOK
    <3>2. form = "AwaitFile" /\ OnlyUpdates
      BY <1>1, <1>4, <2>4, <3>1
      DEF PacedSession, KeyPaced, LoginPaced, FilePaced, Quiet, ScriptInv,
          ScriptForms, Awaiting
    <3> QED
      BY <1>1, <2>3, <2>4, <3>2
  <2>5. CASE /\ ~ overwritten /\ Paced /\ PacedSession
             /\ buffer = <<>>
    <3>1. Len(buffer) = 0 /\ Len(buffer') = 0 /\ ~ overwritten'
      BY <1>1, <1>2, <2>5, EmptySeq
    <3>2. \/ form = "AwaitAuth" /\ LoginAnswered /\ Quiet
          \/ form = "AwaitFile" /\ FilePaced
          \/ form = "AwaitUpdate" /\ Quiet
      <4>1. \/ form = "AwaitAuth" /\ Quiet /\ Len(down) > 0
            \/ form = "AwaitFile" /\ FilePaced
            \/ form = "AwaitUpdate" /\ Quiet
        BY <1>1, <1>4, <2>5
        DEF PacedSession, KeyPaced, LoginPaced, ScriptInv, ScriptForms,
            Awaiting
      <4>2. Len(down) > 0 => Len(down) # 0
        BY <2>1
      <4>3. form = "AwaitAuth" => Len(down) = 0 \/ LoginAnswered
        BY <2>5 DEF Paced, PacedDown
      <4> QED
        BY <4>1, <4>2, <4>3
    <3>3. PacedDown' /\ (OnlyUpdates => OnlyUpdates')
      BY <1>1, <2>1, <2>5, <3>2, PacedUpdated DEF Paced
    <3>4. Quiet => Quiet'
      BY <1>1, <3>1 DEF Quiet
    <3>5. Arriving => Arriving'
      BY <1>1, <3>1 DEF Arriving
    <3>6. Len(down') > 0
      BY <2>1
    <3>7. PacedSession'
      BY <1>1, <2>1, <3>2, <3>3, <3>4, <3>5, <3>6
      DEF PacedSession, LoginPaced, FilePaced
    <3>8. PacedRequest'
      BY <1>1, <2>5 DEF Paced, PacedRequest, Asked
    <3> QED
      BY <1>1, <3>1, <3>3, <3>7, <3>8 DEF PacedInv, Paced
  <2>6. overwritten /\ Overtaken => form = "AwaitFile" /\ overwritten'
                                    /\ Len(down) > 0 /\ IsUpdate(1)
    BY <1>1 DEF Overtaken
  <2> QED
    BY <2>2, <2>3, <2>4, <2>5, <2>6
<1> QED
  BY <1>3, <1>4

\* Every step keeps the script and the session paced.
LEMMA PacedNext ==
  ASSUME DataInv, ScriptInv, ScriptKeysInv, PacedInv, [DummyNext]_dummyVars
  PROVE  PacedInv'
PROOF
<1>1. CASE Reads
  <2>1. CASE Returns \/ Waits
    BY <2>1 DEF Returns, Waits, PacedInv
  <2> QED
    BY <1>1, <2>1, ReadKinds, PacedAsks, PacedGoesOn
<1>2. CASE SessionActs
  <2>1. CASE EndOfStream
    BY <2>1 DEF EndOfStream, PacedInv, clientVars
  <2> QED
    BY <1>2, <2>1, PacedArrives, PacedConsumes, PacedAuth, PacedFile,
       PacedTimer DEF SessionActs
<1>3. CASE UNCHANGED dummyVars
  BY <1>3
  DEF dummyVars, vars, serverVars, clientVars, PacedInv, Overtaken, Paced,
      PacedDown, PacedRequest, PacedSession, KeyPaced, LoginPaced, FilePaced,
      LoginAnswered, RightAnswer, Arriving, Served, Quiet, OnlyUpdates,
      IsUpdate, Asked
<1> QED
  BY <1>1, <1>2, <1>3, DummySteps, PacedConnect, PacedLost

-----------------------------------------------------------------------------
(* Counting. The updates the script has taken are those it needed for its  *)
(* requests, and all others are still on their way: a script that finds an *)
(* update in the place of a file has been overtaken.                       *)

Unread == {i \in DOMAIN down : IsUpdate(i)}

\* A set of positions in a stream is finite.
LEMMA PositionsAreFinite ==
  ASSUME NEW n \in Nat, NEW S \in SUBSET (1 .. n)
  PROVE  IsFiniteSet(S) /\ Cardinality(S) \in Nat
PROOF
<1>1. IsFiniteSet(1 .. n)
  BY FS_Interval
<1>2. IsFiniteSet(S)
  BY <1>1, FS_Subset
<1> QED
  BY <1>2, FS_CardinalityType

\* The updates on their way are finitely many, before and after a step.
LEMMA UnreadIsFinite ==
  ASSUME DataInv, DataInv'
  PROVE  /\ Len(down) \in Nat /\ DOMAIN down = 1 .. Len(down)
         /\ Len(down') \in Nat /\ DOMAIN down' = 1 .. Len(down')
         /\ IsFiniteSet(Unread) /\ Cardinality(Unread) \in Nat
         /\ IsFiniteSet(Unread') /\ Cardinality(Unread') \in Nat
PROOF
<1>1. down \in Seq(Answer) /\ down' \in Seq(Answer)
  BY DEF DataInv, DataOK
<1>2. /\ Len(down) \in Nat /\ DOMAIN down = 1 .. Len(down)
      /\ Len(down') \in Nat /\ DOMAIN down' = 1 .. Len(down')
  BY <1>1, LenProperties
<1>3. /\ Unread \in SUBSET (1 .. Len(down))
      /\ Unread' \in SUBSET (1 .. Len(down'))
  BY <1>2 DEF Unread
<1> QED
  BY <1>2, <1>3, PositionsAreFinite

\* An update taken off the stream is one less.
LEMMA UnreadTaken ==
  ASSUME DataInv, DataInv', Len(down) > 0, Len(down') = Len(down) - 1,
         \A i \in 1 .. Len(down') : down'[i] = down[i + 1]
  PROVE  /\ Cardinality(Unread') <= Cardinality(Unread)
         /\ IsUpdate(1) => Cardinality(Unread') <= Cardinality(Unread) - 1
PROOF
<1> DEFINE rest == Unread \ {1}
           f == [i \in rest |-> i - 1]
<1>1. /\ Len(down) \in Nat /\ DOMAIN down = 1 .. Len(down)
      /\ DOMAIN down' = 1 .. Len(down')
      /\ IsFiniteSet(Unread) /\ Cardinality(Unread) \in Nat
      /\ Cardinality(Unread') \in Nat
  BY UnreadIsFinite
<1>2. \A i \in rest : i - 1 \in Unread'
  <2> SUFFICES ASSUME NEW i \in rest PROVE i - 1 \in Unread'
    OBVIOUS
  <2>1. /\ i \in 2 .. Len(down) /\ IsUpdate(i)
        /\ i - 1 \in 1 .. Len(down') /\ (i - 1) + 1 = i
    BY <1>1 DEF Unread
  <2>2. down'[i - 1] = down[i]
    BY <2>1
  <2> QED
    BY <1>1, <2>1, <2>2 DEF Unread, IsUpdate
<1>3. ASSUME NEW j \in Unread' PROVE j + 1 \in rest /\ (j + 1) - 1 = j
  <2>1. /\ j \in 1 .. Len(down') /\ down'[j].code = "STC_SESSION_KEY"
    BY <1>1 DEF Unread, IsUpdate
  <2>2. /\ j + 1 \in 1 .. Len(down) /\ j + 1 # 1 /\ (j + 1) - 1 = j
        /\ down[j + 1].code = "STC_SESSION_KEY"
    BY <1>1, <2>1
  <2> QED
    BY <1>1, <2>2 DEF Unread, IsUpdate
<1>4. f \in Surjection(rest, Unread')
  <2>1. f \in [rest -> Unread']
    BY <1>2
  <2>2. \A j \in Unread' : \E i \in rest : f[i] = j
    BY <1>3
  <2> QED
    BY <2>1, <2>2 DEF Surjection
<1>5. /\ IsFiniteSet(rest)
      /\ Cardinality(rest) = IF 1 \in Unread THEN Cardinality(Unread) - 1
                                             ELSE Cardinality(Unread)
  BY <1>1, FS_RemoveElement
<1>6. Cardinality(Unread') <= Cardinality(rest)
  BY <1>4, <1>5, FS_Surjection
<1>7. IsUpdate(1) => 1 \in Unread
  BY <1>1 DEF Unread
<1>8. Cardinality(rest) \in Nat
  BY <1>5, FS_CardinalityType
<1> QED
  BY <1>1, <1>5, <1>6, <1>7, <1>8

\* A message that the session appends, counted with the key it has generated.
LEMMA UnreadAppended ==
  ASSUME DataInv, DataInv', Len(down') = Len(down) + 1,
         \A i \in 1 .. Len(down) : down'[i] = down[i]
  PROVE  /\ Cardinality(Unread') <= Cardinality(Unread) + 1
         /\ down'[Len(down) + 1].code # "STC_SESSION_KEY" =>
              Cardinality(Unread') <= Cardinality(Unread)
PROOF
<1>1. /\ Len(down) \in Nat /\ DOMAIN down = 1 .. Len(down)
      /\ DOMAIN down' = 1 .. Len(down')
      /\ IsFiniteSet(Unread) /\ Cardinality(Unread) \in Nat
      /\ Cardinality(Unread') \in Nat
  BY UnreadIsFinite
<1>2. ASSUME NEW i \in Unread'
      PROVE  i \in Unread \/ (/\ i = Len(down) + 1
                             /\ down'[i].code = "STC_SESSION_KEY")
  <2>1. /\ i \in 1 .. Len(down') /\ down'[i].code = "STC_SESSION_KEY"
    BY <1>1 DEF Unread, IsUpdate
  <2>2. i \in 1 .. Len(down) \/ i = Len(down) + 1
    BY <1>1, <2>1
  <2> QED
    BY <1>1, <2>1, <2>2 DEF Unread, IsUpdate
<1>3. /\ IsFiniteSet(Unread \cup {Len(down) + 1})
      /\ Cardinality(Unread \cup {Len(down) + 1}) <= Cardinality(Unread) + 1
  BY <1>1, FS_AddElement
<1>4. Cardinality(Unread') <= Cardinality(Unread \cup {Len(down) + 1})
  <2>1. Unread' \in SUBSET (Unread \cup {Len(down) + 1})
    BY <1>2
  <2> QED
    BY <1>3, <2>1, FS_Subset
<1>5. down'[Len(down) + 1].code # "STC_SESSION_KEY" =>
        Cardinality(Unread') <= Cardinality(Unread)
  <2> SUFFICES ASSUME down'[Len(down) + 1].code # "STC_SESSION_KEY"
               PROVE  Cardinality(Unread') <= Cardinality(Unread)
    OBVIOUS
  <2>1. Unread' \in SUBSET Unread
    BY <1>2
  <2> QED
    BY <1>1, <2>1, FS_Subset
<1>6. Cardinality(Unread \cup {Len(down) + 1}) \in Nat
  BY <1>3, FS_CardinalityType
<1> QED
  BY <1>1, <1>3, <1>4, <1>5, <1>6

\* A stream that is cut off has no more updates than before.
LEMMA UnreadLost ==
  ASSUME DataInv, DataInv', Len(down') <= Len(down),
         \A i \in 1 .. Len(down') : down'[i] = down[i]
  PROVE  Cardinality(Unread') <= Cardinality(Unread)
PROOF
<1>1. /\ DOMAIN down = 1 .. Len(down) /\ DOMAIN down' = 1 .. Len(down')
      /\ Len(down) \in Nat /\ Len(down') \in Nat
      /\ IsFiniteSet(Unread)
  BY UnreadIsFinite
<1>2. Unread' \in SUBSET Unread
  BY <1>1 DEF Unread, IsUpdate
<1> QED
  BY <1>1, <1>2, FS_Subset

\* The updates the script has taken to get where it is.
KeysNeeded ==
  IF form = "AwaitAuth" THEN 1
  ELSE IF form \in {"AwaitFile", "AwaitUpdate"} THEN Len(made) - 2 ELSE 0

CountInv == Cardinality(Unread) + KeysNeeded <= sessionKey

\* How many requests the script has made, in numbers.
LEMMA NeededIsNumber ==
  ASSUME DataInv, ScriptInv
  PROVE  KeysNeeded \in Nat
PROOF
<1>1. Len(made) \in Nat /\ RequestsCount \in Nat
  BY Lengths, ScriptAssumption DEF DataInv, ScriptAssumption
<1>2. CASE form \in {"AwaitFile", "AwaitUpdate"}
  <2>1. \/ Len(made) \in 3 .. RequestsCount + 2
        \/ Len(made) \in 3 .. RequestsCount + 1
    BY <1>2 DEF ScriptInv
  <2>2. Len(made) - 2 \in Nat
    BY <1>1, <2>1
  <2> QED
    BY <1>2, <2>2 DEF KeysNeeded
<1>3. CASE form \notin {"AwaitFile", "AwaitUpdate"}
  BY <1>3 DEF KeysNeeded
<1> QED
  BY <1>2, <1>3

\* Nothing is on its way at first.
LEMMA CountInit == DummyInit => CountInv
PROOF
<1> SUFFICES ASSUME DummyInit PROVE CountInv
  OBVIOUS
<1>1. down = <<>> /\ form = "ServerChooser"
  BY DEF DummyInit, Init
<1>2. sessionKey = 0
  BY DEF DummyInit, Init
<1>3. Unread = {}
  BY <1>1 DEF Unread
<1>4. Cardinality(Unread) = 0
  BY <1>3, FS_EmptySet
<1>5. KeysNeeded = 0
  BY <1>1 DEF KeysNeeded
<1> QED
  BY <1>2, <1>4, <1>5 DEF CountInv

\* A script that goes on has taken an update or needs none.
LEMMA CountTaken ==
  ASSUME DataInv, DataInv', ScriptInv, ScriptInv', CountInv, Reads
  PROVE  CountInv'
PROOF
<1>1. /\ Len(down) > 0 /\ Len(down') = Len(down) - 1
      /\ \A i \in 1 .. Len(down') : down'[i] = down[i + 1]
      /\ UNCHANGED sessionKey
  BY ReadTakes DEF serverVars
<1>2. /\ Cardinality(Unread) \in Nat /\ Cardinality(Unread') \in Nat
      /\ sessionKey \in Nat
  BY UnreadIsFinite DEF DataInv, DataOK, Key
<1>3. /\ Cardinality(Unread') <= Cardinality(Unread)
      /\ IsUpdate(1) => Cardinality(Unread') <= Cardinality(Unread) - 1
  BY <1>1, UnreadTaken
<1>4. Len(made) \in Nat /\ KeysNeeded \in Nat
  BY NeededIsNumber, Lengths DEF DataInv
<1>5. \/ KeysNeeded' = 0 \/ KeysNeeded' = KeysNeeded
      \/ IsUpdate(1) /\ KeysNeeded' = KeysNeeded + 1
  <2>1. CASE \E request \in Request : Asks(request)
    <3>1. Len(made') = Len(made) + 1
      BY <2>1, AskedTypes
    <3>2. CASE form = "AwaitKey"
      <4>1. form' = "AwaitAuth" /\ IsUpdate(1)
        BY <2>1, <3>2 DEF Asks
      <4>2. KeysNeeded = 0 /\ KeysNeeded' = 1
        BY <3>2, <4>1 DEF KeysNeeded
      <4> QED
        BY <4>1, <4>2
    <3>3. CASE form = "AwaitAuth"
      <4>1. form' = "AwaitFile" /\ KeysNeeded = 1
        BY <2>1, <3>3 DEF Asks, KeysNeeded
      <4>2. Len(made) = 2
        BY <3>3 DEF ScriptInv
      <4>3. Len(made') - 2 = 1
        BY <3>1, <4>2
      <4> QED
        BY <4>1, <4>3 DEF KeysNeeded
    <3>4. CASE form = "AwaitUpdate"
      <4>1. form' = "AwaitFile" /\ IsUpdate(1)
        BY <2>1, <3>4 DEF Asks
      <4>2. KeysNeeded = Len(made) - 2 /\ KeysNeeded' = Len(made') - 2
        BY <3>4, <4>1 DEF KeysNeeded
      <4>3. KeysNeeded' = KeysNeeded + 1
        BY <1>4, <3>1, <4>2
      <4> QED
        BY <4>1, <4>3
    <3> QED
      BY <2>1, <3>2, <3>3, <3>4 DEF Asks
  <2>2. CASE GoesOn
    BY <2>2 DEF GoesOn, KeysNeeded
  <2>3. CASE Returns \/ Waits
    BY <2>3 DEF Returns, Waits, KeysNeeded
  <2> QED
    BY <2>1, <2>2, <2>3, ReadKinds
<1>6. Cardinality(Unread) + KeysNeeded <= sessionKey
  BY DEF CountInv
<1>7. Cardinality(Unread') + KeysNeeded' <= sessionKey
  <2>1. CASE KeysNeeded' = 0
    BY <1>2, <1>3, <1>4, <1>6, <2>1
  <2>2. CASE KeysNeeded' = KeysNeeded
    BY <1>2, <1>3, <1>4, <1>6, <2>2
  <2>3. CASE IsUpdate(1) /\ KeysNeeded' = KeysNeeded + 1
    <3>1. /\ Cardinality(Unread') <= Cardinality(Unread) - 1
          /\ KeysNeeded' = KeysNeeded + 1
      BY <1>3, <2>3
    <3> QED
      BY <1>2, <1>4, <1>6, <3>1
  <2> QED
    BY <1>5, <2>1, <2>2, <2>3
<1> QED
  BY <1>1, <1>7 DEF CountInv

\* The session counts a key before it tells the client.
LEMMA CountTold ==
  ASSUME DataInv, DataInv', SessionActs
  PROVE  /\ Cardinality(Unread) \in Nat /\ Cardinality(Unread') \in Nat
         /\ sessionKey \in Nat /\ sessionKey' \in Nat
         /\ Cardinality(Unread') - Cardinality(Unread)
            <= sessionKey' - sessionKey
PROOF
<1>1. /\ Cardinality(Unread) \in Nat /\ Cardinality(Unread') \in Nat
      /\ sessionKey \in Nat /\ sessionKey' \in Nat
  BY UnreadIsFinite DEF DataInv, DataOK, Key
<1>2. CASE /\ Len(down') = Len(down) + 1
           /\ \A i \in 1 .. Len(down) : down'[i] = down[i]
           /\ sessionKey' = sessionKey + 1
  <2>1. Cardinality(Unread') <= Cardinality(Unread) + 1
    BY <1>2, UnreadAppended
  <2> QED
    BY <1>1, <1>2, <2>1
<1>3. CASE /\ Len(down') = Len(down) + 1
           /\ \A i \in 1 .. Len(down) : down'[i] = down[i]
           /\ down'[Len(down) + 1].code # "STC_SESSION_KEY"
           /\ sessionKey' = sessionKey
  <2>1. Cardinality(Unread') <= Cardinality(Unread)
    BY <1>3, UnreadAppended
  <2> QED
    BY <1>1, <1>3, <2>1
<1>4. CASE /\ UNCHANGED down
           /\ sessionKey' = sessionKey \/ sessionKey' = sessionKey + 1
  <2>1. Unread' = Unread
    BY <1>4 DEF Unread, IsUpdate
  <2> QED
    BY <1>1, <1>4, <2>1
<1> QED
  BY <1>1, <1>2, <1>3, <1>4, SessionTells

\* Every step keeps count.
LEMMA CountNext ==
  ASSUME DataInv, DataInv', ScriptInv, ScriptInv', CountInv,
         [DummyNext]_dummyVars
  PROVE  CountInv'
PROOF
<1>1. /\ Cardinality(Unread) \in Nat /\ Cardinality(Unread') \in Nat
      /\ KeysNeeded \in Nat /\ sessionKey \in Nat
      /\ Len(down) \in Nat /\ Len(down') \in Nat
  BY UnreadIsFinite, NeededIsNumber DEF DataInv, DataOK, Key
<1>2. Cardinality(Unread) + KeysNeeded <= sessionKey
  BY DEF CountInv
\* When no key is generated and nothing more is needed.
<1>3. ASSUME sessionKey' = sessionKey,
             KeysNeeded' = 0 \/ KeysNeeded' = KeysNeeded,
             Cardinality(Unread') <= Cardinality(Unread)
      PROVE  CountInv'
  <2>1. Cardinality(Unread') + KeysNeeded' <= sessionKey
    BY <1>1, <1>2, <1>3
  <2> QED
    BY <1>3, <2>1 DEF CountInv
<1>4. CASE ConnectToServer
  <2>1. UNCHANGED <<down, sessionKey>> /\ form' = "AwaitKey"
    BY <1>4 DEF ConnectToServer, Send, serverVars
  <2>2. Unread' = Unread /\ KeysNeeded' = 0
    BY <2>1 DEF Unread, IsUpdate, KeysNeeded
  <2> QED
    BY <1>1, <1>3, <2>1, <2>2
<1>5. CASE Throws \/ ConnectionLost
  <2>1. /\ UNCHANGED <<sessionKey, made>>
        /\ form' = "Closed" \/ form' = form
        /\ \/ UNCHANGED down
           \/ \E n \in 0 .. Len(down) : down' = SubSeq(down, 1, n)
    BY <1>5, EndKinds
  <2>2. KeysNeeded' = 0 \/ KeysNeeded' = KeysNeeded
    BY <2>1 DEF KeysNeeded
  <2>3. Len(down') <= Len(down) /\ \A i \in 1 .. Len(down') : down'[i] = down[i]
    BY <1>1, <2>1, LostTypes
  <2>4. Cardinality(Unread') <= Cardinality(Unread)
    BY <2>3, UnreadLost
  <2> QED
    BY <1>3, <2>1, <2>2, <2>4
<1>6. CASE SessionActs /\ UNCHANGED <<form, clientKey, made, result>>
  <2>1. KeysNeeded' = KeysNeeded
    BY <1>6 DEF KeysNeeded
  <2>2. /\ Cardinality(Unread') - Cardinality(Unread)
           <= sessionKey' - sessionKey
        /\ sessionKey' \in Nat
    BY <1>6, CountTold
  <2>3. Cardinality(Unread') + KeysNeeded <= sessionKey'
    BY <1>1, <1>2, <2>2
  <2> QED
    BY <2>1, <2>3 DEF CountInv
<1>7. CASE UNCHANGED dummyVars
  BY <1>7
  DEF dummyVars, vars, serverVars, clientVars, CountInv, Unread, IsUpdate,
      KeysNeeded
<1> QED
  BY <1>4, <1>5, <1>6, <1>7, DummySteps, CountTaken

-----------------------------------------------------------------------------
(* What main returns.                                                      *)

\* Every file requested was there, but for the last one, which the script may
\* still wait for, or which it has not had when it gives up.
FilesWereThere ==
  \A i \in 3 .. Len(made) :
    \/ made[i].good
    \/ form \in {"AwaitFile", "AwaitData"} /\ i = Len(made)
    \/ form = "Closed" /\ result # "0"

EndInv ==
  /\ FilesWereThere
  /\ result = "0" => Len(made) = RequestsCount + 2
  /\ GivesUpOnlyForAReason

\* The answer to a request for a file is true when it is read.
LEMMA FileIsRight ==
  ASSUME DataInv, PacedInv, form = "AwaitFile", Len(down) > 0,
         down[1].code \in FileCodes
  PROVE  IF down[1].code = "STC_FILE" THEN made[Len(made)].good
                                      ELSE ~ made[Len(made)].good
PROOF
<1>1. ~ IsUpdate(1)
  BY DEF IsUpdate, FileCodes, NoFile
<1>2. Paced
  BY <1>1 DEF PacedInv, Overtaken
<1>3. 1 \in 1 .. Len(down)
  BY Lengths DEF DataInv
<1>4. RightAnswer(1)
  BY <1>1, <1>2, <1>3 DEF Paced, PacedDown
<1>5. 1 .. 1 - 1 = {}
  OBVIOUS
<1> QED
  BY <1>4, <1>5 DEF RightAnswer, FileCodes, NoFile

\* A script that gives up has been refused or overtaken.
LEMMA GivesUp ==
  ASSUME DataInv, DataInv', ScriptInv, PacedInv, CountInv, Reads, Returns,
         result' = "1"
  PROVE  GivesUpOnlyForAReason'
PROOF
<1>1. /\ Len(down) \in Nat /\ Len(down) > 0 /\ Len(down') = Len(down) - 1
      /\ \A i \in 1 .. Len(down') : down'[i] = down[i + 1]
      /\ UNCHANGED <<made, sessionKey>> /\ form # "Closed"
  BY ReadTakes
  DEF serverVars, Returns, Reads, LogIn, RequestFirst, ReadFile, ReadData,
      ReadAsData, RequestNext
<1>2. Unread' = {i \in DOMAIN down' : IsUpdate(i)'}
  BY DEF Unread
<1>3. CASE ~ made[Len(made)].good
  BY <1>1, <1>3 DEF GivesUpOnlyForAReason
<1>4. CASE form = "AwaitFile" /\ IsUpdate(1)
  <2>1. /\ Cardinality(Unread) \in Nat /\ Cardinality(Unread') \in Nat
        /\ sessionKey \in Nat /\ Len(made) \in Nat
    BY UnreadIsFinite, Lengths DEF DataInv, DataOK, Key
  <2>2. Cardinality(Unread') <= Cardinality(Unread) - 1
    BY <1>1, <1>4, UnreadTaken
  <2>3. Cardinality(Unread) + (Len(made) - 2) <= sessionKey
    BY <1>4 DEF CountInv, KeysNeeded
  <2>4. Len(made) \in 3 .. RequestsCount + 2
    BY <1>4 DEF ScriptInv
  <2>5. Len(made) - 2 # 0
    <3>1. RequestsCount \in Nat
      BY ScriptAssumption DEF ScriptAssumption
    <3>2. \A r \in 3 .. RequestsCount + 2 : r - 2 # 0
      BY <3>1
    <3> QED
      BY <2>4, <3>2, Zenon
  <2>6. sessionKey - Cardinality(Unread') > Len(made) - 2
    BY <2>1, <2>2, <2>3
  <2> QED
    BY <1>1, <1>2, <2>5, <2>6 DEF GivesUpOnlyForAReason
<1>5. CASE form = "AwaitFile" /\ down[1].code = "STC_UNABLE_TO_SEND_FILE"
  <2>1. ~ made[Len(made)].good
    BY <1>1, <1>5, FileIsRight DEF FileCodes, NoFile
  <2> QED
    BY <1>3, <2>1
<1>6. CASE form = "AwaitAuth" /\ down[1].code # "STC_AUTH_SUCCESSFUL"
  <2>1. Paced /\ Len(down) # 0
    BY <1>1, <1>6 DEF PacedInv, Overtaken
  <2>2. LoginAnswered
    BY <1>6, <2>1 DEF Paced, PacedDown
  <2> QED
    BY <1>3, <1>6, <2>2 DEF LoginAnswered
<1>7. CASE form \in {"AwaitKey", "AwaitUpdate"} /\ ~ IsUpdate(1)
  <2>1. OnlyUpdates
    BY <1>7 DEF PacedInv, Overtaken, Paced, PacedDown
  <2>2. 1 \in 1 .. Len(down)
    BY <1>1
  <2> QED
    BY <1>7, <2>1, <2>2 DEF OnlyUpdates
<1> QED
  BY <1>4, <1>5, <1>6, <1>7 DEF Returns

\* A script that ends well has had all its files.
LEMMA EndsWell ==
  ASSUME DataInv, ScriptInv, PacedInv, EndInv, Reads, Returns, result' = "0"
  PROVE  FilesWereThere' /\ Len(made') = RequestsCount + 2
PROOF
<1>1. /\ form = "AwaitFile" /\ down[1].code = "STC_FILE" /\ ~ AwaitsUpdate
      /\ UNCHANGED made /\ Len(down) > 0
  BY ReadTakes DEF Returns
<1>2. Len(made) \in Nat /\ RequestsCount \in Nat
  BY Lengths, ScriptAssumption DEF DataInv, ScriptAssumption
<1>3. Len(made) \in 3 .. RequestsCount + 2
  BY <1>1 DEF ScriptInv
<1>4. ~ (Len(made) - 2 < RequestsCount)
  BY <1>1 DEF AwaitsUpdate
<1>5. Len(made') = RequestsCount + 2
  BY <1>1, <1>2, <1>3, <1>4
<1>6. made[Len(made)].good
  BY <1>1, FileIsRight DEF FileCodes
<1>7. FilesWereThere'
  BY <1>1, <1>6 DEF EndInv, FilesWereThere
<1> QED
  BY <1>5, <1>7

\* A request is for a file that may not be there.
LEMMA EndAsks ==
  ASSUME DataInv, ScriptInv, EndInv, Reads,
         NEW request \in Request, Asks(request)
  PROVE  EndInv'
PROOF
<1>1. /\ Len(made') = Len(made) + 1 /\ Len(made) \in Nat
      /\ \A i \in 1 .. Len(made) : made'[i] = made[i]
  BY AskedTypes, Lengths DEF DataInv
<1>2. /\ form \in {"AwaitKey", "AwaitAuth", "AwaitUpdate"}
      /\ result = "" /\ result' = ""
      /\ form = "AwaitKey" \/ form' = "AwaitFile"
  BY DEF Asks, ScriptInv
<1>3. FilesWereThere'
  <2> SUFFICES ASSUME NEW i \in 3 .. Len(made')
               PROVE  made'[i].good \/ (form' = "AwaitFile" /\ i = Len(made'))
    BY DEF FilesWereThere
  <2>1. CASE i \in 3 .. Len(made)
    <3>1. made'[i] = made[i]
      BY <1>1, <2>1
    <3> QED
      BY <1>2, <2>1, <3>1 DEF EndInv, FilesWereThere
  <2>2. CASE i = Len(made')
    <3>1. form # "AwaitKey"
      <4> SUFFICES ASSUME form = "AwaitKey" PROVE FALSE
        OBVIOUS
      <4>1. Len(made) = 1
        BY DEF ScriptInv
      <4>2. Len(made') = 2
        BY <1>1, <4>1
      <4> QED
        BY <4>2
    <3> QED
      BY <1>2, <2>2, <3>1
  <2> QED
    BY <1>1, <2>1, <2>2
<1> QED
  BY <1>2, <1>3 DEF EndInv, GivesUpOnlyForAReason

\* After the end of the script the session may go on: the updates it sends are
\* keys it has counted.
LEMMA EndTold ==
  ASSUME DataInv, DataInv', EndInv, SessionActs,
         UNCHANGED <<form, clientKey, made, result>>
  PROVE  EndInv'
PROOF
<1>1. FilesWereThere' /\ (result' = "0" => Len(made') = RequestsCount + 2)
  BY DEF EndInv, FilesWereThere
<1>2. GivesUpOnlyForAReason'
  <2> DEFINE needed == IF Len(made) - 2 = 0 THEN 1 ELSE Len(made) - 2
  <2>1. /\ Unread = {i \in DOMAIN down : IsUpdate(i)}
        /\ Unread' = {i \in DOMAIN down' : IsUpdate(i)'}
    BY DEF Unread
  <2>2. CASE result = "1" /\ sessionKey - Cardinality(Unread) > needed
    <3>1. /\ Cardinality(Unread) \in Nat /\ Cardinality(Unread') \in Nat
          /\ sessionKey \in Nat /\ sessionKey' \in Nat
          /\ Cardinality(Unread') - Cardinality(Unread)
             <= sessionKey' - sessionKey
      BY CountTold
    <3>2. Len(made) \in Nat /\ needed \in Int
      BY Lengths DEF DataInv
    <3>3. sessionKey - Cardinality(Unread) > needed
      BY <2>2
    <3> HIDE DEF needed
    <3>4. sessionKey' - Cardinality(Unread') > needed
      BY <3>1, <3>2, <3>3
    <3> QED
      BY <2>1, <3>4 DEF GivesUpOnlyForAReason, needed
  <2>3. result = "1" => \/ ~ made[Len(made)].good
                        \/ sessionKey - Cardinality(Unread) > needed
    BY <2>1 DEF EndInv, GivesUpOnlyForAReason
  <2> QED
    BY <2>2, <2>3 DEF GivesUpOnlyForAReason
<1> QED
  BY <1>1, <1>2 DEF EndInv

\* Every step keeps what main returns true.
LEMMA EndNext ==
  ASSUME DataInv, DataInv', ScriptInv, PacedInv, CountInv, EndInv,
         [DummyNext]_dummyVars
  PROVE  EndInv'
PROOF
<1>1. CASE ConnectToServer /\ UNCHANGED result
  <2>1. PICK request \in Request : Send(request) /\ form = "ServerChooser"
    BY <1>1, BoundsAssumption, CallsAreRequests DEF DataInv, ConnectToServer
  <2>2. Len(made) = 0 /\ result = ""
    BY <2>1 DEF ScriptInv
  <2>3. Len(made') = Len(made) + 1
    BY <2>1, BoundsAssumption, PutParts DEF DataInv, Send
  <2>4. Len(made') = 1
    <3>1. Len(made) = 0
      BY <2>2
    <3> QED
      BY <2>3, <3>1
  <2>5. 3 .. Len(made') = {}
    BY <2>4
  <2> QED
    BY <1>1, <2>2, <2>5 DEF EndInv, FilesWereThere, GivesUpOnlyForAReason
<1>2. CASE Reads
  <2>1. CASE GoesOn
    <3>1. made[Len(made)].good
      BY <1>2, <2>1, PacedGoesOn
    <3>2. form = "AwaitFile" /\ UNCHANGED <<made, result>>
      BY <2>1 DEF GoesOn
    <3>3. result = ""
      BY <3>2 DEF ScriptInv
    <3> QED
      BY <3>1, <3>2, <3>3 DEF EndInv, FilesWereThere, GivesUpOnlyForAReason
  <2>2. CASE Returns
    <3>1. CASE result' = "1"
      <4>1. FilesWereThere'
        BY <2>2, <3>1 DEF Returns, FilesWereThere
      <4> QED
        BY <1>2, <2>2, <3>1, <4>1, GivesUp DEF EndInv
    <3>2. CASE result' = "0"
      BY <1>2, <2>2, <3>2, EndsWell DEF EndInv, GivesUpOnlyForAReason
    <3> QED
      BY <2>2, <3>1, <3>2 DEF Returns
  <2>3. CASE Waits
    <3>1. UNCHANGED <<made, result>> /\ form' = "AwaitData" /\ result = ""
      BY <2>3 DEF Waits, ScriptInv
    <3> QED
      BY <2>3, <3>1 DEF Waits, EndInv, FilesWereThere, GivesUpOnlyForAReason
  <2> QED
    BY <1>2, <2>1, <2>2, <2>3, ReadKinds, EndAsks
<1>3. CASE Throws \/ ConnectionLost
  <2>1. CASE form' = "Closed" /\ result' = "exception"
    BY <2>1 DEF EndInv, FilesWereThere, GivesUpOnlyForAReason
  <2>2. CASE form # "Closed" /\ UNCHANGED <<form, made, result>>
    BY <2>2 DEF ScriptInv, EndInv, FilesWereThere, GivesUpOnlyForAReason
  <2> QED
    BY <1>3, <2>1, <2>2, EndKinds
<1>4. CASE UNCHANGED dummyVars
  BY <1>4
  DEF dummyVars, vars, serverVars, clientVars, EndInv, FilesWereThere,
      GivesUpOnlyForAReason, IsUpdate
<1> QED
  BY <1>1, <1>2, <1>3, <1>4, DummySteps, EndTold

\* Nothing has been returned at first.
LEMMA EndInit == DummyInit => EndInv
PROOF
<1> SUFFICES ASSUME DummyInit PROVE EndInv
  OBVIOUS
<1>1. Len(made) = 0
  BY EmptySeq DEF DummyInit, Init
<1>2. 3 .. Len(made) = {}
  BY <1>1
<1>3. result = ""
  BY DEF DummyInit
<1> QED
  BY <1>2, <1>3 DEF EndInv, FilesWereThere, GivesUpOnlyForAReason

-----------------------------------------------------------------------------
(* The results.                                                            *)

DummyInv ==
  /\ DataInv /\ ScriptInv
  /\ ScriptKeysInv /\ PacedInv /\ CountInv /\ EndInv

\* Everything above, of every behaviour of the script and its session.
LEMMA DummyInvariance == DummySpec => []DummyInv
PROOF
<1>1. DummyInit => DummyInv
  BY DummyTypeInit, ScriptKeysInit, PacedInit, CountInit, EndInit DEF DummyInv
<1>2. DummyInv /\ [DummyNext]_dummyVars => DummyInv'
  <2> SUFFICES ASSUME DummyInv, [DummyNext]_dummyVars PROVE DummyInv'
    OBVIOUS
  <2>1. DataInv' /\ ScriptInv'
    BY DummyTypeNext DEF DummyInv
  <2>2. ScriptKeysInv' /\ PacedInv'
    BY <2>1, ScriptKeysNext, PacedNext DEF DummyInv
  <2>3. CountInv' /\ EndInv'
    BY <2>1, CountNext, EndNext DEF DummyInv
  <2> QED
    BY <2>1, <2>2, <2>3 DEF DummyInv
<1> QED
  BY <1>1, <1>2, PTL DEF DummySpec

\* As long as the script runs, the two sides agree on the key whenever no
\* update is on its way.
THEOREM ScriptKeysCorrect == DummySpec => []ScriptKeysAgree
PROOF
<1>1. DummyInv => ScriptKeysAgree
  BY DEF DummyInv, ScriptKeysInv
<1> QED
  BY <1>1, DummyInvariance, PTL

\* The script gives up only when it is refused or overtaken by the timer.
THEOREM ReasonCorrect == DummySpec => []GivesUpOnlyForAReason
PROOF
<1>1. DummyInv => GivesUpOnlyForAReason
  BY DEF DummyInv, EndInv
<1> QED
  BY <1>1, DummyInvariance, PTL

\* A script that returns 0 has had all its files, each with a newer key.
THEOREM SuccessCorrect == DummySpec => []SuccessIsComplete
PROOF
<1>1. DummyInv => SuccessIsComplete
  <2> SUFFICES ASSUME DummyInv, result = "0" PROVE SuccessIsComplete
    BY DEF SuccessIsComplete
  <2>1. Len(made) = RequestsCount + 2 /\ form = "Closed"
    BY DEF DummyInv, EndInv, ScriptInv
  <2>2. \A i \in 3 .. Len(made) : made[i].good
    BY <2>1 DEF DummyInv, EndInv, FilesWereThere
  <2>3. ASSUME NEW i \in 3 .. Len(made), NEW j \in 3 .. Len(made), i < j
        PROVE  made[i].key < made[j].key
    <3>1. j \in i + 1 .. Len(made)
      BY <2>3, Lengths DEF DummyInv, DataInv
    <3> QED
      BY <3>1 DEF DummyInv, ScriptKeysInv, RequestsAreNewer
  <2> QED
    BY <2>1, <2>2, <2>3 DEF SuccessIsComplete
<1> QED
  BY <1>1, DummyInvariance, PTL
===============================================================================
