---------------------------- MODULE Exchange_proof ----------------------------
(***************************************************************************)
(* Proofs about one session and the Qt client, for every bound on the keys *)
(* the timer generates, on the requests of the client and on their length. *)
(***************************************************************************)
EXTENDS Exchange, SequenceTheorems, TLAPS

-----------------------------------------------------------------------------
(* What the steps do to the streams and to the buffer, part by part.       *)

\* The k-th part of a request.
PartAt(id, k) ==
  [part |-> IF k = 1 THEN "code" ELSE IF k = 2 THEN "rest" ELSE "block",
   id |-> id]

\* The first element of a sequence and what is left without it.
LEMMA FirstAndRest ==
  ASSUME NEW S, NEW s \in Seq(S), s # <<>>
  PROVE  /\ Len(s) \in Nat \ {0}
         /\ Head(s) = s[1] /\ s[1] \in S
         /\ Tail(s) \in Seq(S)
         /\ Len(Tail(s)) = Len(s) - 1
         /\ \A i \in 1 .. Len(s) - 1 : Tail(s)[i] = s[i + 1]
  BY EmptySeq, HeadTailProperties, ElementOfSeq

\* A sequence with an element appended.
LEMMA OneMore ==
  ASSUME NEW S, NEW s \in Seq(S), NEW e \in S
  PROVE  /\ Append(s, e) \in Seq(S)
         /\ Len(Append(s, e)) = Len(s) + 1
         /\ \A i \in 1 .. Len(s) : Append(s, e)[i] = s[i]
         /\ Append(s, e)[Len(s) + 1] = e
  BY LenProperties, AppendProperties

\* Sending a request appends its parts to the stream.
LEMMA PutParts ==
  ASSUME BoundsAssumption, DataOK, NEW request \in Request, Put(request),
         Len(made) < MaxRequests
  PROVE  LET id == Len(made) + 1 IN
         /\ id \in 1 .. MaxRequests
         /\ made' \in Seq(Request) /\ Len(made') = id
         /\ made'[id] = request
         /\ \A i \in 1 .. Len(made) : made'[i] = made[i]
         /\ up' \in Seq(Part) /\ Len(up') = Len(up) + 2 + request.blocks
         /\ \A i \in 1 .. Len(up) : up'[i] = up[i]
         /\ \A i \in Len(up) + 1 .. Len(up) + 2 + request.blocks :
              up'[i] = PartAt(id, i - Len(up))
PROOF
<1> DEFINE id == Len(made) + 1
           n == request.blocks
           s == <<[part |-> "code", id |-> id], [part |-> "rest", id |-> id]>>
           b == [i \in 1 .. n |-> [part |-> "block", id |-> id]]
<1>1. /\ id \in 1 .. MaxRequests /\ n \in Nat
      /\ Len(up) \in Nat
  BY LenProperties DEF DataOK, BoundsAssumption, Request
<1>2. /\ made' \in Seq(Request) /\ Len(made') = id
      /\ made'[id] = request
      /\ \A i \in 1 .. Len(made) : made'[i] = made[i]
  BY OneMore DEF DataOK, Put
<1>3. \A k \in 1 .. 3 : PartAt(id, k) \in Part
  BY <1>1 DEF Part, PartAt
<1>4. s \in Seq(Part) /\ Len(s) = 2 /\ s[1] = PartAt(id, 1)
      /\ s[2] = PartAt(id, 2)
  BY <1>3 DEF PartAt
<1>5. b \in Seq(Part) /\ Len(b) = n
  <2>1. [part |-> "block", id |-> id] \in Part
    BY <1>1 DEF Part
  <2> QED
    BY <2>1, <1>1
<1>6. up \in Seq(Part) /\ up' = (up \o s) \o b
  BY DEF DataOK, Put
<1> HIDE DEF s
<1> DEFINE us == up \o s
<1>7. /\ us \in Seq(Part) /\ Len(us) = Len(up) + 2
      /\ \A i \in 1 .. Len(up) + 2 :
           us[i] = IF i <= Len(up) THEN up[i] ELSE s[i - Len(up)]
  <2>1. /\ us \in Seq(Part) /\ Len(us) = Len(up) + Len(s)
        /\ \A i \in 1 .. Len(up) + Len(s) :
             us[i] = IF i <= Len(up) THEN up[i] ELSE s[i - Len(up)]
    BY <1>4, <1>6, ConcatProperties, Zenon
  <2> QED
    BY <2>1, <1>4, Zenon
<1> HIDE DEF us
<1>8. /\ up' \in Seq(Part) /\ Len(up') = Len(up) + 2 + n
      /\ \A i \in 1 .. Len(up) + 2 + n : up'[i] =
           IF i <= Len(up) + 2 THEN us[i] ELSE b[i - (Len(up) + 2)]
  <2>1. up' = us \o b
    BY <1>6 DEF us
  <2> HIDE DEF b
  <2>2. /\ us \o b \in Seq(Part) /\ Len(us \o b) = Len(us) + Len(b)
        /\ \A i \in 1 .. Len(us) + Len(b) :
             (us \o b)[i] = IF i <= Len(us) THEN us[i] ELSE b[i - Len(us)]
    BY <1>5, <1>7, ConcatProperties, Zenon
  <2> QED
    BY <2>1, <2>2, <1>5, <1>7, Zenon
<1>9. \A i \in 1 .. Len(up) : up'[i] = up[i]
  BY <1>1, <1>7, <1>8
<1>10. \A i \in Len(up) + 1 .. Len(up) + 2 + n :
         up'[i] = PartAt(id, i - Len(up))
  <2> SUFFICES ASSUME NEW i \in Len(up) + 1 .. Len(up) + 2 + n
               PROVE  up'[i] = PartAt(id, i - Len(up))
    OBVIOUS
  <2>1. CASE i = Len(up) + 1
    BY <2>1, <1>1, <1>4, <1>7, <1>8
  <2>2. CASE i = Len(up) + 2
    BY <2>2, <1>1, <1>4, <1>7, <1>8
  <2>3. CASE i > Len(up) + 2
    <3>1. i - (Len(up) + 2) \in 1 .. n
      BY <2>3, <1>1
    <3>2. up'[i] = b[i - (Len(up) + 2)]
      BY <2>3, <1>1, <1>8
    <3> QED
      BY <2>3, <3>1, <3>2, <1>1 DEF PartAt
  <2> QED
    BY <2>1, <2>2, <2>3, <1>1
<1> QED
  BY <1>1, <1>2, <1>8, <1>9, <1>10

\* The client takes one message off its stream.
LEMMA ReceivedParts ==
  ASSUME DataOK, down # <<>>, down' = Tail(down)
  PROVE  /\ down' \in Seq(Answer) /\ Len(down) \in Nat \ {0}
         /\ Len(down') = Len(down) - 1
         /\ Head(down) = down[1] /\ down[1] \in Answer
         /\ \A i \in 1 .. Len(down') : down'[i] = down[i + 1]
  BY FirstAndRest DEF DataOK

\* The session takes one part off its stream into the buffer.
LEMMA ArrivedParts ==
  ASSUME DataOK, ReceivePart
  PROVE  /\ up' \in Seq(Part) /\ Len(up) \in Nat \ {0}
         /\ Len(up') = Len(up) - 1
         /\ up[1] \in Part
         /\ \A i \in 1 .. Len(up') : up'[i] = up[i + 1]
         /\ buffer' \in Seq(Part) /\ Len(buffer') = Len(buffer) + 1
         /\ \A i \in 1 .. Len(buffer) : buffer'[i] = buffer[i]
         /\ buffer'[Len(buffer')] = up[1]
PROOF
<1>1. /\ up # <<>> /\ up' = Tail(up) /\ buffer' = Append(buffer, Head(up))
      /\ up \in Seq(Part) /\ buffer \in Seq(Part)
  BY DEF DataOK, ReceivePart
<1>2. /\ up' \in Seq(Part) /\ Len(up) \in Nat \ {0}
      /\ Len(up') = Len(up) - 1
      /\ Head(up) = up[1] /\ up[1] \in Part
      /\ \A i \in 1 .. Len(up') : up'[i] = up[i + 1]
  BY <1>1, FirstAndRest
<1>3. /\ buffer' \in Seq(Part) /\ Len(buffer') = Len(buffer) + 1
      /\ \A i \in 1 .. Len(buffer) : buffer'[i] = buffer[i]
      /\ buffer'[Len(buffer')] = up[1]
  BY <1>1, <1>2, OneMore
<1> QED
  BY <1>2, <1>3

\* A message is appended to the stream to the client.
LEMMA WrittenParts ==
  ASSUME DataOK, NEW answer \in Answer, down' = Append(down, answer)
  PROVE  /\ down' \in Seq(Answer) /\ Len(down) \in Nat
         /\ Len(down') = Len(down) + 1
         /\ \A i \in 1 .. Len(down) : down'[i] = down[i]
         /\ down'[Len(down')] = answer
  BY OneMore, LenProperties DEF DataOK

\* The body of a request is taken off the stream.
LEMMA TakenParts ==
  ASSUME BoundsAssumption, DataOK, BodyArrived, TakeBody
  PROVE  /\ buffer' = <<>> /\ expect' = 0
         /\ up' \in Seq(Part) /\ Len(up) \in Nat /\ expect \in Nat
         /\ Len(up') = Len(up) - expect
         /\ \A i \in 1 .. Len(up') : up'[i] = up[i + expect]
PROOF
<1>1. /\ buffer' = <<>> /\ expect' = 0
      /\ Len(up) \in Nat /\ expect \in Nat /\ expect <= Len(up)
      /\ up' = SubSeq(up, expect + 1, Len(up))
      /\ up \in Seq(Part)
  BY LenProperties DEF DataOK, BodyArrived, TakeBody, BoundsAssumption
<1>2. \A i \in expect + 1 .. Len(up) : up[i] \in Part
  BY <1>1, ElementOfSeq
<1>3. /\ up' \in Seq(Part)
      /\ Len(up') = IF expect + 1 <= Len(up) THEN Len(up) - (expect + 1) + 1
                                              ELSE 0
      /\ \A i \in 1 .. Len(up) - (expect + 1) + 1 :
           up'[i] = up[(expect + 1) + i - 1]
  BY <1>1, <1>2, SubSeqProperties
<1>4. Len(up') = Len(up) - expect
  BY <1>1, <1>3
<1>5. \A i \in 1 .. Len(up') : up'[i] = up[i + expect]
  BY <1>1, <1>3, <1>4
<1> QED
  BY <1>1, <1>3, <1>4, <1>5

-----------------------------------------------------------------------------
(* Types. A part names the request it was cut from, and a request is being *)
(* served only when its whole input is in the buffer: without the two, the *)
(* requests that the handlers look up might not exist.                     *)

Known(part) == part.part # "update" => part.id \in 1 .. Len(made)

PartsAreKnown ==
  /\ \A i \in 1 .. Len(buffer) : Known(buffer[i])
  /\ \A i \in 1 .. Len(up) : Known(up[i])

InputIsWhole ==
  state \in {"ValidatingAuth", "SendingFile"} => Len(buffer) = InputSize

DataInv == DataOK /\ PartsAreKnown /\ InputIsWhole

TypeInv == DataInv /\ form \in Forms

States == Waiting \cup {"ValidatingAuth", "SendingFile", "Closed"}

\* A call of the client: types of a step that sends a request.
LEMMA PutTypes ==
  ASSUME BoundsAssumption, DataInv, NEW request \in Request, Put(request),
         Len(made) < MaxRequests, clientKey' \in Key, down' \in Seq(Answer),
         UNCHANGED <<overwritten, serverVars>>
  PROVE  DataInv'
PROOF
<1>1. DataOK /\ PartsAreKnown /\ InputIsWhole
  BY DEF DataInv
<1>2. UNCHANGED <<state, buffer, expect, sessionKey, overwritten>>
  BY DEF serverVars
<1>3. LET id == Len(made) + 1 IN
      /\ id \in 1 .. MaxRequests
      /\ made' \in Seq(Request) /\ Len(made') = id
      /\ up' \in Seq(Part) /\ Len(up') = Len(up) + 2 + request.blocks
      /\ \A i \in 1 .. Len(up) : up'[i] = up[i]
      /\ \A i \in Len(up) + 1 .. Len(up) + 2 + request.blocks :
           up'[i] = PartAt(id, i - Len(up))
  BY <1>1, PutParts
<1>4. DataOK'
  BY <1>1, <1>2, <1>3 DEF DataOK, BoundsAssumption
<1>5. PartsAreKnown'
  <2>1. \A i \in 1 .. Len(buffer) : Known(buffer[i])'
    BY <1>1, <1>2, <1>3 DEF PartsAreKnown, Known
  <2>2. \A i \in 1 .. Len(up') : Known(up[i])'
    <3>1. request.blocks \in Nat /\ Len(up) \in Nat /\ Len(made) \in Nat
      BY <1>1, LenProperties DEF DataOK, Request, BoundsAssumption
    <3> SUFFICES ASSUME NEW i \in 1 .. Len(up') PROVE Known(up[i])'
      OBVIOUS
    <3>2. CASE i <= Len(up)
      BY <1>1, <1>3, <3>1, <3>2 DEF PartsAreKnown, Known
    <3>3. CASE i > Len(up)
      <4>1. i \in Len(up) + 1 .. Len(up) + 2 + request.blocks
        BY <1>3, <3>1, <3>3
      <4>2. up'[i] = PartAt(Len(made) + 1, i - Len(up))
        BY <1>3, <4>1
      <4>3. up'[i].id = Len(made')
        BY <1>3, <4>2 DEF PartAt
      <4> QED
        BY <1>3, <3>1, <4>3 DEF Known
    <3> QED
      BY <3>1, <3>2, <3>3
  <2> QED
    BY <1>2, <2>1, <2>2 DEF PartsAreKnown
<1>6. InputIsWhole'
  BY <1>1, <1>2 DEF InputIsWhole
<1> QED
  BY <1>4, <1>5, <1>6 DEF DataInv

\* The requests the client can send.
LEMMA CallsAreRequests ==
  ASSUME BoundsAssumption, DataOK, ConnectToServer \/ Authenticate \/ LoadFile
  PROVE  \E request \in Request :
           /\ Send(request)
           /\ \/ /\ form = "ServerChooser" /\ form' = "AwaitKey"
                 /\ request.code = "CTS_RSA_KEY" /\ request.blocks = 0
              \/ /\ form = "LoginForm" /\ form' = "AwaitAuth"
                 /\ request.code = "CTS_AUTH_REQUEST"
                 /\ request.key = clientKey
              \/ /\ form = "FileChooser" /\ form' = "AwaitFile"
                 /\ request.code = "CTS_FILE_REQUEST"
                 /\ request.key = clientKey
PROOF
<1>1. CASE ConnectToServer
  <2> DEFINE r == [code |-> "CTS_RSA_KEY", key |-> 0, blocks |-> 0,
                   good |-> TRUE]
  <2>1. r \in Request
    BY DEF Request, Key, BoundsAssumption
  <2> QED
    BY <1>1, <2>1 DEF ConnectToServer
<1>2. CASE Authenticate
  <2>1. PICK blocks \in 0 .. MaxBlocks, good \in BOOLEAN :
          Send([code |-> "CTS_AUTH_REQUEST", key |-> clientKey,
                blocks |-> blocks, good |-> good])
    BY <1>2 DEF Authenticate
  <2> DEFINE r == [code |-> "CTS_AUTH_REQUEST", key |-> clientKey,
                   blocks |-> blocks, good |-> good]
  <2>2. r \in Request
    BY DEF Request, BoundsAssumption, DataOK
  <2> QED
    BY <1>2, <2>1, <2>2 DEF Authenticate
<1>3. CASE LoadFile
  <2>1. PICK blocks \in 0 .. MaxBlocks, good \in BOOLEAN :
          /\ good => blocks > 0
          /\ Send([code |-> "CTS_FILE_REQUEST", key |-> clientKey,
                   blocks |-> blocks, good |-> good])
    BY <1>3 DEF LoadFile
  <2> DEFINE r == [code |-> "CTS_FILE_REQUEST", key |-> clientKey,
                   blocks |-> blocks, good |-> good]
  <2>2. r \in Request
    BY <2>1 DEF Request, BoundsAssumption, DataOK
  <2> QED
    BY <1>3, <2>1, <2>2 DEF LoadFile
<1> QED
  BY <1>1, <1>2, <1>3

\* A read of the client: types of a step that takes a message off the stream.
LEMMA ReceiveTypes ==
  ASSUME DataInv, Receives, clientKey' \in Key
  PROVE  DataInv'
PROOF
<1>1. DataOK /\ PartsAreKnown /\ InputIsWhole
  BY DEF DataInv
<1>2. UNCHANGED <<state, buffer, expect, sessionKey, made, up, overwritten>>
  BY DEF Receives, serverVars
<1>3. down' \in Seq(Answer)
  BY <1>1, ReceivedParts DEF Receives
<1>4. DataOK'
  BY <1>1, <1>2, <1>3 DEF DataOK
<1> QED
  BY <1>1, <1>2, <1>4 DEF DataInv, PartsAreKnown, Known, InputIsWhole

\* A write of the session.
LEMMA WriteTypes ==
  ASSUME DataOK, NEW answer \in Answer, NEW next \in States,
         Write(answer, next)
  PROVE  down' \in Seq(Answer) /\ state' \in States
  BY WrittenParts DEF Write, States, DataOK

\* A new key, and with it the message that carries it.
LEMMA UpdateTypes ==
  ASSUME BoundsAssumption, DataOK, NEW next \in States, UpdateKey(next)
  PROVE  /\ sessionKey' \in Key
         /\ down' \in Seq(Answer) /\ state' \in States
PROOF
<1> DEFINE answer == [code |-> "STC_SESSION_KEY", key |-> sessionKey + 1,
                      id |-> 0]
<1>1. sessionKey' = sessionKey + 1 /\ sessionKey + 1 \in Key
  BY DEF UpdateKey, DataOK, Key
<1>2. answer \in Answer
  BY <1>1 DEF Answer, Code, BoundsAssumption
<1>3. Write(answer, next)
  BY <1>1 DEF UpdateKey
<1> HIDE DEF answer
<1> QED
  BY <1>1, <1>2, <1>3, WriteTypes

\* The types hold initially.
LEMMA TypeInit == BoundsAssumption /\ Init => TypeInv
PROOF
<1> SUFFICES ASSUME BoundsAssumption, Init PROVE TypeInv
  OBVIOUS
<1>1. /\ Len(<<>>) = 0 /\ <<>> \in Seq(Part) /\ <<>> \in Seq(Request)
      /\ <<>> \in Seq(Answer)
  BY EmptySeq
<1>2. DataOK /\ form \in Forms
  <2>1. buffer \in Seq(Part) /\ up \in Seq(Part) /\ made \in Seq(Request)
        /\ down \in Seq(Answer) /\ Len(buffer) = 0 /\ Len(made) = 0
    BY <1>1 DEF Init
  <2>2. state \in Waiting /\ form = "ServerChooser" /\ sessionKey \in Key
        /\ clientKey \in Key /\ expect = 0 /\ overwritten \in BOOLEAN
    BY DEF Init, Waiting, Key
  <2> QED
    BY <2>1, <2>2 DEF DataOK, BoundsAssumption, InputSize, Forms
<1>3. PartsAreKnown /\ InputIsWhole
  BY <1>1 DEF Init, PartsAreKnown, InputIsWhole
<1> QED
  BY <1>2, <1>3 DEF DataInv, TypeInv

\* The session, reading: one part moves from the stream into the buffer.
LEMMA ArriveTypes ==
  ASSUME DataInv, ReceivePart
  PROVE  DataInv'
PROOF
<1>1. DataOK /\ PartsAreKnown /\ InputIsWhole
  BY DEF DataInv
<1>2. /\ UNCHANGED <<state, expect, sessionKey, form, clientKey, made, down,
                     overwritten>>
      /\ state \in Waiting /\ Len(buffer) < InputSize
  BY DEF ReceivePart, clientVars
<1>3. /\ up' \in Seq(Part) /\ Len(up) \in Nat \ {0}
      /\ Len(up') = Len(up) - 1
      /\ \A i \in 1 .. Len(up') : up'[i] = up[i + 1]
      /\ buffer' \in Seq(Part) /\ Len(buffer') = Len(buffer) + 1
      /\ \A i \in 1 .. Len(buffer) : buffer'[i] = buffer[i]
      /\ buffer'[Len(buffer')] = up[1]
  BY <1>1, ArrivedParts
<1>4. Len(buffer) \in Nat
  BY <1>1, LenProperties DEF DataOK
<1>5. DataOK'
  BY <1>1, <1>2, <1>3, <1>4 DEF DataOK, InputSize
<1>6. PartsAreKnown'
  <2>1. \A i \in 1 .. Len(buffer') : Known(buffer[i])'
    BY <1>1, <1>2, <1>3, <1>4 DEF PartsAreKnown, Known
  <2>2. \A i \in 1 .. Len(up') : Known(up[i])'
    BY <1>1, <1>2, <1>3 DEF PartsAreKnown, Known
  <2> QED
    BY <2>1, <2>2 DEF PartsAreKnown
<1>7. InputIsWhole'
  BY <1>2 DEF InputIsWhole, Waiting
<1> QED
  BY <1>5, <1>6, <1>7 DEF DataInv

\* The sizes read from a complete input are those of a request, or as large
\* as any other block may make them.
LEMMA SizesAreBounded ==
  ASSUME BoundsAssumption, DataInv, Len(buffer) = InputSize
  PROVE  SizeOf(buffer[2]) \subseteq 0 .. MaxBlocks + 1
PROOF
<1>1. DataOK /\ PartsAreKnown
  BY DEF DataInv
<1>2. 2 \in 1 .. Len(buffer)
  BY DEF InputSize
<1>3. CASE buffer[2].part = "rest"
  <2>1. buffer[2].id \in 1 .. Len(made)
    BY <1>1, <1>2, <1>3 DEF PartsAreKnown, Known
  <2>2. made[buffer[2].id] \in Request
    BY <1>1, <2>1, ElementOfSeq DEF DataOK
  <2>3. made[buffer[2].id].blocks \in 0 .. MaxBlocks
    BY <2>2 DEF Request
  <2> QED
    BY <1>3, <2>3 DEF SizeOf, BoundsAssumption
<1>4. CASE buffer[2].part # "rest"
  BY <1>4 DEF SizeOf, BoundsAssumption
<1> QED
  BY <1>3, <1>4

\* The session, with a complete input.
LEMMA ConsumeTypes ==
  ASSUME BoundsAssumption, DataInv, Consume
  PROVE  DataInv'
PROOF
<1>1. DataOK /\ PartsAreKnown /\ InputIsWhole
  BY DEF DataInv
<1>2. /\ UNCHANGED <<form, clientKey, made, up, overwritten>>
      /\ state \in Waiting /\ Len(buffer) = InputSize
  BY DEF Consume, clientVars
<1>3. PICK code \in CodeOf(buffer[1]) :
       \/ /\ \/ state = "Initial" /\ code = "CTS_RSA_KEY"
                /\ UpdateKey("WaitingForAuth")
             \/ state = "WaitingForQueries" /\ code = "STC_SESSION_KEY"
                /\ UpdateKey("WaitingForQueries")
          /\ buffer' = <<>>
          /\ UNCHANGED expect
       \/ /\ \/ state = "WaitingForAuth" /\ code = "CTS_AUTH_REQUEST"
                /\ state' = "ValidatingAuth"
             \/ state = "WaitingForQueries" /\ code = "CTS_FILE_REQUEST"
                /\ state' = "SendingFile"
          /\ expect' \in SizeOf(buffer[2])
          /\ UNCHANGED <<buffer, sessionKey, down>>
       \/ /\ state' = "Closed"
          /\ UNCHANGED <<buffer, expect, sessionKey, down>>
  BY DEF Consume
<1>4. CASE /\ buffer' = <<>> /\ UNCHANGED expect
           /\ \E next \in {"WaitingForAuth", "WaitingForQueries"} :
                UpdateKey(next)
  <2>1. PICK next \in {"WaitingForAuth", "WaitingForQueries"} : UpdateKey(next)
    BY <1>4
  <2>2. /\ sessionKey' \in Key
        /\ down' \in Seq(Answer) /\ state' \in {next, "Closed"}
    BY <1>1, <2>1, UpdateTypes DEF States, Waiting, UpdateKey, Write
  <2>3. buffer' \in Seq(Part) /\ Len(buffer') = 0
    BY <1>4, EmptySeq
  <2>4. DataOK'
    BY <1>1, <1>2, <1>4, <2>2, <2>3 DEF DataOK, Waiting, InputSize
  <2>5. PartsAreKnown'
    BY <1>1, <1>2, <2>3 DEF PartsAreKnown, Known
  <2> QED
    BY <2>2, <2>4, <2>5 DEF DataInv, InputIsWhole
<1>5. CASE /\ state' \in {"ValidatingAuth", "SendingFile"}
           /\ expect' \in SizeOf(buffer[2])
           /\ UNCHANGED <<buffer, sessionKey, down>>
  <2>1. expect' \in 0 .. MaxBlocks + 1
    BY <1>2, <1>5, SizesAreBounded
  <2> QED
    BY <1>1, <1>2, <1>5, <2>1
    DEF DataInv, DataOK, PartsAreKnown, Known, InputIsWhole
<1>6. CASE /\ state' = "Closed"
           /\ UNCHANGED <<buffer, expect, sessionKey, down>>
  BY <1>1, <1>2, <1>6
  DEF DataInv, DataOK, PartsAreKnown, Known, InputIsWhole
<1> QED
  BY <1>3, <1>4, <1>5, <1>6

\* The session, having served a request.
LEMMA ServeTypes ==
  ASSUME BoundsAssumption, DataInv,
         UNCHANGED <<sessionKey, clientVars, overwritten>>,
         BodyArrived, TakeBody,
         NEW answer \in Answer, NEW next \in Waiting, Write(answer, next)
  PROVE  DataInv'
PROOF
<1>1. DataOK /\ PartsAreKnown /\ InputIsWhole
  BY DEF DataInv
<1>2. UNCHANGED <<sessionKey, form, clientKey, made, overwritten>>
  BY DEF clientVars
<1>3. /\ buffer' = <<>> /\ expect' = 0
      /\ up' \in Seq(Part) /\ Len(up) \in Nat /\ expect \in Nat
      /\ Len(up') = Len(up) - expect
      /\ \A i \in 1 .. Len(up') : up'[i] = up[i + expect]
  BY <1>1, TakenParts
<1>4. buffer' \in Seq(Part) /\ Len(buffer') = 0
  BY <1>3, EmptySeq
<1>5. down' \in Seq(Answer) /\ state' \in {next, "Closed"}
  BY <1>1, WriteTypes DEF Write, States
<1>6. DataOK'
  BY <1>1, <1>2, <1>3, <1>4, <1>5 DEF DataOK, InputSize, BoundsAssumption
<1>7. PartsAreKnown'
  <2>1. \A i \in 1 .. Len(up') : Known(up[i])'
    <3> SUFFICES ASSUME NEW i \in 1 .. Len(up') PROVE Known(up[i])'
      OBVIOUS
    <3>1. i + expect \in 1 .. Len(up) /\ up'[i] = up[i + expect]
      BY <1>3
    <3> QED
      BY <1>1, <1>2, <3>1 DEF PartsAreKnown, Known
  <2> QED
    BY <1>4, <2>1 DEF PartsAreKnown
<1>8. InputIsWhole'
  BY <1>5 DEF InputIsWhole, Waiting
<1> QED
  BY <1>6, <1>7, <1>8 DEF DataInv

\* The request that is being served.
LEMMA ServedIsKnown ==
  ASSUME DataInv, state \in {"ValidatingAuth", "SendingFile"}
  PROVE  /\ buffer[2] \in Part
         /\ Len(buffer) = 2
         /\ Legible => /\ buffer[2].id \in 1 .. Len(made)
                       /\ made[buffer[2].id] \in Request
PROOF
<1>1. DataOK /\ PartsAreKnown /\ Len(buffer) = 2 /\ 2 \in 1 .. Len(buffer)
  BY DEF DataInv, InputIsWhole, InputSize
<1>2. buffer[2] \in Part
  BY <1>1, ElementOfSeq DEF DataOK
<1>3. ASSUME Legible PROVE buffer[2].id \in 1 .. Len(made)
  BY <1>1, <1>3 DEF Legible, PartsAreKnown, Known
<1>4. ASSUME Legible PROVE made[buffer[2].id] \in Request
  BY <1>1, <1>3, <1>4, ElementOfSeq DEF DataOK
<1> QED
  BY <1>1, <1>2, <1>3, <1>4

\* What the two handlers that serve a request write.
LEMMA AuthServes ==
  ASSUME DataInv, ReadAndValidateAuth
  PROVE  \E answer \in Answer, next \in Waiting :
           /\ Write(answer, next)
           /\ answer.id = buffer[2].id
           /\ \/ answer.code = "STC_AUTH_SUCCESSFUL"
                 /\ next = "WaitingForQueries"
              \/ /\ answer.code = "STC_AUTH_FAILED"
                 /\ next = "WaitingForAuth"
                 /\ ~ (Legible /\ made[answer.id].good)
PROOF
<1>1. state = "ValidatingAuth" /\ buffer[2] \in Part
  BY ServedIsKnown DEF ReadAndValidateAuth
<1> DEFINE id == buffer[2].id
           yes == [code |-> "STC_AUTH_SUCCESSFUL", key |-> 0, id |-> id]
           no == [code |-> "STC_AUTH_FAILED", key |-> 0, id |-> id]
<1>2. yes \in Answer /\ no \in Answer
  BY <1>1 DEF Part, Answer, Code, Key
<1>3. \/ Write(yes, "WaitingForQueries")
      \/ ~ (Legible /\ made[id].good) /\ Write(no, "WaitingForAuth")
  BY DEF ReadAndValidateAuth
<1>4. CASE Write(yes, "WaitingForQueries")
  BY <1>2, <1>4 DEF Waiting
<1>5. CASE ~ (Legible /\ made[id].good) /\ Write(no, "WaitingForAuth")
  BY <1>2, <1>5 DEF Waiting
<1> QED
  BY <1>3, <1>4, <1>5

LEMMA FileServes ==
  ASSUME DataInv, TrySendFile
  PROVE  \E answer \in Answer :
           /\ Write(answer, "WaitingForQueries")
           /\ answer.id = buffer[2].id
           /\ \/ /\ answer.code = "STC_FILE" /\ answer.key = sessionKey
                 /\ Legible /\ made[answer.id].good
              \/ /\ answer.code \in NoFile
                 /\ ~ (expect > 0 /\ Legible /\ made[answer.id].good)
PROOF
<1>1. /\ state = "SendingFile" /\ buffer[2] \in Part
      /\ sessionKey \in Key /\ expect \in Nat
  BY ServedIsKnown, BoundsAssumption
  DEF TrySendFile, DataInv, DataOK, BoundsAssumption
<1> DEFINE id == buffer[2].id
           reply(code) == [code |-> code,
                           key |-> IF code = "STC_FILE" THEN sessionKey ELSE 0,
                           id |-> id]
<1>2. PICK code \in Resolve : Write(reply(code), "WaitingForQueries")
  BY DEF TrySendFile
<1>3. \/ /\ code = "STC_FILE" /\ Legible /\ made[id].good
      \/ /\ code \in NoFile /\ ~ (expect > 0 /\ Legible /\ made[id].good)
  BY <1>1, <1>2 DEF Resolve, NoFile
<1>4. reply(code) \in Answer
  BY <1>1, <1>3 DEF Part, Answer, Code, Key, NoFile
<1>5. /\ reply(code).id = id /\ reply(code).code = code
      /\ code = "STC_FILE" => reply(code).key = sessionKey
  OBVIOUS
<1> HIDE DEF reply
<1> QED
  BY <1>2, <1>3, <1>4, <1>5

\* The buffer after a key update: nothing is left of what was received.
LEMMA OverwrittenBuffer ==
  ASSUME DataOK,
         buffer' = [i \in DOMAIN buffer |-> [part |-> "update", id |-> 0]]
  PROVE  /\ buffer' \in Seq(Part) /\ Len(buffer') = Len(buffer)
         /\ \A i \in 1 .. Len(buffer) : buffer'[i].part = "update"
PROOF
<1>1. Len(buffer) \in Nat /\ DOMAIN buffer = 1 .. Len(buffer)
  BY LenProperties DEF DataOK
<1>2. [part |-> "update", id |-> 0] \in Part
  BY BoundsAssumption DEF Part, BoundsAssumption
<1>3. buffer' = [i \in 1 .. Len(buffer) |-> [part |-> "update", id |-> 0]]
  BY <1>1
<1> QED
  BY <1>1, <1>2, <1>3

\* The session, updating its key.
LEMMA TimerTypes ==
  ASSUME BoundsAssumption, DataInv, SessionKeyTimer
  PROVE  DataInv'
PROOF
<1>1. DataOK /\ PartsAreKnown /\ InputIsWhole
  BY DEF DataInv
<1>2. /\ UNCHANGED <<expect, form, clientKey, made, up>>
      /\ overwritten' \in BOOLEAN
      /\ UpdateKey("WaitingForQueries")
  BY <1>1 DEF SessionKeyTimer, clientVars, DataOK
<1>3. /\ buffer' \in Seq(Part) /\ Len(buffer') = Len(buffer)
      /\ \A i \in 1 .. Len(buffer) : buffer'[i].part = "update"
  BY <1>1, OverwrittenBuffer DEF SessionKeyTimer
<1>4. /\ sessionKey' \in Key
      /\ down' \in Seq(Answer)
      /\ state' \in {"WaitingForQueries", "Closed"}
  BY <1>1, <1>2, UpdateTypes DEF States, Waiting, UpdateKey, Write
<1>5. DataOK'
  BY <1>1, <1>2, <1>3, <1>4 DEF DataOK, Waiting
<1>6. PartsAreKnown'
  BY <1>1, <1>2, <1>3 DEF PartsAreKnown, Known
<1> QED
  BY <1>4, <1>5, <1>6 DEF DataInv, InputIsWhole

\* What the session does keeps the types.
LEMMA SessionTypes ==
  ASSUME BoundsAssumption, DataInv,
         \/ ReceivePart \/ Consume \/ ReadAndValidateAuth \/ TrySendFile
         \/ SessionKeyTimer \/ EndOfStream
  PROVE  DataInv'
PROOF
<1>1. CASE ReceivePart
  BY <1>1, ArriveTypes
<1>2. CASE Consume
  BY <1>2, ConsumeTypes
<1>3. CASE ReadAndValidateAuth
  <2>1. UNCHANGED <<sessionKey, clientVars, overwritten>>
        /\ BodyArrived /\ TakeBody
    BY <1>3 DEF ReadAndValidateAuth
  <2> QED
    BY <1>3, <2>1, AuthServes, ServeTypes
<1>4. CASE TrySendFile
  <2>1. UNCHANGED <<sessionKey, clientVars, overwritten>>
        /\ BodyArrived /\ TakeBody
    BY <1>4 DEF TrySendFile
  <2>2. "WaitingForQueries" \in Waiting
    BY DEF Waiting
  <2> QED
    BY <1>4, <2>1, <2>2, FileServes, ServeTypes
<1>5. CASE SessionKeyTimer
  BY <1>5, TimerTypes
<1>6. CASE EndOfStream
  BY <1>6
  DEF EndOfStream, DataInv, DataOK, PartsAreKnown, Known, InputIsWhole,
      clientVars
<1> QED
  BY <1>1, <1>2, <1>3, <1>4, <1>5, <1>6

\* Every step keeps the types.
LEMMA TypeNext ==
  ASSUME BoundsAssumption, TypeInv, [Next]_vars
  PROVE  TypeInv'
PROOF
<1>1. DataInv /\ DataOK /\ form \in Forms
  BY DEF DataInv, TypeInv
<1>2. form' \in Forms
  BY <1>1
  DEF Next, ConnectToServer, Authenticate, LoadFile, ReadFirstKey,
      ReadAuthAnswer, ReadFileAnswer, ReadAsData, ReadFails, Reset,
      ReceivePart, Consume, ReadAndValidateAuth, TrySendFile, SessionKeyTimer, EndOfStream, Forms,
      Awaiting, vars, clientVars
<1>3. CASE ConnectToServer \/ Authenticate \/ LoadFile
  <2>1. \E request \in Request : Send(request)
    BY <1>1, <1>3, CallsAreRequests
  <2>2. /\ \E request \in Request : Put(request)
        /\ Len(made) < MaxRequests
        /\ UNCHANGED <<clientKey, down, overwritten, serverVars>>
    BY <2>1 DEF Send
  <2>3. clientKey' \in Key /\ down' \in Seq(Answer)
    BY <1>1, <2>2 DEF DataOK
  <2>4. DataInv'
    BY <1>1, <2>2, <2>3, PutTypes
  <2> QED
    BY <1>2, <2>4 DEF TypeInv
<1>4. CASE ReadFirstKey \/ ReadAuthAnswer \/ ReadFileAnswer \/ ReadAsData
  <2>1. Receives /\ down # <<>>
    BY <1>4 DEF ReadFirstKey, ReadAuthAnswer, ReadFileAnswer, ReadAsData,
                Receives
  <2>2. Head(down).key \in Key
    BY <1>1, <2>1, ReceivedParts DEF Receives, Answer
  <2>3. clientKey' \in Key
    BY <1>1, <1>4, <2>2
    DEF ReadFirstKey, ReadAuthAnswer, ReadFileAnswer, ReadAsData, DataOK
  <2>4. DataInv'
    BY <1>1, <2>1, <2>3, ReceiveTypes
  <2> QED
    BY <1>2, <2>4 DEF TypeInv
<1>5. CASE ReadFails \/ Reset \/ UNCHANGED vars
  <2>1. UNCHANGED <<state, buffer, expect, sessionKey, clientKey, made, up,
                    down, overwritten>>
    BY <1>5 DEF ReadFails, Reset, vars, serverVars, clientVars
  <2>2. DataInv'
    BY <1>1, <2>1 DEF DataInv, DataOK, PartsAreKnown, Known, InputIsWhole
  <2> QED
    BY <1>2, <2>2 DEF TypeInv
<1>6. CASE \/ ReceivePart \/ Consume \/ ReadAndValidateAuth \/ TrySendFile
           \/ SessionKeyTimer \/ EndOfStream
  BY <1>1, <1>2, <1>6, SessionTypes DEF TypeInv
<1> QED
  BY <1>3, <1>4, <1>5, <1>6 DEF Next

\* The types, and what they rest on, hold for ever.
LEMMA TypeInvariance == Spec => []TypeInv
  BY TypeInit, TypeNext, BoundsAssumption, PTL DEF Spec

\* Every variable of the exchange keeps its type, whatever the bounds: no
\* handler looks up a request that was never made, and no input outgrows the
\* size its state waits for.
THEOREM TypeCorrect == Spec => []TypeOK
  BY TypeInvariance, PTL DEF TypeInv, DataInv, TypeOK

-----------------------------------------------------------------------------
(* Where the messages of a call are. Until a key update hits an input, each *)
(* form knows exactly how far its call has got, and nothing else is on the  *)
(* way; afterwards the two sides may be out of step, but never before the   *)
(* client is logged in.                                                     *)

Asked(code) == Len(made) > 0 /\ made[Len(made)].code = code

\* The last request, cut anywhere between the stream and the buffer.
Arriving ==
  /\ Len(buffer) + Len(up) = 2 + made[Len(made)].blocks
  /\ \A i \in 1 .. Len(buffer) : buffer[i] = PartAt(Len(made), i)
  /\ \A i \in 1 .. Len(up) : up[i] = PartAt(Len(made), Len(buffer) + i)

Served ==
  /\ Arriving
  /\ Len(buffer) = InputSize
  /\ expect = made[Len(made)].blocks

Quiet == Len(buffer) = 0 /\ Len(up) = 0

OnlyUpdates == \A i \in 1 .. Len(down) : IsUpdate(i)

FileCodes == {"STC_FILE"} \cup NoFile

\* The answer to the last request is among what is on its way to the client.
Answered ==
  \E i \in 1 .. Len(down) :
    /\ down[i].code \in FileCodes
    /\ down[i].id = Len(made)
    /\ \A j \in 1 .. Len(down) : j # i => IsUpdate(j)

AwaitingKey ==
  /\ Asked("CTS_RSA_KEY") /\ made[Len(made)].blocks = 0
  /\ \/ state = "Initial" /\ Arriving /\ Len(down) = 0
     \/ state = "WaitingForAuth" /\ Quiet /\ Len(down) = 1 /\ IsUpdate(1)

AwaitingAuth ==
  /\ Asked("CTS_AUTH_REQUEST")
  /\ \/ state = "WaitingForAuth" /\ Arriving /\ Len(down) = 0
     \/ state = "ValidatingAuth" /\ Served /\ Len(down) = 0
     \/ /\ state = "WaitingForAuth" /\ Quiet /\ Len(down) = 1
        /\ down[1].code = "STC_AUTH_FAILED" /\ down[1].id = Len(made)
     \/ /\ state = "WaitingForQueries" /\ Quiet /\ Len(down) > 0
        /\ down[1].code = "STC_AUTH_SUCCESSFUL" /\ down[1].id = Len(made)
        /\ \A i \in 2 .. Len(down) : IsUpdate(i)

AwaitingFile ==
  /\ Asked("CTS_FILE_REQUEST")
  /\ \/ state = "WaitingForQueries" /\ Arriving /\ OnlyUpdates
     \/ state = "SendingFile" /\ Served /\ OnlyUpdates
     \/ state = "WaitingForQueries" /\ Quiet /\ Answered

InOrder ==
  /\ form = "ServerChooser" => state = "Initial" /\ Quiet /\ Len(down) = 0
  /\ form = "AwaitKey" => AwaitingKey
  /\ form = "LoginForm" => state = "WaitingForAuth" /\ Quiet /\ Len(down) = 0
  /\ form = "AwaitAuth" => AwaitingAuth
  /\ form = "FileChooser" => state = "WaitingForQueries" /\ Quiet
                             /\ OnlyUpdates
  /\ form = "AwaitFile" => AwaitingFile
  /\ form = "AwaitData" => state = "WaitingForQueries" /\ Quiet /\ OnlyUpdates
  /\ form = "Closed" =>
       /\ state \in {"WaitingForAuth", "WaitingForQueries", "Closed"}
       /\ Quiet /\ OnlyUpdates

OutOfOrder ==
  /\ form \in {"FileChooser", "AwaitFile", "AwaitData", "Closed"}
  /\ state \in {"WaitingForQueries", "SendingFile", "Closed"}
  /\ \A i \in 1 .. Len(down) : IsUpdate(i) \/ down[i].code \in FileCodes

Orderly == IF overwritten THEN OutOfOrder ELSE InOrder

\* The lengths of the streams are numbers, and their domains what they seem.
LEMMA Lengths ==
  ASSUME DataOK
  PROVE  /\ Len(up) \in Nat /\ Len(down) \in Nat /\ Len(buffer) \in Nat
         /\ Len(made) \in Nat
         /\ DOMAIN down = 1 .. Len(down)
  BY LenProperties DEF DataOK

\* A write either reaches the stream or ends the session of a client that is
\* gone.
LEMMA WriteEffect ==
  ASSUME DataOK, NEW answer \in Answer, NEW next, Write(answer, next)
  PROVE  \/ /\ state' = next
            /\ Len(down') = Len(down) + 1
            /\ \A i \in 1 .. Len(down) : down'[i] = down[i]
            /\ down'[Len(down) + 1] = answer
         \/ form = "Closed" /\ state' = "Closed" /\ down' = down
PROOF
<1>1. CASE down' = Append(down, answer) /\ state' = next
  BY <1>1, WrittenParts
<1>2. CASE form = "Closed" /\ state' = "Closed" /\ UNCHANGED down
  BY <1>2
<1> QED
  BY <1>1, <1>2 DEF Write

LEMMA UpdateEffect ==
  ASSUME DataOK, NEW next, UpdateKey(next)
  PROVE  /\ sessionKey' = sessionKey + 1 /\ sessionKey' \in Key
         /\ \/ /\ state' = next
               /\ Len(down') = Len(down) + 1
               /\ \A i \in 1 .. Len(down) : down'[i] = down[i]
               /\ down'[Len(down) + 1].code = "STC_SESSION_KEY"
               /\ down'[Len(down) + 1].key = sessionKey'
            \/ form = "Closed" /\ state' = "Closed" /\ down' = down
PROOF
<1> DEFINE answer == [code |-> "STC_SESSION_KEY", key |-> sessionKey + 1,
                      id |-> 0]
<1>1. sessionKey' = sessionKey + 1 /\ sessionKey + 1 \in Key
  BY DEF UpdateKey, DataOK, Key
<1>2. answer \in Answer
  BY <1>1, BoundsAssumption DEF Answer, Code, BoundsAssumption
<1>3. Write(answer, next)
  BY <1>1 DEF UpdateKey
<1>4. answer.code = "STC_SESSION_KEY" /\ answer.key = sessionKey + 1
  OBVIOUS
<1> HIDE DEF answer
<1> QED
  BY <1>1, <1>2, <1>3, <1>4, WriteEffect

\* A request sent when nothing else is on its way is all there is.
LEMMA PutArrives ==
  ASSUME DataInv, NEW request \in Request, Put(request), Quiet,
         Len(made) < MaxRequests, UNCHANGED buffer
  PROVE  /\ Arriving' /\ Asked(request.code)'
         /\ made'[Len(made')].blocks = request.blocks
PROOF
<1>1. DataOK
  BY DEF DataInv
<1>2. LET id == Len(made) + 1 IN
      /\ id \in 1 .. MaxRequests
      /\ Len(made') = id
      /\ made'[id] = request
      /\ Len(up') = Len(up) + 2 + request.blocks
      /\ \A i \in Len(up) + 1 .. Len(up) + 2 + request.blocks :
           up'[i] = PartAt(id, i - Len(up))
  BY <1>1, BoundsAssumption, PutParts
<1>3. UNCHANGED buffer /\ Len(up) = 0 /\ Len(buffer) = 0
  BY DEF Quiet
<1>4. request.blocks \in Nat
  BY BoundsAssumption DEF Request, BoundsAssumption
<1>5. made'[Len(made')] = request /\ Len(made') = Len(made) + 1
      /\ Len(up') = 2 + request.blocks /\ Len(buffer') = 0
  BY <1>2, <1>3, <1>4
<1>6. \A i \in 1 .. Len(up') : up'[i] = PartAt(Len(made'), i)
  BY <1>2, <1>3, <1>4
<1>7. \A i \in 1 .. Len(up') : up'[i] = PartAt(Len(made'), Len(buffer') + i)
  BY <1>5, <1>6
<1>8. Arriving'
  BY <1>4, <1>5, <1>7 DEF Arriving
<1> QED
  BY <1>2, <1>5, <1>8 DEF Asked

\* A request that arrives is still all there is.
LEMMA ArriveArrives ==
  ASSUME DataInv, Arriving, made[Len(made)].blocks \in Nat, ReceivePart
  PROVE  Arriving'
PROOF
<1>1. DataOK /\ UNCHANGED made
  BY DEF DataInv, ReceivePart, clientVars
<1>2. /\ Len(up) \in Nat \ {0}
      /\ Len(up') = Len(up) - 1
      /\ \A i \in 1 .. Len(up') : up'[i] = up[i + 1]
      /\ Len(buffer') = Len(buffer) + 1
      /\ \A i \in 1 .. Len(buffer) : buffer'[i] = buffer[i]
      /\ buffer'[Len(buffer')] = up[1]
  BY <1>1, ArrivedParts
<1>3. Len(buffer) \in Nat
  BY <1>1, Lengths
<1>4. Len(buffer') + Len(up') = 2 + made'[Len(made')].blocks
  BY <1>1, <1>2, <1>3 DEF Arriving
<1>5. \A i \in 1 .. Len(buffer') : buffer'[i] = PartAt(Len(made'), i)
  <2>1. \A i \in 1 .. Len(buffer) : buffer'[i] = PartAt(Len(made'), i)
    BY <1>1, <1>2 DEF Arriving
  <2>2. buffer'[Len(buffer')] = PartAt(Len(made'), Len(buffer'))
    <3>1. 1 \in 1 .. Len(up)
      BY <1>2
    <3> QED
      BY <1>1, <1>2, <3>1 DEF Arriving
  <2>3. \A i \in 1 .. Len(buffer') : i \in 1 .. Len(buffer) \/ i = Len(buffer')
    BY <1>2, <1>3
  <2> QED
    BY <2>1, <2>2, <2>3
<1>6. \A i \in 1 .. Len(up') : up'[i] = PartAt(Len(made'), Len(buffer') + i)
  <2> SUFFICES ASSUME NEW i \in 1 .. Len(up')
               PROVE  up'[i] = PartAt(Len(made'), Len(buffer') + i)
    OBVIOUS
  <2>1. i + 1 \in 1 .. Len(up) /\ up'[i] = up[i + 1]
    BY <1>2
  <2>2. up[i + 1] = PartAt(Len(made), Len(buffer) + (i + 1))
    BY <2>1 DEF Arriving
  <2>3. Len(buffer) + (i + 1) = Len(buffer') + i
    BY <1>2, <1>3
  <2> QED
    BY <1>1, <2>1, <2>2, <2>3
<1> QED
  BY <1>4, <1>5, <1>6 DEF Arriving

\* The code and the sizes read from an input that is in step.
LEMMA ArrivedInput ==
  ASSUME DataInv, Arriving, Len(buffer) = InputSize
  PROVE  /\ CodeOf(buffer[1]) = {made[Len(made)].code}
         /\ SizeOf(buffer[2]) = {made[Len(made)].blocks}
         /\ buffer[2].id = Len(made)
PROOF
<1>1. buffer[1] = PartAt(Len(made), 1) /\ buffer[2] = PartAt(Len(made), 2)
  BY DEF Arriving, InputSize
<1>2. /\ buffer[1].part = "code" /\ buffer[1].id = Len(made)
      /\ buffer[2].part = "rest" /\ buffer[2].id = Len(made)
  BY <1>1 DEF PartAt
<1> QED
  BY <1>2 DEF CodeOf, SizeOf

\* Serving the last request leaves nothing behind.
LEMMA ServedLeavesNothing ==
  ASSUME DataInv, Served, BodyArrived, TakeBody
  PROVE  Quiet'
PROOF
<1>1. /\ buffer' = <<>>
      /\ Len(up) \in Nat /\ expect \in Nat
      /\ Len(up') = Len(up) - expect
  BY BoundsAssumption, TakenParts DEF DataInv
<1>2. Len(up) = expect
  BY <1>1 DEF Served, Arriving, InputSize
<1> QED
  BY <1>1, <1>2, EmptySeq DEF Quiet

\* Nothing is on its way at first.
LEMMA OrderlyInit == Init => Orderly
PROOF
<1> SUFFICES ASSUME Init PROVE InOrder /\ ~ overwritten
  BY DEF Orderly
<1>1. Len(buffer) = 0 /\ Len(up) = 0 /\ Len(down) = 0
  BY EmptySeq DEF Init
<1> QED
  BY <1>1 DEF Init, InOrder, Quiet

\* A call starts with its request on the way.
LEMMA OrderlyCall ==
  ASSUME DataInv, form \in Forms, Orderly,
         ConnectToServer \/ Authenticate \/ LoadFile
  PROVE  Orderly'
PROOF
<1>1. DataOK
  BY DEF DataInv
<1>2. PICK request \in Request :
           /\ Send(request)
           /\ \/ /\ form = "ServerChooser" /\ form' = "AwaitKey"
                 /\ request.code = "CTS_RSA_KEY" /\ request.blocks = 0
              \/ /\ form = "LoginForm" /\ form' = "AwaitAuth"
                 /\ request.code = "CTS_AUTH_REQUEST"
              \/ /\ form = "FileChooser" /\ form' = "AwaitFile"
                 /\ request.code = "CTS_FILE_REQUEST"
  BY <1>1, BoundsAssumption, CallsAreRequests
<1>3. UNCHANGED <<state, buffer, expect, down, overwritten>>
  BY <1>2 DEF Send, serverVars
<1>4. CASE overwritten
  BY <1>2, <1>3, <1>4 DEF Orderly, OutOfOrder, IsUpdate
<1>5. CASE ~ overwritten
  <2>1. InOrder /\ Quiet
    BY <1>2, <1>5 DEF Orderly, InOrder
  <2>2. /\ Arriving' /\ Asked(request.code)'
        /\ made'[Len(made')].blocks = request.blocks
    BY <1>2, <1>3, <2>1, PutArrives DEF Send
  <2>3. InOrder'
    <3>1. CASE form = "ServerChooser" /\ form' = "AwaitKey"
               /\ request.code = "CTS_RSA_KEY" /\ request.blocks = 0
      BY <1>3, <2>1, <2>2, <3>1 DEF InOrder, AwaitingKey
    <3>2. CASE form = "LoginForm" /\ form' = "AwaitAuth"
               /\ request.code = "CTS_AUTH_REQUEST"
      BY <1>3, <2>1, <2>2, <3>2 DEF InOrder, AwaitingAuth
    <3>3. CASE form = "FileChooser" /\ form' = "AwaitFile"
               /\ request.code = "CTS_FILE_REQUEST"
      <4>1. OnlyUpdates'
        BY <1>3, <2>1, <3>3 DEF InOrder, OnlyUpdates, IsUpdate
      <4> QED
        BY <1>3, <2>1, <2>2, <3>3, <4>1 DEF InOrder, AwaitingFile
    <3> QED
      BY <1>2, <3>1, <3>2, <3>3
  <2> QED
    BY <1>3, <1>5, <2>3 DEF Orderly
<1> QED
  BY <1>4, <1>5

\* A message read is the next the call waits for.
LEMMA OrderlyReceive ==
  ASSUME DataInv, form \in Forms, Orderly,
         ReadFirstKey \/ ReadAuthAnswer \/ ReadFileAnswer \/ ReadAsData
  PROVE  Orderly'
PROOF
<1>1. DataOK
  BY DEF DataInv
<1>2. /\ UNCHANGED <<state, buffer, expect, made, up, overwritten>>
      /\ down # <<>> /\ down' = Tail(down)
  BY DEF ReadFirstKey, ReadAuthAnswer, ReadFileAnswer, ReadAsData, Receives,
         serverVars
<1>3. /\ Len(down) \in Nat \ {0}
      /\ Len(down') = Len(down) - 1
      /\ Head(down) = down[1]
      /\ \A i \in 1 .. Len(down') : down'[i] = down[i + 1]
  BY <1>1, <1>2, ReceivedParts
<1>4. CASE overwritten
  <2>1. form' \in {"FileChooser", "AwaitFile", "AwaitData", "Closed"}
    BY <1>4 DEF Orderly, OutOfOrder, ReadFirstKey, ReadAuthAnswer,
                ReadFileAnswer, ReadAsData
  <2>2. \A i \in 1 .. Len(down') : IsUpdate(i)' \/ down'[i].code \in FileCodes
    BY <1>3, <1>4 DEF Orderly, OutOfOrder, IsUpdate
  <2> QED
    BY <1>2, <1>4, <2>1, <2>2 DEF Orderly, OutOfOrder
<1>5. CASE ~ overwritten
  <2>1. InOrder
    BY <1>5 DEF Orderly
  <2>2. (Quiet' <=> Quiet) /\ (Arriving' <=> Arriving)
        /\ (Served' <=> Served)
        /\ \A code \in Code : Asked(code)' <=> Asked(code)
    BY <1>2 DEF Quiet, Arriving, Served, Asked
  <2>3. CASE ReadFirstKey
    <3>1. state = "WaitingForAuth" /\ Quiet /\ Len(down) = 1 /\ IsUpdate(1)
      BY <1>3, <2>1, <2>3 DEF InOrder, AwaitingKey, ReadFirstKey
    <3>2. form' = "LoginForm"
      BY <1>3, <2>3, <3>1 DEF ReadFirstKey, IsUpdate
    <3> QED
      BY <1>2, <1>3, <1>5, <2>2, <3>1, <3>2 DEF Orderly, InOrder
  <2>4. CASE ReadAuthAnswer
    <3>1. form = "AwaitAuth" /\ AwaitingAuth /\ Len(down) > 0
      BY <1>3, <2>1, <2>4 DEF InOrder, ReadAuthAnswer
    <3>2. CASE /\ state = "WaitingForAuth" /\ Quiet /\ Len(down) = 1
               /\ down[1].code = "STC_AUTH_FAILED"
      <4>1. form' = "LoginForm" /\ Len(down') = 0
        BY <1>3, <2>4, <3>2 DEF ReadAuthAnswer
      <4> QED
        BY <1>2, <1>5, <2>2, <3>2, <4>1 DEF Orderly, InOrder
    <3>3. CASE /\ state = "WaitingForQueries" /\ Quiet
               /\ down[1].code = "STC_AUTH_SUCCESSFUL"
               /\ \A i \in 2 .. Len(down) : IsUpdate(i)
      <4>1. form' = "FileChooser"
        BY <1>3, <2>4, <3>3 DEF ReadAuthAnswer
      <4>2. OnlyUpdates'
        BY <1>3, <3>3 DEF OnlyUpdates, IsUpdate
      <4> QED
        BY <1>2, <1>5, <2>2, <3>3, <4>1, <4>2 DEF Orderly, InOrder
    <3> QED
      BY <3>1, <3>2, <3>3 DEF AwaitingAuth
  <2>5. CASE ReadFileAnswer
    <3>1. form = "AwaitFile" /\ AwaitingFile /\ "CTS_FILE_REQUEST" \in Code
      BY <2>1, <2>5 DEF InOrder, ReadFileAnswer, Code
    <3>2. CASE OnlyUpdates
      <4>1. form' = "AwaitFile"
        BY <1>3, <2>5, <3>2 DEF ReadFileAnswer, OnlyUpdates, IsUpdate
      <4>2. OnlyUpdates' /\ ~ Answered
        BY <1>3, <3>2 DEF OnlyUpdates, IsUpdate, Answered, FileCodes, NoFile
      <4> QED
        BY <1>2, <1>5, <2>2, <3>1, <4>1, <4>2
        DEF Orderly, InOrder, AwaitingFile
    <3>3. CASE state = "WaitingForQueries" /\ Quiet /\ Answered
      <4>1. PICK i \in 1 .. Len(down) :
              /\ down[i].code \in FileCodes
              /\ down[i].id = Len(made)
              /\ \A j \in 1 .. Len(down) : j # i => IsUpdate(j)
        BY <3>3 DEF Answered
      <4>2. CASE i = 1
        <5>1. form' \in {"FileChooser", "AwaitData"}
          BY <1>3, <2>5, <4>1, <4>2 DEF ReadFileAnswer, FileCodes, NoFile
        <5>2. OnlyUpdates'
          BY <1>3, <4>1, <4>2 DEF OnlyUpdates, IsUpdate
        <5> QED
          BY <1>2, <1>5, <2>2, <3>3, <5>1, <5>2 DEF Orderly, InOrder
      <4>3. CASE i # 1
        <5>1. form' = "AwaitFile"
          BY <1>3, <2>5, <4>1, <4>3 DEF ReadFileAnswer, IsUpdate
        <5>2. i - 1 \in 1 .. Len(down') /\ down'[i - 1] = down[i]
          BY <1>3, <4>1, <4>3
        <5>3. \A j \in 1 .. Len(down') : j # i - 1 => IsUpdate(j)'
          <6>1. \A j \in 1 .. Len(down') : /\ j + 1 \in 1 .. Len(down)
                                           /\ j # i - 1 => j + 1 # i
            BY <1>3, <4>1
          <6> QED
            BY <1>3, <4>1, <6>1 DEF IsUpdate
        <5>4. Answered'
          BY <1>2, <4>1, <5>2, <5>3 DEF Answered
        <5> QED
          BY <1>2, <1>5, <2>2, <3>1, <3>3, <5>1, <5>4
          DEF Orderly, InOrder, AwaitingFile
      <4> QED
        BY <4>2, <4>3
    <3> QED
      BY <3>1, <3>2, <3>3 DEF AwaitingFile
  <2>6. CASE ReadAsData
    <3>1. /\ state = "WaitingForQueries" /\ Quiet /\ OnlyUpdates
          /\ form' = "AwaitData"
      BY <2>1, <2>6 DEF InOrder, ReadAsData
    <3>2. OnlyUpdates'
      BY <1>3, <3>1 DEF OnlyUpdates, IsUpdate
    <3> QED
      BY <1>2, <1>5, <2>2, <3>1, <3>2 DEF Orderly, InOrder
  <2> QED
    BY <2>3, <2>4, <2>5, <2>6
<1> QED
  BY <1>4, <1>5

\* A client that leaves leaves nothing behind but updates.
LEMMA OrderlyLeave ==
  ASSUME DataInv, form \in Forms, Orderly, ReadFails \/ Reset \/ EndOfStream
  PROVE  Orderly'
PROOF
<1>1. UNCHANGED <<buffer, expect, made, up, down, overwritten>>
  BY DEF ReadFails, Reset, EndOfStream, serverVars, clientVars
<1>2. CASE overwritten
  <2>1. /\ form' \in {"FileChooser", "AwaitFile", "AwaitData", "Closed"}
        /\ state' \in {"WaitingForQueries", "SendingFile", "Closed"}
    BY <1>2 DEF Orderly, OutOfOrder, ReadFails, Reset, EndOfStream,
                serverVars, clientVars, Awaiting
  <2> QED
    BY <1>1, <1>2, <2>1 DEF Orderly, OutOfOrder, IsUpdate
<1>3. CASE ~ overwritten
  <2>1. InOrder
    BY <1>3 DEF Orderly
  <2>2. ~ ReadFails
    BY <2>1 DEF ReadFails, InOrder, Awaiting, AwaitingKey, AwaitingAuth,
                AwaitingFile
  <2>3. /\ form' = "Closed" /\ Quiet /\ OnlyUpdates
        /\ state' \in {"WaitingForAuth", "WaitingForQueries", "Closed"}
    <3>1. CASE Reset
      BY <2>1, <3>1, Lengths
      DEF InOrder, Reset, serverVars, OnlyUpdates, DataInv
    <3>2. CASE EndOfStream
      BY <2>1, <3>2 DEF InOrder, EndOfStream, clientVars
    <3> QED
      BY <2>2, <3>1, <3>2
  <2> QED
    BY <1>1, <1>3, <2>3 DEF Orderly, InOrder, Quiet, OnlyUpdates, IsUpdate
<1> QED
  BY <1>2, <1>3

\* A part of a request arrives.
LEMMA OrderlyArrive ==
  ASSUME DataInv, form \in Forms, Orderly, ReceivePart
  PROVE  Orderly'
PROOF
<1>1. DataOK /\ Len(up) > 0
  BY ArrivedParts DEF DataInv
<1>2. UNCHANGED <<state, expect, form, made, down, overwritten>>
      /\ state \in Waiting
  BY DEF ReceivePart, clientVars
<1>3. CASE overwritten
  BY <1>2, <1>3 DEF Orderly, OutOfOrder, IsUpdate
<1>4. CASE ~ overwritten
  <2>1. InOrder /\ ~ Quiet
    BY <1>1, <1>4 DEF Orderly, Quiet
  <2>2. /\ Arriving
        /\ form = "AwaitKey" \/ form = "AwaitAuth" \/ form = "AwaitFile"
        /\ Len(made) > 0
    BY <1>1, <1>2, <2>1
    DEF InOrder, AwaitingKey, AwaitingAuth, AwaitingFile, Waiting, Asked,
        Forms, Awaiting
  <2>3. made[Len(made)].blocks \in Nat
    <3>1. made[Len(made)] \in Request
      BY <1>1, <2>2, Lengths, ElementOfSeq DEF DataOK
    <3> QED
      BY <3>1, BoundsAssumption DEF Request, BoundsAssumption
  <2>4. Arriving'
    BY <2>2, <2>3, ArriveArrives
  <2>5. \A code \in Code : Asked(code)' <=> Asked(code)
    BY <1>2 DEF Asked
  <2>6. /\ "CTS_RSA_KEY" \in Code /\ "CTS_AUTH_REQUEST" \in Code
        /\ "CTS_FILE_REQUEST" \in Code
        /\ OnlyUpdates' <=> OnlyUpdates
    BY <1>2 DEF Code, OnlyUpdates, IsUpdate
  <2>7. CASE form = "AwaitKey"
    BY <1>2, <1>4, <2>1, <2>4, <2>5, <2>6, <2>7
    DEF Orderly, InOrder, AwaitingKey, Waiting
  <2>8. CASE form = "AwaitAuth"
    BY <1>2, <1>4, <2>1, <2>4, <2>5, <2>6, <2>8
    DEF Orderly, InOrder, AwaitingAuth, Waiting
  <2>9. CASE form = "AwaitFile"
    BY <1>2, <1>4, <2>1, <2>4, <2>5, <2>6, <2>9
    DEF Orderly, InOrder, AwaitingFile, Waiting
  <2> QED
    BY <2>2, <2>7, <2>8, <2>9
<1> QED
  BY <1>3, <1>4

\* An input in step starts what its request asks for.
LEMMA OrderlyConsume ==
  ASSUME DataInv, form \in Forms, Orderly, Consume
  PROVE  Orderly'
PROOF
<1>1. DataOK /\ Len(buffer) = InputSize /\ state \in Waiting
  BY DEF DataInv, Consume
<1>2. UNCHANGED <<form, made, up, overwritten>>
  BY DEF Consume, clientVars
<1>3. PICK code \in CodeOf(buffer[1]) :
       \/ /\ \/ state = "Initial" /\ code = "CTS_RSA_KEY"
                /\ UpdateKey("WaitingForAuth")
             \/ state = "WaitingForQueries" /\ code = "STC_SESSION_KEY"
                /\ UpdateKey("WaitingForQueries")
          /\ buffer' = <<>>
          /\ UNCHANGED expect
       \/ /\ \/ state = "WaitingForAuth" /\ code = "CTS_AUTH_REQUEST"
                /\ state' = "ValidatingAuth"
             \/ state = "WaitingForQueries" /\ code = "CTS_FILE_REQUEST"
                /\ state' = "SendingFile"
          /\ expect' \in SizeOf(buffer[2])
          /\ UNCHANGED <<buffer, sessionKey, down>>
       \/ /\ <<state, code>> \notin
               {<<"Initial", "CTS_RSA_KEY">>,
                <<"WaitingForAuth", "CTS_AUTH_REQUEST">>,
                <<"WaitingForQueries", "STC_SESSION_KEY">>,
                <<"WaitingForQueries", "CTS_FILE_REQUEST">>}
          /\ state' = "Closed"
          /\ UNCHANGED <<buffer, expect, sessionKey, down>>
  BY DEF Consume
<1>4. CASE overwritten
  <2>1. state = "WaitingForQueries" /\ OutOfOrder
    BY <1>1, <1>4 DEF Orderly, OutOfOrder, Waiting
  <2>2. CASE UpdateKey("WaitingForQueries")
    <3>1. state' \in {"WaitingForQueries", "Closed"}
      BY <2>2 DEF UpdateKey, Write
    <3>2. \A i \in 1 .. Len(down') :
            IsUpdate(i)' \/ down'[i].code \in FileCodes
      BY <1>1, <2>1, <2>2, UpdateEffect, Lengths DEF OutOfOrder, IsUpdate
    <3> QED
      BY <1>2, <1>4, <2>1, <3>1, <3>2 DEF Orderly, OutOfOrder
  <2>3. CASE state' \in {"SendingFile", "Closed"} /\ UNCHANGED down
    BY <1>2, <1>4, <2>1, <2>3 DEF Orderly, OutOfOrder, IsUpdate
  <2> QED
    BY <1>3, <2>1, <2>2, <2>3
<1>5. CASE ~ overwritten
  <2>1. InOrder /\ ~ Quiet
    BY <1>1, <1>5 DEF Orderly, Quiet, InputSize
  <2>2. Arriving
    BY <1>1, <2>1
    DEF InOrder, AwaitingKey, AwaitingAuth, AwaitingFile, Waiting, Forms,
        Awaiting
  <2>3. /\ CodeOf(buffer[1]) = {made[Len(made)].code}
        /\ SizeOf(buffer[2]) = {made[Len(made)].blocks}
    BY <1>1, <2>2, ArrivedInput
  <2>4. code = made[Len(made)].code
    BY <1>3, <2>3
  <2>5. /\ \A c \in Code : Asked(c)' <=> Asked(c)
        /\ "CTS_RSA_KEY" \in Code /\ "CTS_AUTH_REQUEST" \in Code
        /\ "CTS_FILE_REQUEST" \in Code
    BY <1>2 DEF OnlyUpdates, IsUpdate, Asked, Code
  <2>6. CASE form = "AwaitKey"
    <3>1. /\ state = "Initial" /\ Len(down) = 0 /\ code = "CTS_RSA_KEY"
          /\ AwaitingKey /\ made[Len(made)].blocks = 0
      BY <1>1, <2>1, <2>4, <2>6 DEF InOrder, AwaitingKey, Waiting, Asked, Quiet
    <3>2. UpdateKey("WaitingForAuth") /\ buffer' = <<>>
      BY <1>3, <3>1
    <3>3. state' = "WaitingForAuth" /\ Len(down') = 1 /\ IsUpdate(1)'
      BY <1>1, <2>6, <3>1, <3>2, UpdateEffect DEF IsUpdate
    <3>4. Quiet'
      BY <1>1, <1>2, <2>2, <3>1, <3>2, Lengths, EmptySeq
      DEF Quiet, Arriving, InputSize
    <3> QED
      BY <1>2, <1>5, <2>5, <2>6, <3>1, <3>3, <3>4
      DEF Orderly, InOrder, AwaitingKey
  <2>7. CASE form = "AwaitAuth"
    <3>1. /\ state = "WaitingForAuth" /\ Len(down) = 0
          /\ code = "CTS_AUTH_REQUEST" /\ AwaitingAuth
      BY <1>1, <2>1, <2>4, <2>7
      DEF InOrder, AwaitingAuth, Waiting, Asked, Quiet, InputSize
    <3>2. state' = "ValidatingAuth" /\ expect' = made[Len(made)].blocks
          /\ UNCHANGED <<buffer, down>>
      BY <1>3, <2>3, <3>1
    <3>3. Served'
      BY <1>1, <1>2, <2>2, <3>2 DEF Served, Arriving
    <3> QED
      BY <1>2, <1>5, <2>5, <2>7, <3>1, <3>2, <3>3
      DEF Orderly, InOrder, AwaitingAuth
  <2>8. CASE form = "AwaitFile"
    <3>1. /\ state = "WaitingForQueries" /\ OnlyUpdates
          /\ code = "CTS_FILE_REQUEST" /\ AwaitingFile
      BY <1>1, <2>1, <2>4, <2>8
      DEF InOrder, AwaitingFile, Waiting, Asked, Quiet, InputSize
    <3>2. state' = "SendingFile" /\ expect' = made[Len(made)].blocks
          /\ UNCHANGED <<buffer, down>>
      BY <1>3, <2>3, <3>1
    <3>3. Served' /\ OnlyUpdates'
      BY <1>1, <1>2, <2>2, <3>1, <3>2
      DEF Served, Arriving, OnlyUpdates, IsUpdate
    <3> QED
      BY <1>2, <1>5, <2>5, <2>8, <3>1, <3>2, <3>3
      DEF Orderly, InOrder, AwaitingFile
  <2> QED
    BY <1>1, <2>1, <2>6, <2>7, <2>8 DEF InOrder, Forms, Awaiting
<1> QED
  BY <1>4, <1>5

\* The answer to a login is alone on its way.
LEMMA OrderlyAuth ==
  ASSUME DataInv, form \in Forms, Orderly, ReadAndValidateAuth
  PROVE  Orderly'
PROOF
<1>1. DataOK /\ state = "ValidatingAuth"
  BY DEF DataInv, ReadAndValidateAuth
<1>2. UNCHANGED <<form, made, overwritten>> /\ BodyArrived /\ TakeBody
  BY DEF ReadAndValidateAuth, clientVars
<1>3. /\ ~ overwritten /\ form = "AwaitAuth"
      /\ Served /\ Len(down) = 0 /\ AwaitingAuth
  BY <1>1 DEF Orderly, OutOfOrder, InOrder, AwaitingKey, AwaitingAuth,
              AwaitingFile, Forms, Awaiting
<1>4. PICK answer \in Answer, next \in Waiting :
        /\ Write(answer, next)
        /\ answer.id = buffer[2].id
        /\ \/ answer.code = "STC_AUTH_SUCCESSFUL"
              /\ next = "WaitingForQueries"
           \/ answer.code = "STC_AUTH_FAILED" /\ next = "WaitingForAuth"
  BY AuthServes
<1>5. state' = next /\ Len(down') = 1 /\ down'[1] = answer
  BY <1>1, <1>3, <1>4, WriteEffect
<1>6. answer.id = Len(made)
  BY <1>3, <1>4, ArrivedInput DEF Served
<1>7. Quiet'
  BY <1>2, <1>3, ServedLeavesNothing
<1>8. Asked("CTS_AUTH_REQUEST")'
  BY <1>2, <1>3 DEF AwaitingAuth, Asked
<1>9. AwaitingAuth'
  BY <1>2, <1>4, <1>5, <1>6, <1>7, <1>8 DEF AwaitingAuth
<1> QED
  BY <1>2, <1>3, <1>9 DEF Orderly, InOrder

\* The answer to a file request is the only one on its way.
LEMMA OrderlyFile ==
  ASSUME DataInv, form \in Forms, Orderly, TrySendFile
  PROVE  Orderly'
PROOF
<1>1. DataOK /\ state = "SendingFile"
  BY DEF DataInv, TrySendFile
<1>2. UNCHANGED <<form, made, overwritten>> /\ BodyArrived /\ TakeBody
  BY DEF TrySendFile, clientVars
<1>3. PICK answer \in Answer :
        /\ Write(answer, "WaitingForQueries")
        /\ answer.id = buffer[2].id
        /\ answer.code \in FileCodes
  BY FileServes DEF FileCodes
<1>4. CASE overwritten
  <2>1. OutOfOrder
    BY <1>4 DEF Orderly
  <2>2. state' \in {"WaitingForQueries", "Closed"}
    BY <1>3 DEF Write
  <2>3. \A i \in 1 .. Len(down') : IsUpdate(i)' \/ down'[i].code \in FileCodes
    BY <1>1, <1>3, <2>1, WriteEffect, Lengths DEF OutOfOrder, IsUpdate
  <2> QED
    BY <1>2, <1>4, <2>1, <2>2, <2>3 DEF Orderly, OutOfOrder
<1>5. CASE ~ overwritten
  <2>1. form = "AwaitFile" /\ Served /\ OnlyUpdates /\ AwaitingFile
    BY <1>1, <1>5 DEF Orderly, InOrder, AwaitingKey, AwaitingAuth,
                      AwaitingFile, Forms, Awaiting
  <2>2. /\ state' = "WaitingForQueries"
        /\ Len(down') = Len(down) + 1
        /\ \A i \in 1 .. Len(down) : down'[i] = down[i]
        /\ down'[Len(down) + 1] = answer
    BY <1>1, <1>3, <2>1, WriteEffect
  <2>3. answer.id = Len(made)
    BY <1>3, <2>1, ArrivedInput DEF Served
  <2>4. Quiet'
    BY <1>2, <2>1, ServedLeavesNothing
  <2>5. Answered'
    <3>1. Len(down) + 1 \in 1 .. Len(down')
      BY <1>1, <2>2, Lengths
    <3>2. \A j \in 1 .. Len(down') : j # Len(down) + 1 => IsUpdate(j)'
      BY <1>1, <2>1, <2>2, Lengths DEF OnlyUpdates, IsUpdate
    <3> QED
      BY <1>2, <1>3, <2>2, <2>3, <3>1, <3>2 DEF Answered
  <2>6. Asked("CTS_FILE_REQUEST")'
    BY <1>2, <2>1 DEF AwaitingFile, Asked
  <2> QED
    BY <1>2, <1>5, <2>1, <2>2, <2>4, <2>5, <2>6
    DEF Orderly, InOrder, AwaitingFile
<1> QED
  BY <1>4, <1>5

\* An update goes in between, unless it hits an input.
LEMMA OrderlyTimer ==
  ASSUME DataInv, form \in Forms, Orderly, SessionKeyTimer
  PROVE  Orderly'
PROOF
<1>1. DataOK /\ state = "WaitingForQueries" /\ Len(buffer) < InputSize
  BY DEF DataInv, SessionKeyTimer
<1>2. /\ UNCHANGED <<expect, form, made, up>>
      /\ UpdateKey("WaitingForQueries")
      /\ overwritten' = (overwritten \/ buffer # <<>>)
  BY DEF SessionKeyTimer, clientVars
<1>3. Len(buffer') = Len(buffer)
  BY <1>1, OverwrittenBuffer DEF SessionKeyTimer
<1>4. /\ \/ state' = "WaitingForQueries"
         \/ state' = "Closed" /\ form = "Closed"
      /\ Len(down') \in {Len(down), Len(down) + 1}
      /\ \A i \in 1 .. Len(down) : down'[i] = down[i]
      /\ \A i \in Len(down) + 1 .. Len(down') : IsUpdate(i)'
  BY <1>1, <1>2, UpdateEffect, Lengths DEF IsUpdate
<1>5. \A i \in 1 .. Len(down') :
        i \in 1 .. Len(down) \/ i \in Len(down) + 1 .. Len(down')
  BY <1>1, <1>4, Lengths
<1>6. form \in {"FileChooser", "AwaitFile", "AwaitData", "Closed", "AwaitAuth"}
      /\ (Orderly /\ ~ overwritten => InOrder)
      /\ (overwritten => OutOfOrder)
  BY <1>1 DEF Orderly, OutOfOrder, InOrder, AwaitingKey, Forms, Awaiting
<1>7. CASE overwritten
  <2>1. \A i \in 1 .. Len(down') : IsUpdate(i)' \/ down'[i].code \in FileCodes
    BY <1>4, <1>5, <1>6, <1>7 DEF OutOfOrder, IsUpdate
  <2> QED
    BY <1>2, <1>4, <1>6, <1>7, <2>1 DEF Orderly, OutOfOrder
<1>8. CASE ~ overwritten /\ Len(buffer) > 0
  <2>1. form = "AwaitFile" /\ Arriving /\ OnlyUpdates
    BY <1>1, <1>6, <1>8 DEF InOrder, AwaitingAuth, AwaitingFile, Quiet
  <2>2. overwritten' /\ OnlyUpdates'
    <3>1. buffer # <<>>
      BY <1>8, EmptySeq
    <3> QED
      BY <1>2, <1>4, <1>5, <2>1, <3>1 DEF OnlyUpdates, IsUpdate
  <2> QED
    BY <1>2, <1>4, <2>1, <2>2 DEF Orderly, OutOfOrder, OnlyUpdates
<1>9. CASE ~ overwritten /\ Len(buffer) = 0
  <2>1. ~ overwritten' /\ InOrder
    BY <1>1, <1>2, <1>6, <1>9, EmptySeq DEF DataOK
  <2>2. /\ Quiet' <=> Quiet
        /\ OnlyUpdates => OnlyUpdates'
        /\ Asked("CTS_FILE_REQUEST")' <=> Asked("CTS_FILE_REQUEST")
        /\ Asked("CTS_AUTH_REQUEST")' <=> Asked("CTS_AUTH_REQUEST")
    BY <1>2, <1>3, <1>4, <1>5 DEF Quiet, OnlyUpdates, IsUpdate, Asked
  <2>3. CASE form \in {"FileChooser", "AwaitData", "Closed"}
    BY <1>2, <1>4, <2>1, <2>2, <2>3 DEF Orderly, InOrder
  <2>4. CASE form = "AwaitAuth"
    <3>1. /\ AwaitingAuth /\ Quiet /\ Len(down) > 0
          /\ down[1].code = "STC_AUTH_SUCCESSFUL" /\ down[1].id = Len(made)
          /\ \A i \in 2 .. Len(down) : IsUpdate(i)
      BY <1>1, <2>1, <2>4 DEF InOrder, AwaitingAuth
    <3>2. /\ Len(down') > 0 /\ down'[1] = down[1]
          /\ \A i \in 2 .. Len(down') : IsUpdate(i)'
      BY <1>1, <1>4, <1>5, <3>1, Lengths DEF IsUpdate
    <3> QED
      BY <1>2, <1>4, <2>1, <2>2, <2>4, <3>1, <3>2
      DEF Orderly, InOrder, AwaitingAuth
  <2>5. CASE form = "AwaitFile"
    <3>1. AwaitingFile /\ ((Arriving /\ OnlyUpdates) \/ (Quiet /\ Answered))
      BY <1>1, <2>1, <2>5 DEF InOrder, AwaitingFile
    <3>2. ASSUME Arriving PROVE Arriving'
      BY <1>2, <1>3, <1>9, <3>2 DEF Arriving
    <3>3. ASSUME Answered PROVE Answered'
      <4>1. PICK i \in 1 .. Len(down) :
              /\ down[i].code \in FileCodes
              /\ down[i].id = Len(made)
              /\ \A j \in 1 .. Len(down) : j # i => IsUpdate(j)
        BY <3>3 DEF Answered
      <4>2. i \in 1 .. Len(down') /\ down'[i] = down[i]
        BY <1>1, <1>4, Lengths
      <4>3. \A j \in 1 .. Len(down') : j # i => IsUpdate(j)'
        BY <1>4, <1>5, <4>1 DEF IsUpdate
      <4> QED
        BY <1>2, <4>1, <4>2, <4>3 DEF Answered
    <3> QED
      BY <1>2, <1>4, <2>1, <2>2, <2>5, <3>1, <3>2, <3>3
      DEF Orderly, InOrder, AwaitingFile
  <2> QED
    BY <1>6, <2>3, <2>4, <2>5
<1> QED
  BY <1>1, <1>7, <1>8, <1>9, Lengths

\* Every step keeps the calls in order.
LEMMA OrderlyNext ==
  ASSUME DataInv, form \in Forms, Orderly, [Next]_vars
  PROVE  Orderly'
PROOF
<1>1. CASE UNCHANGED vars
  BY <1>1 DEF vars, serverVars, clientVars, Orderly, OutOfOrder, InOrder,
              AwaitingKey, AwaitingAuth, AwaitingFile, Quiet, Arriving,
              Served, Asked, Answered, OnlyUpdates, IsUpdate
<1> QED
  BY <1>1, OrderlyCall, OrderlyReceive, OrderlyLeave, OrderlyArrive,
     OrderlyConsume, OrderlyAuth, OrderlyFile, OrderlyTimer DEF Next

\* The calls are in order for ever.
LEMMA OrderlyInvariance == Spec => [](TypeInv /\ Orderly)
PROOF
<1>1. Init => TypeInv /\ Orderly
  BY TypeInit, OrderlyInit, BoundsAssumption
<1>2. TypeInv /\ Orderly /\ [Next]_vars => (TypeInv /\ Orderly)'
  BY TypeNext, OrderlyNext, BoundsAssumption DEF TypeInv
<1> QED
  BY <1>1, <1>2, PTL DEF Spec

\* The one byte the client reads as the answer to its login is the first byte
\* of that answer, for any number of requests and keys.
THEOREM AuthAnswerCorrect == Spec => []AuthAnswerComesFirst
PROOF
<1>1. TypeInv /\ Orderly => AuthAnswerComesFirst
  <2> SUFFICES ASSUME DataInv, Orderly, form = "AwaitAuth", down # <<>>
               PROVE  /\ Head(down).code \in {"STC_AUTH_SUCCESSFUL",
                                              "STC_AUTH_FAILED"}
                      /\ Head(down).id = Len(made)
    BY DEF AuthAnswerComesFirst, TypeInv
  <2>1. Len(down) > 0 /\ Head(down) = down[1]
    BY FirstAndRest DEF DataInv, DataOK
  <2>2. AwaitingAuth
    BY DEF Orderly, OutOfOrder, InOrder
  <2> QED
    BY <2>1, <2>2 DEF AwaitingAuth
<1> QED
  BY <1>1, OrderlyInvariance, PTL

-----------------------------------------------------------------------------
(* The key the client will hold. A message appended to the stream leaves    *)
(* what it holds before that message alone; a message taken off the stream  *)
(* moves into clientKey what was read in the stream before.                 *)

\* Appending leaves what is held before alone.
LEMMA HeldBeforeAppend ==
  ASSUME DataOK, clientKey' = clientKey,
         \A i \in 1 .. Len(down) : down'[i] = down[i],
         NEW n \in 0 .. Len(down), NEW k
  PROVE  HeldAfter(n, k)' <=> HeldAfter(n, k)
PROOF
<1>1. Len(down) \in Nat
  BY Lengths
<1>2. \A i \in 1 .. n : /\ IsUpdate(i)' <=> IsUpdate(i)
                        /\ down'[i] = down[i]
  BY <1>1 DEF IsUpdate
<1>3. \A i \in 1 .. n : \A j \in i + 1 .. n : j \in 1 .. n
  BY <1>1
<1> QED
  BY <1>2, <1>3 DEF HeldAfter

\* After an update its key is held.
LEMMA HeldAfterUpdate ==
  ASSUME NEW n \in Nat, down'[n + 1].code = "STC_SESSION_KEY"
  PROVE  HeldAfter(n + 1, down[n + 1].key)'
  BY DEF HeldAfter, IsUpdate

\* After any other message the same key is held as before it.
LEMMA HeldAfterOther ==
  ASSUME clientKey' = clientKey, NEW n \in Nat,
         \A i \in 1 .. n : down'[i] = down[i],
         down'[n + 1].code # "STC_SESSION_KEY",
         NEW k, HeldAfter(n, k)
  PROVE  HeldAfter(n + 1, k)'
PROOF
<1>1. \A i \in 1 .. n + 1 :
        /\ IsUpdate(i)' => i \in 1 .. n /\ IsUpdate(i)
        /\ i \in 1 .. n /\ IsUpdate(i) => IsUpdate(i)'
  BY DEF IsUpdate
<1>2. CASE k = clientKey /\ \A i \in 1 .. n : ~ IsUpdate(i)
  BY <1>1, <1>2 DEF HeldAfter
<1>3. CASE \E i \in 1 .. n : /\ IsUpdate(i) /\ down[i].key = k
                             /\ \A j \in i + 1 .. n : ~ IsUpdate(j)
  <2>1. PICK i \in 1 .. n : /\ IsUpdate(i) /\ down[i].key = k
                            /\ \A j \in i + 1 .. n : ~ IsUpdate(j)
    BY <1>3
  <2>2. i \in 1 .. n + 1 /\ IsUpdate(i)' /\ down'[i].key = k
    BY <1>1, <2>1
  <2>3. \A j \in i + 1 .. n + 1 : ~ IsUpdate(j)'
    BY <1>1, <2>1
  <2> QED
    BY <2>2, <2>3 DEF HeldAfter
<1> QED
  BY <1>2, <1>3 DEF HeldAfter

\* Reading a message moves every other one a place nearer.
LEMMA HeldAfterTaking ==
  ASSUME DataOK, Len(down) > 0, Len(down') = Len(down) - 1,
         \A i \in 1 .. Len(down') : down'[i] = down[i + 1],
         \/ IsUpdate(1) /\ clientKey' = down[1].key
         \/ ~ IsUpdate(1) /\ clientKey' = clientKey,
         NEW n \in 0 .. Len(down) - 1, NEW k
  PROVE  HeldAfter(n, k)' <=> HeldAfter(n + 1, k)
PROOF
<1>1. Len(down) \in Nat
  BY Lengths
<1>2. \A i \in 1 .. n : IsUpdate(i)' <=> IsUpdate(i + 1)
  BY <1>1 DEF IsUpdate
<1>3. \A i \in 1 .. n + 1 : i = 1 \/ i - 1 \in 1 .. n
  BY <1>1
<1>4. ASSUME HeldAfter(n, k)' PROVE HeldAfter(n + 1, k)
  <2>1. CASE k = clientKey' /\ \A i \in 1 .. n : ~ IsUpdate(i)'
    <3>1. \A i \in 2 .. n + 1 : ~ IsUpdate(i)
      <4> SUFFICES ASSUME NEW i \in 2 .. n + 1 PROVE ~ IsUpdate(i)
        OBVIOUS
      <4>1. i - 1 \in 1 .. n /\ (i - 1) + 1 = i
        BY <1>1
      <4> QED
        BY <1>2, <2>1, <4>1
    <3> QED
      BY <1>1, <2>1, <3>1 DEF HeldAfter
  <2>2. CASE \E i \in 1 .. n : /\ IsUpdate(i)' /\ down'[i].key = k
                               /\ \A j \in i + 1 .. n : ~ IsUpdate(j)'
    <3>1. PICK i \in 1 .. n : /\ IsUpdate(i)' /\ down'[i].key = k
                              /\ \A j \in i + 1 .. n : ~ IsUpdate(j)'
      BY <2>2
    <3>2. i + 1 \in 1 .. n + 1 /\ IsUpdate(i + 1) /\ down[i + 1].key = k
      BY <1>1, <1>2, <3>1
    <3>3. \A j \in (i + 1) + 1 .. n + 1 : ~ IsUpdate(j)
      <4> SUFFICES ASSUME NEW j \in (i + 1) + 1 .. n + 1 PROVE ~ IsUpdate(j)
        OBVIOUS
      <4>1. j - 1 \in i + 1 .. n /\ j - 1 \in 1 .. n /\ (j - 1) + 1 = j
        BY <1>1
      <4> QED
        BY <1>2, <3>1, <4>1
    <3> QED
      BY <3>2, <3>3 DEF HeldAfter
  <2> QED
    BY <1>4, <2>1, <2>2 DEF HeldAfter
<1>5. ASSUME HeldAfter(n + 1, k) PROVE HeldAfter(n, k)'
  <2>1. CASE k = clientKey /\ \A i \in 1 .. n + 1 : ~ IsUpdate(i)
    BY <1>1, <1>2, <2>1 DEF HeldAfter
  <2>2. CASE \E i \in 1 .. n + 1 : /\ IsUpdate(i) /\ down[i].key = k
                                   /\ \A j \in i + 1 .. n + 1 : ~ IsUpdate(j)
    <3>1. PICK i \in 1 .. n + 1 : /\ IsUpdate(i) /\ down[i].key = k
                                  /\ \A j \in i + 1 .. n + 1 : ~ IsUpdate(j)
      BY <2>2
    <3>2. CASE i = 1
      <4>1. \A j \in 1 .. n : ~ IsUpdate(j)'
        BY <1>1, <1>2, <3>1, <3>2
      <4> QED
        BY <3>1, <3>2, <4>1 DEF HeldAfter
    <3>3. CASE i # 1
      <4>1. i - 1 \in 1 .. n /\ (i - 1) + 1 = i
        BY <1>1, <3>3
      <4>2. IsUpdate(i - 1)' /\ down'[i - 1].key = k
        BY <1>1, <1>2, <3>1, <4>1
      <4>3. \A j \in (i - 1) + 1 .. n : ~ IsUpdate(j)'
        BY <1>1, <1>2, <3>1, <4>1
      <4> QED
        BY <4>1, <4>2, <4>3 DEF HeldAfter
    <3> QED
      BY <3>2, <3>3
  <2> QED
    BY <1>5, <2>1, <2>2 DEF HeldAfter
<1> QED
  BY <1>4, <1>5

\* The client holds one key at a time.
LEMMA HeldIsOneKey ==
  ASSUME NEW n \in Nat, NEW a, NEW b, HeldAfter(n, a), HeldAfter(n, b)
  PROVE  a = b
  BY DEF HeldAfter

\* The reads of the client take every update as one.
LEMMA UpdatesAreTaken ==
  ASSUME DataInv, Orderly, ReadFirstKey \/ ReadAuthAnswer \/ ReadFileAnswer
  PROVE  /\ Len(down) > 0 /\ Len(down') = Len(down) - 1
         /\ \A i \in 1 .. Len(down') : down'[i] = down[i + 1]
         /\ \/ IsUpdate(1) /\ clientKey' = down[1].key
            \/ ~ IsUpdate(1) /\ clientKey' = clientKey
PROOF
<1>1. DataOK /\ down # <<>> /\ down' = Tail(down)
  BY DEF DataInv, ReadFirstKey, ReadAuthAnswer, ReadFileAnswer, Receives
<1>2. /\ Len(down) \in Nat \ {0}
      /\ Len(down') = Len(down) - 1
      /\ Head(down) = down[1]
      /\ \A i \in 1 .. Len(down') : down'[i] = down[i + 1]
  BY <1>1, ReceivedParts
<1>3. CASE ReadFirstKey \/ ReadFileAnswer
  BY <1>2, <1>3 DEF ReadFirstKey, ReadFileAnswer, IsUpdate
<1>4. CASE ReadAuthAnswer
  <2>1. AwaitingAuth
    BY <1>4 DEF Orderly, OutOfOrder, InOrder, ReadAuthAnswer
  <2>2. ~ IsUpdate(1)
    BY <1>2, <2>1 DEF AwaitingAuth, IsUpdate
  <2> QED
    BY <1>2, <1>4, <2>2 DEF ReadAuthAnswer
<1> QED
  BY <1>3, <1>4

-----------------------------------------------------------------------------
(* The keys of the two sides.                                              *)

AgreeNow == state # "Closed" => HeldAfter(Len(down), sessionKey)

DecipherableNow ==
  \A i \in DOMAIN down :
    down[i].code = "STC_FILE" => HeldAfter(i - 1, down[i].key)

KeysHeld == AgreeNow /\ DecipherableNow /\ RefusalFollowsUpdate

\* A client that takes all that comes for data misses the updates in it, and
\* only the end of the stream makes it read messages again.
KeysInv == form # "AwaitData" => KeysHeld

\* A step that leaves the keys and the stream to the client alone.
LEMMA KeysKept ==
  ASSUME DataInv, KeysHeld, UNCHANGED <<down, clientKey, sessionKey>>,
         state = "Closed" => state' = "Closed", overwritten => overwritten',
         UNCHANGED made \/ overwritten' \/ OnlyUpdates
  PROVE  KeysHeld'
PROOF
<1>1. AgreeNow'
  BY DEF KeysHeld, AgreeNow, HeldAfter, IsUpdate
<1>2. DecipherableNow'
  BY DEF KeysHeld, DecipherableNow, HeldAfter, IsUpdate
<1>3. RefusalFollowsUpdate'
  <2>1. CASE overwritten'
    BY <2>1 DEF RefusalFollowsUpdate
  <2>2. CASE UNCHANGED made /\ ~ overwritten'
    BY <2>2 DEF KeysHeld, RefusalFollowsUpdate, HeldAfter, IsUpdate
  <2>3. CASE OnlyUpdates
    <3>1. \A i \in DOMAIN down : down[i].code \notin NoFile
      BY <2>3, Lengths DEF DataInv, OnlyUpdates, IsUpdate, NoFile
    <3> QED
      BY <3>1 DEF RefusalFollowsUpdate
  <2> QED
    BY <2>1, <2>2, <2>3
<1> QED
  BY <1>1, <1>2, <1>3 DEF KeysHeld

\* The client takes a message off its stream.
LEMMA KeysTaken ==
  ASSUME DataInv, DataInv', Orderly, KeysHeld,
         ReadFirstKey \/ ReadAuthAnswer \/ ReadFileAnswer
  PROVE  KeysHeld'
PROOF
<1>1. /\ DataOK /\ Len(down) \in Nat /\ DOMAIN down = 1 .. Len(down)
      /\ Len(down') \in Nat /\ DOMAIN down' = 1 .. Len(down')
  <2>1. DataOK'
    BY DEF DataInv
  <2> QED
    BY <2>1, Lengths, LenProperties DEF DataInv, DataOK
<1>2. UNCHANGED <<state, sessionKey, made, overwritten>>
  BY DEF ReadFirstKey, ReadAuthAnswer, ReadFileAnswer, Receives, serverVars
<1>3. /\ Len(down) > 0 /\ Len(down') = Len(down) - 1
      /\ \A i \in 1 .. Len(down') : down'[i] = down[i + 1]
      /\ \/ IsUpdate(1) /\ clientKey' = down[1].key
         \/ ~ IsUpdate(1) /\ clientKey' = clientKey
  BY UpdatesAreTaken
<1>4. \A n \in 0 .. Len(down) - 1 : \A k :
        HeldAfter(n, k)' <=> HeldAfter(n + 1, k)
  BY <1>1, <1>3, HeldAfterTaking
<1>5. AgreeNow'
  <2> SUFFICES ASSUME state' # "Closed"
               PROVE  HeldAfter(Len(down), sessionKey)'
    BY DEF AgreeNow
  <2>1. PICK n \in Nat : n = Len(down')
    BY <1>1
  <2>2. PICK k : k = sessionKey
    OBVIOUS
  <2>3. HeldAfter(n + 1, k)
    BY <1>1, <1>2, <1>3, <2>1, <2>2 DEF KeysHeld, AgreeNow
  <2>4. HeldAfter(n, k)'
    BY <1>1, <1>3, <1>4, <2>1, <2>3
  <2> QED
    BY <1>2, <2>1, <2>2, <2>4 DEF HeldAfter, IsUpdate
<1>6. DecipherableNow'
  <2> SUFFICES ASSUME NEW i \in DOMAIN down', down'[i].code = "STC_FILE"
               PROVE  HeldAfter(i - 1, down[i].key)'
    BY DEF DecipherableNow
  <2>1. PICK k : k = down'[i].key
    OBVIOUS
  <2>2. /\ i + 1 \in DOMAIN down /\ down[i + 1] = down'[i]
        /\ i - 1 \in 0 .. Len(down) - 1 /\ (i - 1) + 1 = (i + 1) - 1
    BY <1>1, <1>3
  <2>3. HeldAfter((i + 1) - 1, down[i + 1].key)
    BY <2>2 DEF KeysHeld, DecipherableNow
  <2>4. HeldAfter((i - 1) + 1, k)
    BY <2>1, <2>2, <2>3
  <2>5. HeldAfter(i - 1, k)'
    BY <1>4, <2>2, <2>4
  <2> QED
    BY <2>1, <2>5 DEF HeldAfter, IsUpdate
<1>7. RefusalFollowsUpdate'
  <2> SUFFICES ASSUME ~ overwritten', NEW i \in DOMAIN down',
                      down'[i].code \in NoFile,
                      made'[down'[i].id].good
               PROVE  ~ HeldAfter(i - 1, made[down[i].id].key)'
    BY DEF RefusalFollowsUpdate
  <2>1. PICK k : k = made'[down'[i].id].key
    OBVIOUS
  <2>2. /\ i + 1 \in DOMAIN down /\ down[i + 1] = down'[i]
        /\ i - 1 \in 0 .. Len(down) - 1 /\ (i - 1) + 1 = (i + 1) - 1
    BY <1>1, <1>3
  <2>3. ~ HeldAfter((i + 1) - 1, made[down[i + 1].id].key)
    BY <1>2, <2>2 DEF KeysHeld, RefusalFollowsUpdate
  <2>4. ~ HeldAfter((i - 1) + 1, k)
    BY <1>2, <2>1, <2>2, <2>3
  <2>5. ~ HeldAfter(i - 1, k)'
    BY <1>4, <2>2, <2>4
  <2> QED
    BY <2>1, <2>5 DEF HeldAfter, IsUpdate
<1> QED
  BY <1>5, <1>6, <1>7 DEF KeysHeld

\* The messages already on their way when another is appended.
LEMMA KeysBeforeAppend ==
  ASSUME DataInv, DataInv', KeysHeld, UNCHANGED <<clientKey, made>>,
         overwritten => overwritten',
         \A i \in 1 .. Len(down) : down'[i] = down[i]
  PROVE  \A i \in 1 .. Len(down) :
           /\ down'[i].code = "STC_FILE" => HeldAfter(i - 1, down[i].key)'
           /\ /\ ~ overwritten'
              /\ down'[i].code \in NoFile
              /\ made'[down'[i].id].good
              => ~ HeldAfter(i - 1, made[down[i].id].key)'
PROOF
<1> SUFFICES ASSUME NEW i \in 1 .. Len(down)
             PROVE
               /\ down'[i].code = "STC_FILE" => HeldAfter(i - 1, down[i].key)'
               /\ /\ ~ overwritten'
                  /\ down'[i].code \in NoFile
                  /\ made'[down'[i].id].good
                  => ~ HeldAfter(i - 1, made[down[i].id].key)'
  OBVIOUS
<1>1. DataOK /\ Len(down) \in Nat /\ i \in DOMAIN down
  BY Lengths DEF DataInv
<1>2. down'[i] = down[i] /\ i - 1 \in 0 .. Len(down)
  BY <1>1
<1>3. \A k : HeldAfter(i - 1, k)' <=> HeldAfter(i - 1, k)
  BY <1>1, <1>2, HeldBeforeAppend
<1>4. ASSUME down'[i].code = "STC_FILE" PROVE HeldAfter(i - 1, down[i].key)'
  <2>1. PICK k : k = down[i].key
    OBVIOUS
  <2>2. HeldAfter(i - 1, k)'
    BY <1>1, <1>2, <1>3, <1>4, <2>1 DEF KeysHeld, DecipherableNow
  <2> QED
    BY <1>2, <2>1, <2>2 DEF HeldAfter, IsUpdate
<1>5. ASSUME ~ overwritten', down'[i].code \in NoFile,
             made'[down'[i].id].good
      PROVE  ~ HeldAfter(i - 1, made[down[i].id].key)'
  <2>1. PICK k : k = made[down[i].id].key
    OBVIOUS
  <2>2. ~ HeldAfter(i - 1, k)'
    BY <1>1, <1>2, <1>3, <1>5, <2>1 DEF KeysHeld, RefusalFollowsUpdate
  <2> QED
    BY <1>2, <2>1, <2>2 DEF HeldAfter, IsUpdate
<1> QED
  BY <1>4, <1>5

\* A message is appended that leaves the client with the session's key, and
\* that is legible, or refused for a reason, when it is an answer.
LEMMA KeysAfterAppend ==
  ASSUME DataInv, DataInv', KeysHeld, UNCHANGED <<clientKey, made>>,
         overwritten => overwritten',
         \A i \in 1 .. Len(down) : down'[i] = down[i],
         NEW n \in Nat, n = Len(down), Len(down') = n + 1,
         NEW k, k = sessionKey', HeldAfter(n + 1, k)',
         down'[n + 1].code = "STC_FILE" => HeldAfter(n, down[n + 1].key)',
         /\ ~ overwritten'
         /\ down'[n + 1].code \in NoFile
         /\ made'[down'[n + 1].id].good
         => ~ HeldAfter(n, made[down[n + 1].id].key)'
  PROVE  KeysHeld'
PROOF
<1>1. DOMAIN down' = 1 .. n + 1
  BY LenProperties DEF DataInv, DataOK
<1>2. \A i \in 1 .. Len(down) :
           /\ down'[i].code = "STC_FILE" => HeldAfter(i - 1, down[i].key)'
           /\ /\ ~ overwritten'
              /\ down'[i].code \in NoFile
              /\ made'[down'[i].id].good
              => ~ HeldAfter(i - 1, made[down[i].id].key)'
  BY KeysBeforeAppend
<1>3. (n + 1) - 1 = n /\ \A i \in 1 .. n + 1 : i \in 1 .. n \/ i = n + 1
  OBVIOUS
<1>4. AgreeNow'
  BY DEF AgreeNow, HeldAfter, IsUpdate
<1>5. DecipherableNow'
  <2> SUFFICES ASSUME NEW i \in DOMAIN down', down'[i].code = "STC_FILE"
               PROVE  HeldAfter(i - 1, down[i].key)'
    BY DEF DecipherableNow
  <2>1. CASE i \in 1 .. Len(down)
    BY <1>2, <2>1
  <2>2. CASE i = n + 1
    BY <1>3, <2>2 DEF HeldAfter, IsUpdate
  <2> QED
    BY <1>1, <1>3, <2>1, <2>2
<1>6. RefusalFollowsUpdate'
  <2> SUFFICES ASSUME ~ overwritten', NEW i \in DOMAIN down',
                      down'[i].code \in NoFile,
                      made'[down'[i].id].good
               PROVE  ~ HeldAfter(i - 1, made[down[i].id].key)'
    BY DEF RefusalFollowsUpdate
  <2>1. CASE i \in 1 .. Len(down)
    BY <1>2, <2>1
  <2>2. CASE i = n + 1
    BY <1>3, <2>2 DEF HeldAfter, IsUpdate
  <2> QED
    BY <1>1, <1>3, <2>1, <2>2
<1> QED
  BY <1>4, <1>5, <1>6 DEF KeysHeld

\* The session generates a key and sends it.
LEMMA KeysUpdated ==
  ASSUME DataInv, DataInv', KeysHeld, NEW next \in States \ {"Closed"},
         UpdateKey(next), UNCHANGED <<clientKey, made>>,
         overwritten => overwritten'
  PROVE  KeysHeld'
PROOF
<1>1. DataOK /\ Len(down) \in Nat
  BY Lengths DEF DataInv
<1>2. CASE /\ Len(down') = Len(down) + 1
           /\ \A i \in 1 .. Len(down) : down'[i] = down[i]
           /\ down'[Len(down) + 1].code = "STC_SESSION_KEY"
           /\ down'[Len(down) + 1].key = sessionKey'
  <2>1. PICK n \in Nat : n = Len(down)
    BY <1>1
  <2>2. PICK k : k = sessionKey'
    OBVIOUS
  <2>3. HeldAfter(n + 1, down[n + 1].key)'
    BY <1>2, <2>1, HeldAfterUpdate
  <2>4. HeldAfter(n + 1, k)'
    BY <1>2, <2>1, <2>2, <2>3 DEF HeldAfter, IsUpdate
  <2> QED
    BY <1>2, <2>1, <2>2, <2>4, KeysAfterAppend DEF NoFile
<1>3. CASE state' = "Closed" /\ down' = down
  <2>1. AgreeNow'
    BY <1>3 DEF AgreeNow
  <2>2. DecipherableNow'
    BY <1>3 DEF KeysHeld, DecipherableNow, HeldAfter, IsUpdate
  <2>3. RefusalFollowsUpdate'
    BY <1>3 DEF KeysHeld, RefusalFollowsUpdate, HeldAfter, IsUpdate
  <2> QED
    BY <2>1, <2>2, <2>3 DEF KeysHeld
<1> QED
  BY <1>1, <1>2, <1>3, UpdateEffect

\* The session answers: a file with the key it has, a refusal only of what it
\* could not read with that key.
LEMMA KeysAnswered ==
  ASSUME DataInv, DataInv', KeysHeld, state # "Closed",
         UNCHANGED <<sessionKey, clientKey, made, overwritten>>,
         NEW answer \in Answer, NEW next, Write(answer, next),
         answer.code # "STC_SESSION_KEY",
         answer.code = "STC_FILE" => answer.key = sessionKey,
         /\ ~ overwritten
         /\ answer.code \in NoFile
         /\ made[answer.id].good
         => made[answer.id].key # sessionKey
  PROVE  KeysHeld'
PROOF
<1>1. DataOK /\ Len(down) \in Nat
  BY Lengths DEF DataInv
<1>2. CASE /\ Len(down') = Len(down) + 1
           /\ \A i \in 1 .. Len(down) : down'[i] = down[i]
           /\ down'[Len(down) + 1] = answer
  <2>1. PICK n \in Nat : n = Len(down)
    BY <1>1
  <2>2. PICK k : k = sessionKey
    OBVIOUS
  <2>3. HeldAfter(n, k)
    BY <2>1, <2>2 DEF KeysHeld, AgreeNow
  <2>4. HeldAfter(n + 1, k)'
    BY <1>2, <2>1, <2>3, HeldAfterOther
  <2>5. \A b : HeldAfter(n, b)' <=> HeldAfter(n, b)
    BY <1>1, <1>2, <2>1, HeldBeforeAppend
  <2>6. ASSUME down'[n + 1].code = "STC_FILE"
        PROVE  HeldAfter(n, down[n + 1].key)'
    <3>1. down'[n + 1].key = k
      BY <1>2, <2>1, <2>2, <2>6
    <3>2. HeldAfter(n, k)'
      BY <2>3, <2>5
    <3> QED
      BY <3>1, <3>2 DEF HeldAfter, IsUpdate
  <2>7. ASSUME ~ overwritten',
               down'[n + 1].code \in NoFile,
               made'[down'[n + 1].id].good
        PROVE  ~ HeldAfter(n, made[down[n + 1].id].key)'
    <3>1. PICK b : b = made[answer.id].key
      OBVIOUS
    <3>2. b # k
      BY <1>2, <2>1, <2>2, <2>7, <3>1
    <3>3. ~ HeldAfter(n, b)'
      BY <2>3, <2>5, <3>2, HeldIsOneKey
    <3> QED
      BY <1>2, <2>1, <3>1, <3>3 DEF HeldAfter, IsUpdate
  <2> QED
    BY <1>2, <2>1, <2>2, <2>4, <2>6, <2>7, KeysAfterAppend
<1>3. CASE state' = "Closed" /\ down' = down
  BY <1>3, KeysKept
<1> QED
  BY <1>1, <1>2, <1>3, WriteEffect

\* A request served in step can be read exactly if the key has not changed.
LEMMA ServedIsLegible ==
  ASSUME DataInv, Served
  PROVE  /\ buffer[2].id = Len(made)
         /\ expect = made[Len(made)].blocks
         /\ Legible <=> expect = 0 \/ made[Len(made)].key = sessionKey
PROOF
<1>1. DataOK
  BY DEF DataInv
<1>2. buffer[2] = PartAt(Len(made), 2) /\ expect = made[Len(made)].blocks
  BY DEF Served, Arriving, InputSize
<1>3. buffer[2].part = "rest" /\ buffer[2].id = Len(made)
  BY <1>2 DEF PartAt
<1>4. \A i \in 1 .. expect : up[i] = [part |-> "block", id |-> Len(made)]
  <2>1. Len(up) \in Nat /\ expect \in Nat
    BY <1>1, Lengths, BoundsAssumption DEF DataOK, BoundsAssumption
  <2>2. Len(up) = expect
    BY <1>2, <2>1 DEF Served, Arriving, InputSize
  <2> SUFFICES ASSUME NEW i \in 1 .. expect
               PROVE  up[i] = [part |-> "block", id |-> Len(made)]
    OBVIOUS
  <2>3. up[i] = PartAt(Len(made), 2 + i)
    BY <2>1, <2>2 DEF Served, Arriving, InputSize
  <2>4. 2 + i # 1 /\ 2 + i # 2
    BY <2>1
  <2> QED
    BY <2>3, <2>4 DEF PartAt
<1>5. expect = 0 \/ expect > 0
  BY <1>1, BoundsAssumption DEF DataOK, BoundsAssumption
<1> QED
  BY <1>2, <1>3, <1>4, <1>5 DEF Legible

\* The keys agree at first: neither side has one.
LEMMA KeysInit == Init => KeysInv
PROOF
<1> SUFFICES ASSUME Init PROVE KeysHeld
  BY DEF KeysInv
<1>1. Len(down) = 0 /\ DOMAIN down = {}
  BY EmptySeq DEF Init
<1> QED
  BY <1>1 DEF Init, KeysHeld, AgreeNow, DecipherableNow,
              RefusalFollowsUpdate, HeldAfter

\* Every step keeps the keys in agreement.
LEMMA KeysNext ==
  ASSUME DataInv, DataInv', form \in Forms, Orderly, KeysInv, [Next]_vars
  PROVE  KeysInv'
PROOF
<1> SUFFICES ASSUME form' # "AwaitData" PROVE KeysHeld'
  BY DEF KeysInv
<1>0. CASE form = "AwaitData"
  <2>1. ReadFails
    BY <1>0 DEF Next, ConnectToServer, Authenticate, LoadFile, ReadFirstKey,
                ReadAuthAnswer, ReadFileAnswer, ReadAsData, Reset, ReceivePart,
                Consume, ReadAndValidateAuth, TrySendFile, SessionKeyTimer,
                EndOfStream, vars, clientVars
  <2>2. state' = "Closed" /\ down' = <<>>
    BY <2>1 DEF ReadFails, serverVars
  <2>3. DOMAIN down' = {}
    BY <2>2, EmptySeq
  <2> QED
    BY <2>2, <2>3 DEF KeysHeld, AgreeNow, DecipherableNow,
                      RefusalFollowsUpdate
<1> SUFFICES ASSUME form # "AwaitData", KeysHeld PROVE KeysHeld'
  BY <1>0 DEF KeysInv
<1>1. DataOK
  BY DEF DataInv
<1>2. CASE ConnectToServer \/ Authenticate \/ LoadFile
  <2>1. /\ UNCHANGED <<down, clientKey, sessionKey, state, overwritten>>
        /\ form \in {"ServerChooser", "LoginForm", "FileChooser"}
    BY <1>2 DEF ConnectToServer, Authenticate, LoadFile, Send, serverVars
  <2>2. overwritten' \/ OnlyUpdates
    BY <1>1, <2>1, Lengths DEF Orderly, InOrder, OnlyUpdates
  <2> QED
    BY <2>1, <2>2, KeysKept
<1>3. CASE ReadFirstKey \/ ReadAuthAnswer \/ ReadFileAnswer
  BY <1>3, KeysTaken
<1>4. CASE ReadFails \/ Reset \/ ReceivePart \/ EndOfStream \/ UNCHANGED vars
  <2>1. /\ UNCHANGED <<down, clientKey, sessionKey, made, overwritten>>
        /\ state = "Closed" => state' = "Closed"
    BY <1>4 DEF ReadFails, Reset, ReceivePart, EndOfStream, vars, serverVars,
                clientVars
  <2> QED
    BY <2>1, KeysKept
<1>5. CASE Consume
  <2>1. UNCHANGED <<clientKey, made, overwritten>> /\ state # "Closed"
    BY <1>5 DEF Consume, clientVars, Waiting
  <2>2. \/ UpdateKey("WaitingForAuth")
        \/ UpdateKey("WaitingForQueries")
        \/ UNCHANGED <<sessionKey, down>>
    BY <1>5 DEF Consume
  <2>3. /\ "WaitingForAuth" \in States \ {"Closed"}
        /\ "WaitingForQueries" \in States \ {"Closed"}
    BY DEF States, Waiting
  <2>4. CASE UpdateKey("WaitingForAuth") \/ UpdateKey("WaitingForQueries")
    BY <2>1, <2>3, <2>4, KeysUpdated
  <2>5. CASE UNCHANGED <<sessionKey, down>>
    BY <2>1, <2>5, KeysKept
  <2> QED
    BY <2>2, <2>4, <2>5
<1>6. CASE ReadAndValidateAuth
  <2>1. UNCHANGED <<sessionKey, clientKey, made, overwritten>>
        /\ state # "Closed"
    BY <1>6 DEF ReadAndValidateAuth, clientVars
  <2>2. PICK answer \in Answer, next \in Waiting :
          /\ Write(answer, next)
          /\ answer.code \in {"STC_AUTH_SUCCESSFUL", "STC_AUTH_FAILED"}
    BY <1>6, AuthServes
  <2> QED
    BY <2>1, <2>2, KeysAnswered DEF NoFile
<1>7. CASE TrySendFile
  <2>1. UNCHANGED <<sessionKey, clientKey, made, overwritten>>
        /\ state # "Closed"
    BY <1>7 DEF TrySendFile, clientVars
  <2>2. PICK answer \in Answer :
           /\ Write(answer, "WaitingForQueries")
           /\ answer.id = buffer[2].id
           /\ \/ /\ answer.code = "STC_FILE" /\ answer.key = sessionKey
                 /\ Legible
              \/ /\ answer.code \in NoFile
                 /\ ~ (expect > 0 /\ Legible /\ made[answer.id].good)
    BY <1>7, FileServes
  <2>3. /\ ~ overwritten
        /\ answer.code \in NoFile
        /\ made[answer.id].good
        => made[answer.id].key # sessionKey
    <3> SUFFICES ASSUME ~ overwritten, answer.code \in NoFile,
                        made[answer.id].good
                 PROVE  made[answer.id].key # sessionKey
      OBVIOUS
    <3>1. Served /\ Asked("CTS_FILE_REQUEST")
      BY <1>7 DEF Orderly, InOrder, AwaitingKey, AwaitingAuth, AwaitingFile,
                  TrySendFile, Forms, Awaiting
    <3>2. /\ answer.id = Len(made) /\ expect = made[Len(made)].blocks
          /\ Legible <=> expect = 0 \/ made[Len(made)].key = sessionKey
      BY <2>2, <3>1, ServedIsLegible
    <3>3. made[Len(made)] \in Request
      BY <1>1, <3>1, Lengths, ElementOfSeq DEF DataOK, Asked
    <3>4. expect > 0
      BY <3>1, <3>2, <3>3 DEF Request, Asked
    <3> QED
      BY <2>2, <3>2, <3>4 DEF NoFile
  <2>4. /\ answer.code # "STC_SESSION_KEY"
        /\ answer.code = "STC_FILE" => answer.key = sessionKey
    BY <2>2 DEF NoFile
  <2> QED
    BY <2>1, <2>2, <2>3, <2>4, KeysAnswered
<1>8. CASE SessionKeyTimer
  <2>1. /\ UNCHANGED <<clientKey, made>>
        /\ UpdateKey("WaitingForQueries")
        /\ overwritten => overwritten'
    BY <1>8 DEF SessionKeyTimer, clientVars
  <2>2. "WaitingForQueries" \in States \ {"Closed"}
    BY DEF States, Waiting
  <2> QED
    BY <2>1, <2>2, KeysUpdated
<1>9. CASE ReadAsData
  BY <1>9 DEF ReadAsData
<1> QED
  BY <1>2, <1>3, <1>4, <1>5, <1>6, <1>7, <1>8, <1>9 DEF Next

\* The keys agree for ever.
LEMMA KeysInvariance == Spec => []KeysInv
PROOF
<1>1. Init => KeysInv
  BY KeysInit
<1>2. /\ TypeInv /\ Orderly /\ TypeInv'
      /\ KeysInv /\ [Next]_vars
      => KeysInv'
  BY KeysNext DEF TypeInv
<1> QED
  BY <1>1, <1>2, OrderlyInvariance, PTL DEF Spec

\* The key the session has is the one the client holds once it has read what
\* is on its way, however many updates cross however many requests, and in
\* spite of inputs that were overwritten.
THEOREM KeysCorrect == Spec => []KeysAgree
PROOF
<1>1. KeysInv => KeysAgree
  BY DEF KeysInv, KeysHeld, AgreeNow, KeysAgree
<1> QED
  BY <1>1, KeysInvariance, PTL

\* Every file on its way will be decoded with the key it was encoded with.
THEOREM FilesCorrect == Spec => []FilesDecipherable
PROOF
<1>1. KeysInv => FilesDecipherable
  BY DEF KeysInv, KeysHeld, DecipherableNow, FilesDecipherable
<1> QED
  BY <1>1, KeysInvariance, PTL

\* As long as no input was overwritten, a file that exists is refused only
\* behind an update that the client had not read when it asked.
THEOREM RefusalsCorrect == Spec => []RefusalFollowsUpdate
PROOF
<1>1. TypeInv /\ Orderly /\ KeysInv => RefusalFollowsUpdate
  <2> SUFFICES ASSUME DataInv, Orderly, form = "AwaitData", ~ overwritten
               PROVE  RefusalFollowsUpdate
    BY DEF TypeInv, KeysInv, KeysHeld, RefusalFollowsUpdate
  <2>1. OnlyUpdates /\ DOMAIN down = 1 .. Len(down)
    BY Lengths DEF Orderly, InOrder, DataInv
  <2> QED
    BY <2>1 DEF RefusalFollowsUpdate, OnlyUpdates, IsUpdate, NoFile
<1> QED
  BY <1>1, KeysInvariance, OrderlyInvariance, PTL

-----------------------------------------------------------------------------
(* The order of files. Requests are cut from the stream in the order they  *)
(* were made, so that what is still to be served was asked for after       *)
(* everything that was sent.                                               *)

\* If the part is one that names a request to serve, it is a later one.
Later(part, id) == part.part = "rest" => id < part.id

RestsInOrder ==
  /\ \A i, j \in 1 .. Len(up) :
       i < j /\ up[i].part = "rest" => Later(up[j], up[i].id)
  /\ \A i \in 1 .. Len(buffer), j \in 1 .. Len(up) :
       buffer[i].part = "rest" => Later(up[j], buffer[i].id)

FilesPrecede ==
  \A i \in 1 .. Len(down) : down[i].code = "STC_FILE" =>
    /\ down[i].id <= Len(made)
    /\ \A j \in 1 .. Len(up) : Later(up[j], down[i].id)
    /\ \A j \in 1 .. Len(buffer) : Later(buffer[j], down[i].id)

FilesInOrder ==
  \A i, j \in 1 .. Len(down) :
    /\ i < j
    /\ down[i].code = "STC_FILE"
    /\ down[j].code = "STC_FILE"
    => down[i].id < down[j].id

OrderInv == RestsInOrder /\ FilesPrecede /\ FilesInOrder

\* A step that makes no request and takes m parts off the front of the stream:
\* what names a request in the buffer was there, or is one of those parts.
LEMMA RestsKept ==
  ASSUME DataInv, RestsInOrder,
         NEW m \in Nat, m <= Len(up), Len(up') = Len(up) - m,
         \A i \in 1 .. Len(up') : up'[i] = up[i + m],
         \A i \in 1 .. Len(buffer') :
           buffer'[i].part = "rest" =>
             \/ i \in 1 .. Len(buffer) /\ buffer'[i] = buffer[i]
             \/ \E j \in 1 .. m : buffer'[i] = up[j]
  PROVE  RestsInOrder'
PROOF
<1>1. /\ Len(up) \in Nat
      /\ \A i \in 1 .. Len(up') : i + m \in 1 .. Len(up)
  BY Lengths DEF DataInv
<1>2. \A i, j \in 1 .. Len(up') :
        i < j /\ up'[i].part = "rest" => Later(up'[j], up'[i].id)
  <2> SUFFICES ASSUME NEW i \in 1 .. Len(up'), NEW j \in 1 .. Len(up'),
                      i < j, up'[i].part = "rest"
               PROVE  Later(up'[j], up'[i].id)
    OBVIOUS
  <2>1. /\ i + m \in 1 .. Len(up) /\ j + m \in 1 .. Len(up)
        /\ i + m < j + m /\ up'[i] = up[i + m] /\ up'[j] = up[j + m]
    BY <1>1
  <2> QED
    BY <2>1 DEF RestsInOrder
<1>3. ASSUME NEW i \in 1 .. Len(buffer'), NEW j \in 1 .. Len(up'),
             buffer'[i].part = "rest"
      PROVE  Later(up'[j], buffer'[i].id)
  <2>1. CASE i \in 1 .. Len(buffer) /\ buffer'[i] = buffer[i]
    BY <1>1, <1>3, <2>1 DEF RestsInOrder
  <2>2. CASE \E l \in 1 .. m : buffer'[i] = up[l]
    <3>1. PICK l \in 1 .. m : buffer'[i] = up[l]
      BY <2>2
    <3>2. /\ l \in 1 .. Len(up) /\ j + m \in 1 .. Len(up) /\ l < j + m
          /\ up'[j] = up[j + m]
      BY <1>1
    <3> QED
      BY <1>3, <3>1, <3>2 DEF RestsInOrder
  <2> QED
    BY <1>3, <2>1, <2>2
<1> QED
  BY <1>2, <1>3 DEF RestsInOrder, Later

\* A step that makes no request and sends no file, and at most takes parts or
\* messages off the front of a stream.
LEMMA OrderKept ==
  ASSUME DataInv, OrderInv, UNCHANGED made,
         NEW m \in Nat, m <= Len(up), Len(up') = Len(up) - m,
         \A i \in 1 .. Len(up') : up'[i] = up[i + m],
         NEW n \in Nat, n <= Len(down), Len(down') = Len(down) - n,
         \A i \in 1 .. Len(down') : down'[i] = down[i + n],
         \A i \in 1 .. Len(buffer') :
           buffer'[i].part = "rest" =>
             \/ i \in 1 .. Len(buffer) /\ buffer'[i] = buffer[i]
             \/ \E j \in 1 .. m : buffer'[i] = up[j]
  PROVE  OrderInv'
PROOF
<1>1. /\ Len(up) \in Nat /\ Len(down) \in Nat
      /\ \A i \in 1 .. Len(up') : i + m \in 1 .. Len(up)
      /\ \A i \in 1 .. Len(down') : i + n \in 1 .. Len(down)
  BY Lengths DEF DataInv
<1>2. RestsInOrder'
  BY RestsKept DEF OrderInv
<1>3. FilesPrecede'
  <2> SUFFICES ASSUME NEW i \in 1 .. Len(down'), down'[i].code = "STC_FILE"
               PROVE  /\ down'[i].id <= Len(made')
                      /\ \A j \in 1 .. Len(up') : Later(up'[j], down'[i].id)
                      /\ \A j \in 1 .. Len(buffer') :
                           Later(buffer'[j], down'[i].id)
    BY DEF FilesPrecede, Later
  <2> DEFINE id == down'[i].id
  <2>1. i + n \in 1 .. Len(down) /\ down'[i] = down[i + n]
    BY <1>1
  <2>2. /\ id <= Len(made)
        /\ \A j \in 1 .. Len(up) : Later(up[j], id)
        /\ \A j \in 1 .. Len(buffer) : Later(buffer[j], id)
    BY <2>1 DEF OrderInv, FilesPrecede
  <2>3. \A j \in 1 .. Len(up') : Later(up'[j], down'[i].id)
    BY <1>1, <2>2
  <2>4. \A j \in 1 .. Len(buffer') : Later(buffer'[j], down'[i].id)
    <3> SUFFICES ASSUME NEW j \in 1 .. Len(buffer'), buffer'[j].part = "rest"
                 PROVE  Later(buffer'[j], down'[i].id)
      BY DEF Later
    <3>1. CASE j \in 1 .. Len(buffer) /\ buffer'[j] = buffer[j]
      BY <2>2, <3>1
    <3>2. CASE \E l \in 1 .. m : buffer'[j] = up[l]
      BY <1>1, <2>2, <3>2
    <3> QED
      BY <3>1, <3>2
  <2> QED
    BY <2>2, <2>3, <2>4
<1>4. FilesInOrder'
  <2> SUFFICES ASSUME NEW i \in 1 .. Len(down'), NEW j \in 1 .. Len(down'),
                      i < j, down'[i].code = "STC_FILE",
                      down'[j].code = "STC_FILE"
               PROVE  down'[i].id < down'[j].id
    BY DEF FilesInOrder
  <2>1. /\ i + n \in 1 .. Len(down) /\ j + n \in 1 .. Len(down)
        /\ i + n < j + n
        /\ down'[i] = down[i + n] /\ down'[j] = down[j + n]
    BY <1>1
  <2> QED
    BY <2>1 DEF OrderInv, FilesInOrder
<1> QED
  BY <1>2, <1>3, <1>4 DEF OrderInv

\* A step that sends a message and keeps nothing in the buffer.
LEMMA OrderAppended ==
  ASSUME DataInv, OrderInv, UNCHANGED made,
         NEW m \in Nat, m <= Len(up), Len(up') = Len(up) - m,
         \A i \in 1 .. Len(up') : up'[i] = up[i + m],
         \A i \in 1 .. Len(buffer') : buffer'[i].part # "rest",
         Len(down') = Len(down) + 1,
         \A i \in 1 .. Len(down) : down'[i] = down[i],
         NEW answer, down'[Len(down) + 1] = answer,
         answer.code = "STC_FILE" =>
           /\ answer.id <= Len(made)
           /\ \A j \in 1 .. Len(up) : Later(up[j], answer.id)
           /\ \A i \in 1 .. Len(down) :
                down[i].code = "STC_FILE" => down[i].id < answer.id
  PROVE  OrderInv'
PROOF
<1>1. /\ Len(up) \in Nat /\ Len(down) \in Nat
      /\ \A i \in 1 .. Len(up') : i + m \in 1 .. Len(up)
      /\ \A i \in 1 .. Len(down') : i \in 1 .. Len(down) \/ i = Len(down) + 1
  BY Lengths DEF DataInv
<1>2. RestsInOrder'
  BY RestsKept DEF OrderInv
<1>3. FilesPrecede'
  <2> SUFFICES ASSUME NEW i \in 1 .. Len(down'), down'[i].code = "STC_FILE"
               PROVE  /\ down'[i].id <= Len(made')
                      /\ \A j \in 1 .. Len(up') : Later(up'[j], down'[i].id)
                      /\ \A j \in 1 .. Len(buffer') :
                           Later(buffer'[j], down'[i].id)
    BY DEF FilesPrecede, Later
  <2> DEFINE id == down'[i].id
  <2>1. /\ id <= Len(made)
        /\ \A j \in 1 .. Len(up) : Later(up[j], id)
    <3>1. CASE i \in 1 .. Len(down)
      BY <3>1 DEF OrderInv, FilesPrecede
    <3>2. CASE i = Len(down) + 1
      BY <3>2
    <3> QED
      BY <1>1, <3>1, <3>2
  <2>2. \A j \in 1 .. Len(up') : Later(up'[j], id)
    BY <1>1, <2>1
  <2>3. \A j \in 1 .. Len(buffer') : Later(buffer'[j], id)
    BY DEF Later
  <2> QED
    BY <2>1, <2>2, <2>3
<1>4. FilesInOrder'
  <2> SUFFICES ASSUME NEW i \in 1 .. Len(down'), NEW j \in 1 .. Len(down'),
                      i < j, down'[i].code = "STC_FILE",
                      down'[j].code = "STC_FILE"
               PROVE  down'[i].id < down'[j].id
    BY DEF FilesInOrder
  <2>1. i \in 1 .. Len(down) /\ down'[i] = down[i]
    BY <1>1
  <2>2. CASE j \in 1 .. Len(down)
    BY <2>1, <2>2 DEF OrderInv, FilesInOrder
  <2>3. CASE j = Len(down) + 1
    BY <2>1, <2>3
  <2> QED
    BY <1>1, <2>2, <2>3
<1> QED
  BY <1>2, <1>3, <1>4 DEF OrderInv

\* A new request is later than everything.
LEMMA OrderCalled ==
  ASSUME DataInv, OrderInv, NEW request \in Request, Send(request)
  PROVE  OrderInv'
PROOF
<1>1. DataOK /\ PartsAreKnown /\ Len(up) \in Nat /\ Len(down) \in Nat
      /\ Len(made) \in Nat /\ request.blocks \in Nat
  BY Lengths, BoundsAssumption DEF DataInv, Request, BoundsAssumption
<1>2. UNCHANGED <<buffer, down>>
  BY DEF Send, serverVars
<1>3. /\ Len(made') = Len(made) + 1
      /\ Len(up') = Len(up) + 2 + request.blocks
      /\ \A i \in 1 .. Len(up) : up'[i] = up[i]
      /\ \A i \in Len(up) + 1 .. Len(up) + 2 + request.blocks :
           up'[i] = PartAt(Len(made) + 1, i - Len(up))
  BY <1>1, BoundsAssumption, PutParts DEF Send
<1>4. \A i \in 1 .. Len(up') :
        \/ i \in 1 .. Len(up) /\ up'[i] = up[i]
        \/ /\ i > Len(up) /\ up'[i].id = Len(made) + 1
           /\ up'[i].part = "rest" => i = Len(up) + 2
  <2> SUFFICES ASSUME NEW i \in 1 .. Len(up'), i > Len(up)
               PROVE  /\ up'[i].id = Len(made) + 1
                      /\ up'[i].part = "rest" => i = Len(up) + 2
    BY <1>1, <1>3
  <2>1. i \in Len(up) + 1 .. Len(up) + 2 + request.blocks
    BY <1>1, <1>3
  <2>2. up'[i] = PartAt(Len(made) + 1, i - Len(up))
    BY <1>3, <2>1
  <2>3. CASE i - Len(up) = 2
    BY <1>1, <2>2, <2>3 DEF PartAt
  <2>4. CASE i - Len(up) # 2
    BY <1>1, <2>2, <2>4 DEF PartAt
  <2> QED
    BY <2>3, <2>4
<1>5. RestsInOrder'
  <2>1. ASSUME NEW i \in 1 .. Len(up'), NEW j \in 1 .. Len(up'),
               i < j, up'[i].part = "rest", up'[j].part = "rest"
        PROVE  up'[i].id < up'[j].id
    <3>1. CASE j \in 1 .. Len(up)
      <4>1. i \in 1 .. Len(up)
        BY <1>1, <2>1, <3>1
      <4> QED
        BY <1>3, <2>1, <3>1, <4>1 DEF OrderInv, RestsInOrder, Later
    <3>2. CASE up'[j].id = Len(made) + 1 /\ j = Len(up) + 2
      <4>1. i \in 1 .. Len(up) /\ up'[i] = up[i]
        BY <1>1, <1>4, <2>1, <3>2
      <4>2. up[i].id \in 1 .. Len(made)
        BY <1>1, <2>1, <4>1 DEF PartsAreKnown, Known
      <4> QED
        BY <1>1, <3>2, <4>1, <4>2
    <3> QED
      BY <1>4, <2>1, <3>1, <3>2
  <2>2. ASSUME NEW i \in 1 .. Len(buffer), NEW j \in 1 .. Len(up'),
               buffer[i].part = "rest", up'[j].part = "rest"
        PROVE  buffer[i].id < up'[j].id
    <3>1. CASE j \in 1 .. Len(up)
      BY <1>3, <2>2, <3>1 DEF OrderInv, RestsInOrder, Later
    <3>2. CASE up'[j].id = Len(made) + 1
      <4>1. buffer[i].id \in 1 .. Len(made)
        BY <1>1, <2>2 DEF PartsAreKnown, Known
      <4> QED
        BY <1>1, <3>2, <4>1
    <3> QED
      BY <1>4, <3>1, <3>2
  <2> QED
    BY <1>2, <2>1, <2>2 DEF RestsInOrder, Later
<1>6. FilesPrecede'
  <2> SUFFICES ASSUME NEW i \in 1 .. Len(down), down[i].code = "STC_FILE"
               PROVE  /\ down[i].id <= Len(made')
                      /\ \A j \in 1 .. Len(up') : Later(up'[j], down[i].id)
                      /\ \A j \in 1 .. Len(buffer) :
                           Later(buffer[j], down[i].id)
    BY <1>2 DEF FilesPrecede, Later
  <2>1. /\ down[i].id <= Len(made)
        /\ \A j \in 1 .. Len(up) : Later(up[j], down[i].id)
        /\ \A j \in 1 .. Len(buffer) : Later(buffer[j], down[i].id)
    BY DEF OrderInv, FilesPrecede
  <2>2. down[i].id \in Nat
    <3>1. down[i] \in Answer
      BY <1>1, ElementOfSeq DEF DataOK
    <3> QED
      BY <3>1, BoundsAssumption DEF Answer, BoundsAssumption
  <2>3. \A j \in 1 .. Len(up') : Later(up'[j], down[i].id)
    BY <1>1, <1>4, <2>1, <2>2 DEF Later
  <2> QED
    BY <1>1, <1>3, <2>1, <2>2, <2>3
<1>7. FilesInOrder'
  BY <1>2 DEF OrderInv, FilesInOrder
<1> QED
  BY <1>5, <1>6, <1>7 DEF OrderInv

\* Nothing is on its way at first.
LEMMA OrderInit == Init => OrderInv
PROOF
<1> SUFFICES ASSUME Init PROVE OrderInv
  OBVIOUS
<1>1. Len(down) = 0 /\ Len(up) = 0 /\ Len(buffer) = 0
  BY EmptySeq DEF Init
<1> QED
  BY <1>1 DEF OrderInv, RestsInOrder, FilesPrecede, FilesInOrder

\* The file being sent is the answer to a later request than any file before,
\* and to an earlier one than any that is still to be served.
LEMMA SentInOrder ==
  ASSUME DataInv, OrderInv, state = "SendingFile", Legible
  PROVE  /\ buffer[2].id <= Len(made)
         /\ \A j \in 1 .. Len(up) : Later(up[j], buffer[2].id)
         /\ \A i \in 1 .. Len(down) :
              down[i].code = "STC_FILE" => down[i].id < buffer[2].id
PROOF
<1>1. /\ 2 \in 1 .. Len(buffer) /\ buffer[2].part = "rest"
      /\ buffer[2].id \in 1 .. Len(made)
  <2>1. Len(buffer) = 2 /\ buffer[2].id \in 1 .. Len(made)
    BY ServedIsKnown
  <2>2. buffer[2].part = "rest"
    BY DEF Legible
  <2> QED
    BY <2>1, <2>2
<1>2. Len(made) \in Nat
  BY Lengths DEF DataInv
<1>3. \A j \in 1 .. Len(up) : Later(up[j], buffer[2].id)
  BY <1>1 DEF OrderInv, RestsInOrder
<1>4. \A i \in 1 .. Len(down) :
        down[i].code = "STC_FILE" => down[i].id < buffer[2].id
  BY <1>1 DEF OrderInv, FilesPrecede, Later
<1> QED
  BY <1>1, <1>2, <1>3, <1>4

\* Every step keeps the order of requests and files.
LEMMA OrderNext ==
  ASSUME DataInv, DataInv', OrderInv, [Next]_vars
  PROVE  OrderInv'
PROOF
<1>1. DataOK /\ Len(up) \in Nat /\ Len(down) \in Nat /\ Len(buffer) \in Nat
  BY Lengths DEF DataInv
<1>2. CASE ConnectToServer \/ Authenticate \/ LoadFile
  BY <1>1, <1>2, BoundsAssumption, CallsAreRequests, OrderCalled
<1>3. CASE ReadFirstKey \/ ReadAuthAnswer \/ ReadFileAnswer \/ ReadAsData
  <2>1. UNCHANGED <<made, up, buffer>> /\ down # <<>> /\ down' = Tail(down)
    BY <1>3 DEF ReadFirstKey, ReadAuthAnswer, ReadFileAnswer, ReadAsData,
                Receives, serverVars
  <2>2. /\ 1 <= Len(down) /\ Len(down') = Len(down) - 1
        /\ \A i \in 1 .. Len(down') : down'[i] = down[i + 1]
    BY <1>1, <2>1, ReceivedParts
  <2>3. /\ 0 <= Len(up) /\ Len(up') = Len(up) - 0
        /\ \A i \in 1 .. Len(up') : up'[i] = up[i + 0]
    BY <1>1, <2>1
  <2> QED
    BY <2>1, <2>2, <2>3, OrderKept
<1>4. CASE UNCHANGED <<made, up, buffer, down>>
  BY <1>4 DEF OrderInv, RestsInOrder, FilesPrecede, FilesInOrder, Later
<1>5. CASE ReceivePart
  <2>1. UNCHANGED <<made, down>>
    BY <1>5 DEF ReceivePart, clientVars
  <2>2. /\ 1 <= Len(up) /\ Len(up') = Len(up) - 1
        /\ \A i \in 1 .. Len(up') : up'[i] = up[i + 1]
        /\ Len(buffer') = Len(buffer) + 1
        /\ \A i \in 1 .. Len(buffer) : buffer'[i] = buffer[i]
        /\ buffer'[Len(buffer')] = up[1]
    BY <1>1, <1>5, ArrivedParts
  <2>3. \A i \in 1 .. Len(buffer') :
          buffer'[i].part = "rest" =>
            \/ i \in 1 .. Len(buffer) /\ buffer'[i] = buffer[i]
            \/ \E j \in 1 .. 1 : buffer'[i] = up[j]
    BY <1>1, <2>2
  <2>4. /\ 0 <= Len(down) /\ Len(down') = Len(down) - 0
        /\ \A i \in 1 .. Len(down') : down'[i] = down[i + 0]
    BY <1>1, <2>1
  <2>5. 0 \in Nat /\ 1 \in Nat
    OBVIOUS
  <2> QED
    BY <2>1, <2>2, <2>3, <2>4, <2>5, OrderKept, Zenon
\* A key update, after an input or from the timer: nothing that names a
\* request is left in the buffer.
<1>6. ASSUME NEW next, UpdateKey(next), UNCHANGED <<made, up>>,
             \A i \in 1 .. Len(buffer') : buffer'[i].part # "rest"
      PROVE  OrderInv'
  <2>1. /\ 0 <= Len(up) /\ Len(up') = Len(up) - 0
        /\ \A i \in 1 .. Len(up') : up'[i] = up[i + 0]
    BY <1>1, <1>6
  <2>2. CASE /\ Len(down') = Len(down) + 1
             /\ \A i \in 1 .. Len(down) : down'[i] = down[i]
             /\ down'[Len(down) + 1].code = "STC_SESSION_KEY"
    BY <1>6, <2>1, <2>2, OrderAppended
  <2>3. CASE down' = down
    <3>1. /\ 0 <= Len(down) /\ Len(down') = Len(down) - 0
          /\ \A i \in 1 .. Len(down') : down'[i] = down[i + 0]
      BY <1>1, <2>3
    <3> QED
      BY <1>6, <2>1, <3>1, OrderKept
  <2> QED
    BY <1>1, <1>6, <2>2, <2>3, UpdateEffect
<1>7. CASE Consume
  <2>1. UNCHANGED <<made, up>>
    BY <1>7 DEF Consume, clientVars
  <2>2. \/ UNCHANGED <<buffer, down>>
        \/ /\ buffer' = <<>>
           /\ UpdateKey("WaitingForAuth") \/ UpdateKey("WaitingForQueries")
    BY <1>7 DEF Consume
  <2>3. buffer' = <<>> => \A i \in 1 .. Len(buffer') : buffer'[i].part # "rest"
    BY EmptySeq
  <2> QED
    BY <1>4, <1>6, <2>1, <2>2, <2>3
<1>8. CASE SessionKeyTimer
  <2>1. UNCHANGED <<made, up>> /\ UpdateKey("WaitingForQueries")
    BY <1>8 DEF SessionKeyTimer, clientVars
  <2>2. \A i \in 1 .. Len(buffer') : buffer'[i].part # "rest"
    BY <1>1, <1>8, OverwrittenBuffer DEF SessionKeyTimer
  <2> QED
    BY <1>6, <2>1, <2>2
<1>9. CASE ReadAndValidateAuth \/ TrySendFile
  <2>1. UNCHANGED made /\ BodyArrived /\ TakeBody
    BY <1>9 DEF ReadAndValidateAuth, TrySendFile, clientVars
  <2>2. /\ buffer' = <<>> /\ expect \in Nat
        /\ Len(up') = Len(up) - expect /\ expect <= Len(up)
        /\ \A i \in 1 .. Len(up') : up'[i] = up[i + expect]
    BY <1>1, <2>1, BoundsAssumption, TakenParts DEF BodyArrived
  <2>3. PICK m \in Nat : m = expect
    BY <2>2
  <2>4. \A i \in 1 .. Len(buffer') : buffer'[i].part # "rest"
    BY <2>2, EmptySeq
  <2>5. PICK answer \in Answer, next \in Waiting :
          /\ Write(answer, next)
          /\ answer.code = "STC_FILE" =>
               /\ answer.id <= Len(made)
               /\ \A j \in 1 .. Len(up) : Later(up[j], answer.id)
               /\ \A i \in 1 .. Len(down) :
                    down[i].code = "STC_FILE" => down[i].id < answer.id
    <3>1. CASE ReadAndValidateAuth
      BY <3>1, AuthServes
    <3>2. CASE TrySendFile
      <4>1. PICK answer \in Answer :
              /\ Write(answer, "WaitingForQueries")
              /\ answer.id = buffer[2].id
              /\ answer.code = "STC_FILE" => Legible
        BY <3>2, FileServes DEF NoFile
      <4>2. state = "SendingFile" /\ "WaitingForQueries" \in Waiting
        BY <3>2 DEF TrySendFile, Waiting
      <4> QED
        BY <4>1, <4>2, SentInOrder
    <3> QED
      BY <1>9, <3>1, <3>2
  <2>6. CASE /\ Len(down') = Len(down) + 1
             /\ \A i \in 1 .. Len(down) : down'[i] = down[i]
             /\ down'[Len(down) + 1] = answer
    BY <2>1, <2>2, <2>3, <2>4, <2>5, <2>6, OrderAppended
  <2>7. CASE down' = down
    <3>1. /\ 0 <= Len(down) /\ Len(down') = Len(down) - 0
          /\ \A i \in 1 .. Len(down') : down'[i] = down[i + 0]
      BY <1>1, <2>7
    <3> QED
      BY <2>1, <2>2, <2>3, <2>4, <3>1, OrderKept
  <2> QED
    BY <1>1, <2>5, <2>6, <2>7, WriteEffect
<1>10. CASE ReadFails \/ Reset \/ EndOfStream \/ UNCHANGED vars
  <2>1. UNCHANGED <<made, up, buffer, down>>
    BY <1>10 DEF ReadFails, Reset, EndOfStream, vars, serverVars, clientVars
  <2> QED
    BY <1>4, <2>1
<1> QED
  BY <1>2, <1>3, <1>5, <1>7, <1>8, <1>9, <1>10 DEF Next

\* Whatever the client reads answers what it waits for until an input is
\* overwritten, and no file ever comes twice or out of turn.
THEOREM AnswersCorrect == Spec => []FileAnswersRequest
PROOF
<1>1. Init => OrderInv
  BY OrderInit
<1>2. TypeInv /\ Orderly /\ TypeInv' /\ OrderInv /\ [Next]_vars => OrderInv'
  BY OrderNext DEF TypeInv
<1>3. TypeInv /\ Orderly /\ OrderInv => FileAnswersRequest
  <2> SUFFICES ASSUME DataInv, form \in Forms, Orderly, OrderInv
               PROVE  FileAnswersRequest
    BY DEF TypeInv
  <2>1. DOMAIN down = 1 .. Len(down) /\ DataOK
    BY Lengths DEF DataInv
  <2>2. \A i, j \in DOMAIN down :
          i < j /\ down[i].code = "STC_FILE" /\ down[j].code = "STC_FILE"
          => down[i].id < down[j].id
    BY <2>1 DEF OrderInv, FilesInOrder
  <2>3. ASSUME ~ overwritten, NEW i \in DOMAIN down,
               down[i].code \in FileCodes
        PROVE  /\ form = "AwaitFile"
               /\ down[i].id = Len(made)
               /\ \A j \in DOMAIN down : j # i => IsUpdate(j)
    <3>1. ~ IsUpdate(i) /\ down[i].code # "STC_AUTH_FAILED"
          /\ down[i].code # "STC_AUTH_SUCCESSFUL"
      BY <2>3 DEF IsUpdate, FileCodes, NoFile
    <3>2. InOrder /\ ~ OnlyUpdates /\ Len(down) > 0
      BY <2>1, <2>3, <3>1, Lengths DEF Orderly, OnlyUpdates
    <3>3. form = "AwaitFile"
      BY <2>1, <2>3, <3>1, <3>2, Lengths
      DEF InOrder, AwaitingKey, AwaitingAuth, Forms, Awaiting
    <3>4. Answered
      BY <3>2, <3>3 DEF InOrder, AwaitingFile
    <3> QED
      BY <2>1, <2>3, <3>1, <3>3, <3>4 DEF Answered
  <2> QED
    BY <2>2, <2>3 DEF FileAnswersRequest, FileCodes
<1> QED
  BY <1>1, <1>2, <1>3, OrderlyInvariance, PTL DEF Spec
===============================================================================
