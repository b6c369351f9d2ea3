----------------------------- MODULE DummyExchange -----------------------------
(***************************************************************************)
(* The dummy client (Lab2/DummyClient/Main.cpp) in the place of the Qt     *)
(* client of Exchange: one script of a login and three requests for the    *)
(* same file, with one key update awaited between two requests. Its forms  *)
(* are the reads it blocks on; the session is that of Exchange.            *)
(***************************************************************************)
EXTENDS Exchange, FiniteSets

CONSTANT RequestsCount   \* requestsCount

ASSUME ScriptAssumption ==
  RequestsCount \in Nat \ {0} /\ MaxRequests = RequestsCount + 2

VARIABLE result  \* what main returned, "" while it runs

dummyVars == <<vars, result>>

DummyInit == Init /\ result = ""

-----------------------------------------------------------------------------

Return(code) == form' = "Closed" /\ result' = code

\* The message taken off the stream, and the next request of the script with
\* the key held after it; the file is there or not.
Respond(code, key, blocks) ==
  /\ clientKey' = key
  /\ \E good \in BOOLEAN :
       Put([code |-> code, key |-> key, blocks |-> blocks, good |-> good])

Connect == ConnectToServer /\ UNCHANGED result

\* Every read of the script takes the next message; what it gives up on ends it.
Takes ==
  /\ down # <<>>
  /\ down' = Tail(down)
  /\ UNCHANGED <<overwritten, serverVars>>

GiveUp == Return("1") /\ UNCHANGED <<clientKey, made, up>>

\* ReadSessionKey, then the login.
LogIn ==
  /\ form = "AwaitKey"
  /\ Takes
  /\ IF Head(down).code = "STC_SESSION_KEY"
       THEN /\ form' = "AwaitAuth" /\ UNCHANGED result
            /\ Respond("CTS_AUTH_REQUEST", Head(down).key, MaxBlocks)
       ELSE GiveUp

\* The answer to the login, then the first request.
RequestFirst ==
  /\ form = "AwaitAuth"
  /\ Takes
  /\ IF Head(down).code = "STC_AUTH_SUCCESSFUL"
       THEN /\ form' = "AwaitFile" /\ UNCHANGED result
            /\ Respond("CTS_FILE_REQUEST", clientKey, 1)
       ELSE GiveUp

\* Mutant: the last request but one is taken for the last.
AwaitsUpdateFewer == Len(made) - 2 < RequestsCount - 1

AwaitsUpdate == Len(made) - 2 < RequestsCount

\* Mutant: a refusal is read as a message of the length of a file's header that
\* needs nothing after it, and another update is passed over.
ReadFileSkips ==
  /\ form = "AwaitFile"
  /\ Takes
  /\ \/ Head(down).code = "STC_SESSION_KEY" /\ UNCHANGED <<form, result>>
     \/ /\ Head(down).code = "STC_FILE"
        /\ IF AwaitsUpdate THEN form' = "AwaitUpdate" /\ UNCHANGED result ELSE Return("0")
     \/ Head(down).code = "STC_UNABLE_TO_SEND_FILE" /\ Return("1")
     \/ Head(down).code = "DIRECTORY" /\ form' = "AwaitData" /\ UNCHANGED result
  /\ UNCHANGED <<clientKey, made, up>>

\* The header of the file and the file; after the last one the script is done.
\* Anything else of the length of a header ends it. A refusal is one byte: it
\* is read together with the beginning of the message after it. What follows
\* the header of a directory is waited for (Exchange!ReadAsData).
ReadFile ==
  /\ form = "AwaitFile"
  /\ Takes
  /\ \/ /\ Head(down).code = "STC_FILE"
        /\ IF AwaitsUpdate THEN form' = "AwaitUpdate" /\ UNCHANGED result ELSE Return("0")
     \/ Head(down).code = "STC_SESSION_KEY" /\ Return("1")
     \/ Head(down).code = "STC_UNABLE_TO_SEND_FILE" /\ Len(down) > 1 /\ Return("1")
     \/ Head(down).code = "DIRECTORY" /\ form' = "AwaitData" /\ UNCHANGED result
  /\ UNCHANGED <<clientKey, made, up>>

\* Mutant: the key of the update is not kept.
RequestNextStale ==
  /\ form = "AwaitUpdate"
  /\ Takes
  /\ IF Head(down).code = "STC_SESSION_KEY"
       THEN /\ form' = "AwaitFile" /\ UNCHANGED result
            /\ Respond("CTS_FILE_REQUEST", clientKey, 1)
       ELSE GiveUp

\* ReadSessionKey, then the next request.
RequestNext ==
  /\ form = "AwaitUpdate"
  /\ Takes
  /\ IF Head(down).code = "STC_SESSION_KEY"
       THEN /\ form' = "AwaitFile" /\ UNCHANGED result
            /\ Respond("CTS_FILE_REQUEST", Head(down).key, 1)
       ELSE GiveUp

\* The end of the stream, inside a message or before it: a read throws, and
\* main reports the exception and returns 0.
Throws ==
  /\ form \in Awaiting \cup {"AwaitUpdate"}
  /\ state = "Closed"
  /\ \/ down = <<>>
     \/ /\ form = "AwaitFile" /\ Len(down) = 1
        /\ Head(down).code = "STC_UNABLE_TO_SEND_FILE"
  /\ Return("exception")
  /\ UNCHANGED <<clientKey, made, up, down, overwritten, serverVars>>

\* The connection fails, with what is on its way to the client or some of it:
\* AbortOnFatalError in the handler of the read, or after a write.
ConnectionLost ==
  /\ form \notin {"ServerChooser", "Closed"} /\ state # "Closed"
  /\ state' = "Closed"
  /\ \E n \in 0 .. Len(down) : down' = SubSeq(down, 1, n)
  /\ UNCHANGED <<buffer, expect, sessionKey, clientVars, up, overwritten, result>>

ReadData == ReadAsData /\ UNCHANGED result

SessionStep ==
  /\ \/ ReceivePart \/ Consume
     \/ ReadAndValidateAuth \/ TrySendFile
     \/ SessionKeyTimer \/ EndOfStream
  /\ UNCHANGED result

DummyNext ==
  \/ Connect \/ LogIn \/ RequestFirst \/ ReadFile \/ ReadData \/ RequestNext
  \/ Throws \/ SessionStep \/ ConnectionLost

\* The script is one thread that reads what has arrived, the session runs what
\* is ready, and its timer fires again and again while it waits for queries.
DummyFairness ==
  /\ WF_dummyVars(\/ Connect \/ LogIn \/ RequestFirst \/ ReadFile \/ ReadData
                  \/ RequestNext \/ Throws)
  /\ WF_dummyVars(ReceivePart /\ UNCHANGED result)
  /\ WF_dummyVars(Consume /\ UNCHANGED result)
  /\ WF_dummyVars(ReadAndValidateAuth /\ UNCHANGED result)
  /\ WF_dummyVars(TrySendFile /\ UNCHANGED result)
  /\ WF_dummyVars(SessionKeyTimer /\ UNCHANGED result)

DummySpec == DummyInit /\ [][DummyNext]_dummyVars /\ DummyFairness

-----------------------------------------------------------------------------
(* Properties. *)

\* As long as the script runs, the keys agree as they do with the Qt client: it
\* keeps the key of every update it reads and goes on after.
ScriptKeysAgree == form # "Closed" => KeysAgree

\* The script gives up only because the login or a file is refused, or because
\* the timer has run ahead of it: with a key update after each file and none
\* elsewhere, the key of the n-th request is the n-th, and a newer one had been
\* sent before the last message it took (DummyClient/Main.cpp:165 and :217).
GivesUpOnlyForAReason ==
  result = "1" =>
    LET requests == Len(made) - 2
        unread == {i \in DOMAIN down : IsUpdate(i)}
    IN  \/ ~ made[Len(made)].good
        \/ sessionKey - Cardinality(unread) > IF requests = 0 THEN 1 ELSE requests

\* When the script returns 0 it has had all its files, each requested with a
\* key of its own, newer than the one before (DummyClient/Main.cpp:138, :217).
SuccessIsComplete ==
  result = "0" =>
    /\ Len(made) = RequestsCount + 2
    /\ \A i \in 3 .. Len(made) : made[i].good
    /\ \A i, j \in 3 .. Len(made) : i < j => made[i].key < made[j].key

\* The script ends, whatever is overwritten, refused or overtaken: it waits for
\* a file or for thirteen bytes that never come only until the next key update
\* or the end of the connection. Only when a request opened a directory may it
\* wait for the bytes announced as long as there is a connection
\* (DummyClient/Main.cpp:188, Session.cpp:411). (Of the MaxKeys keys it reads at
\* most one more than requests, so the bound is not what it waits for.)
ScriptEnds ==
  \/ <>(form = "Closed")
  \/ <>[](form = "AwaitData" /\ state # "Closed")
===============================================================================
