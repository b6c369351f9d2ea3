------------------------------- MODULE Session -------------------------------
(***************************************************************************)
(* The sessions of the file server (Lab2/Server/Session.cpp), each with    *)
(* its StateMachine (Lab2/Shared/StateMachine.cpp), seen from the server:  *)
(* which state a session is in, whether it has an asynchronous read        *)
(* outstanding, and when its object is created and deleted.                *)
(*                                                                         *)
(* A session is identified by the address of its heap object, as it is in  *)
(* the code: completion handlers capture "this" and timers are owned by    *)
(* "this", so an address that is freed and allocated again is the same     *)
(* identity to both.                                                       *)
(*                                                                         *)
(* What a client sends is arbitrary: every input the session waits for may *)
(* arrive with any code, and every write to a socket may fail.             *)
(***************************************************************************)
EXTENDS TimerService

CONSTANT
  SESSION_KEY_UPDATE_PERIOD   \* ticks of clock() between two session keys

ASSUME PeriodAssumption == SESSION_KEY_UPDATE_PERIOD \in Nat \ {0}

\* The addresses a Session may be allocated at: every timer is owned by one.
Address == CallbackOwnerId

VARIABLES
  state,    \* StateMachine::currentStateName_, or "Freed"/"Constructed"
  limit,    \* Session::asyncWaitByteLimit_
  read,     \* the async_read of the object living at this address
  open,     \* may more input arrive: FALSE when the next thing read is the
            \* end of the stream, all bytes sent before it being received
  orphans   \* async_reads of deleted objects whose handler has yet to run

sessionVars == <<state, limit, read, open, orphans>>

\* MessageType, and one value for every other byte.
Code == {"STC_SESSION_KEY", "STC_FILE", "STC_UNABLE_TO_SEND_FILE",
         "STC_AUTH_SUCCESSFUL", "STC_AUTH_FAILED",
         "CTS_RSA_KEY", "CTS_FILE_REQUEST", "CTS_AUTH_REQUEST", "OTHER"}

\* The states a session waits for input in, and how many bytes it waits for.
Waiting == {"Initial", "WaitingForAuth", "WaitingForQueries"}
\* The states a session passes through inside one handler, blocked in a
\* synchronous read of its socket.
Serving == {"ValidatingAuth", "SendingFile"}
\* SessionKeyGeneration is passed through within a step, and rested in only
\* when an exception leaves it (RSAKeyReceived).
Name == Waiting \cup Serving
          \cup {"SessionKeyGeneration", "Freed", "Constructed"}

InputSize == [s \in Waiting |-> CASE s = "Initial" -> 49
                                  [] s = "WaitingForAuth" -> 11
                                  [] s = "WaitingForQueries" -> 10]

\* The codes a waiting state has an exit for.
Exits == [s \in Waiting |->
            CASE s = "Initial" -> {"CTS_RSA_KEY"}
              [] s = "WaitingForAuth" -> {"CTS_AUTH_REQUEST"}
              [] s = "WaitingForQueries" ->
                   {"STC_SESSION_KEY", "CTS_FILE_REQUEST"}]

live == {a \in Address : state[a] # "Freed"}
started == {a \in live : state[a] # "Constructed"}

SessionTypeOK ==
  /\ state \in [Address -> Name]
  /\ limit \in [Address -> {0} \cup {InputSize[s] : s \in Waiting}]
  /\ read \in [Address -> {"none", "pending", "done", "error"}]
  /\ open \in [Address -> BOOLEAN]
  /\ orphans \in [Address -> Nat]

-----------------------------------------------------------------------------
(* Creation and deletion.                                                  *)

\* Mutant: the code byte is not counted in the input waited for.
EnterWaitingShort(a, s) ==
  /\ limit[a] \in {0, InputSize[s]}
  /\ state' = [state EXCEPT ![a] = s]
  /\ limit' = [limit EXCEPT ![a] = InputSize[s] - 1]
  /\ read' = [read EXCEPT ![a] = IF limit[a] = 0 THEN "pending" ELSE @]
  /\ UNCHANGED <<open, orphans>>

\* AsyncWaitForInput on entering the waiting state s: it starts a read when
\* none is outstanding and leaves one of the same size alone. One of another
\* size aborts the session, like the failed write that precedes the wait in
\* every caller: that outcome is the Abort alternative of the callers.
EnterWaiting(a, s) ==
  /\ limit[a] \in {0, InputSize[s]}
  /\ state' = [state EXCEPT ![a] = s]
  /\ limit' = [limit EXCEPT ![a] = InputSize[s]]
  /\ read' = [read EXCEPT ![a] = IF limit[a] = 0 THEN "pending" ELSE @]
  /\ UNCHANGED <<open, orphans>>

\* Abort: the timers are removed and the object deleted, which closes its
\* socket. An async_read outstanding on it is cancelled, and its handler,
\* which holds "this", is still going to run unless it is running now
\* (handled is the number of handlers of this address on the stack).
Abort(a, handled) ==
  /\ callbacks' = RemoveAllTimers(callbacks, a)
  /\ state' = [state EXCEPT ![a] = "Freed"]
  /\ limit' = [limit EXCEPT ![a] = 0]
  /\ read' = [read EXCEPT ![a] = "none"]
  /\ open' = [open EXCEPT ![a] = FALSE]
  /\ orphans' = [orphans EXCEPT
                   ![a] = @ + (IF read[a] = "none" THEN 0 ELSE 1) - handled]

-----------------------------------------------------------------------------
(* The asynchronous read, as the io_context drives it.                     *)

\* The expected bytes have arrived.
ReadCompletes(a) ==
  /\ read[a] = "pending"
  /\ open[a]
  /\ read' = [read EXCEPT ![a] = "done"]
  /\ UNCHANGED <<state, limit, open, orphans>>

\* The stream has ended, or the connection has failed.
ReadFails(a) ==
  /\ read[a] = "pending"
  /\ ~ open[a]
  /\ read' = [read EXCEPT ![a] = "error"]
  /\ UNCHANGED <<state, limit, open, orphans>>

\* Mutant: the handler forgets to clear asyncWaitByteLimit_.
ReadHandlerKeepsLimit(a) ==
  /\ read[a] = "done"
  /\ read' = [read EXCEPT ![a] = "none"]
  /\ UNCHANGED <<state, limit, open, orphans>>

\* The handler of a completed read starts: no read is outstanding until the
\* state machine enters a waiting state again.
ReadHandlerBegins(a) ==
  /\ read[a] = "done"
  /\ read' = [read EXCEPT ![a] = "none"]
  /\ limit' = [limit EXCEPT ![a] = 0]
  /\ UNCHANGED <<state, open, orphans>>

-----------------------------------------------------------------------------
(* StateMachine::Consume (code) inside that handler, and the enter function*)
(* of the state it leads to. Each action ends in a waiting state, in a     *)
(* blocking read, in the deletion of the session, or with an exception.    *)

\* ReadRSAKey; SessionKeyGeneration; WriteSessionKey. A public key whose n is
\* zero makes RSA::Encode divide by zero (powm): the exception leaves poll and
\* is caught by main without an Abort, so the session is stranded in
\* SessionKeyGeneration, with neither a read nor a timer.
RSAKeyReceived(a, code) ==
  /\ state[a] = "Initial"
  /\ code = "CTS_RSA_KEY"
  /\ \/ EnterWaiting(a, "WaitingForAuth") /\ UNCHANGED timerVars
     \/ Abort(a, 0) /\ UNCHANGED <<clock, current, reschedule>>
     \/ /\ state' = [state EXCEPT ![a] = "SessionKeyGeneration"]
        /\ UNCHANGED <<limit, read, open, orphans, timerVars>>

\* Mutant: the next wait is started before the request is served.
AuthRequestServedLate(a, code) ==
  /\ state[a] = "WaitingForAuth"
  /\ code = "CTS_AUTH_REQUEST"
  /\ state' = [state EXCEPT ![a] = "ValidatingAuth"]
  /\ limit' = [limit EXCEPT ![a] = InputSize["WaitingForAuth"]]
  /\ read' = [read EXCEPT ![a] = "pending"]
  /\ UNCHANGED <<open, orphans, timerVars>>

\* The read of the login and password blocks the server thread.
AuthRequestReceived(a, code) ==
  /\ state[a] = "WaitingForAuth"
  /\ code = "CTS_AUTH_REQUEST"
  /\ state' = [state EXCEPT ![a] = "ValidatingAuth"]
  /\ UNCHANGED <<limit, read, open, orphans, timerVars>>

\* A new session key is generated and written on the client's request too.
SessionKeyRequested(a, code) ==
  /\ state[a] = "WaitingForQueries"
  /\ code = "STC_SESSION_KEY"
  /\ \/ EnterWaiting(a, "WaitingForQueries") /\ UNCHANGED timerVars
     \/ Abort(a, 0) /\ UNCHANGED <<clock, current, reschedule>>

\* The read of the file name blocks the server thread.
FileRequestReceived(a, code) ==
  /\ state[a] = "WaitingForQueries"
  /\ code = "CTS_FILE_REQUEST"
  /\ state' = [state EXCEPT ![a] = "SendingFile"]
  /\ UNCHANGED <<limit, read, open, orphans, timerVars>>

\* UnsupportedCodeException is caught in the handler, which aborts.
UnsupportedCodeReceived(a, code) ==
  /\ state[a] \in Waiting
  /\ code \notin Exits[state[a]]
  /\ Abort(a, 0)
  /\ UNCHANGED <<clock, current, reschedule>>

\* Mutant: the period is forgotten.
StartTimerNow(queue, a) == AddTimer(queue, a, clock)

\* The timer that the state machine starts once its client is authenticated,
\* and the callback starts again every time it has run.
StartSessionKeyUpdateTimer(queue, a) ==
  AddTimer(queue, a, clock + SESSION_KEY_UPDATE_PERIOD)

\* Mutant: the timer starts when the request arrives, approved or not.
AuthAnsweredTimerFirst(a) ==
  /\ state[a] = "ValidatingAuth"
  /\ \E s \in {"WaitingForQueries", "WaitingForAuth"} : EnterWaiting(a, s)
  /\ callbacks' = StartSessionKeyUpdateTimer(callbacks, a)
  /\ UNCHANGED <<clock, current, reschedule>>

\* The login and password have been read, checked and answered.
AuthAnswered(a) ==
  /\ state[a] = "ValidatingAuth"
  /\ \/ /\ EnterWaiting(a, "WaitingForQueries")
        /\ callbacks' = StartSessionKeyUpdateTimer(callbacks, a)
     \/ /\ EnterWaiting(a, "WaitingForAuth")
        /\ UNCHANGED callbacks
  /\ UNCHANGED <<clock, current, reschedule>>

\* The file name has been read, and the file or the refusal written.
FileAnswered(a) ==
  /\ state[a] = "SendingFile"
  /\ EnterWaiting(a, "WaitingForQueries")
  /\ UNCHANGED timerVars

\* A synchronous read or write of a serving session failed.
ServingFails(a) ==
  /\ state[a] \in Serving
  /\ Abort(a, 0)
  /\ UNCHANGED <<clock, current, reschedule>>

-----------------------------------------------------------------------------
(* The callback of the session key timer c, already popped off the queue.  *)

\* It returns true having rekeyed, or false in a state that cannot rekey.
TimerCallbackReturns(c) ==
  LET a    == c.owner
      rest == callbacks \ {c}
  IN  /\ IF state[a] = "WaitingForQueries"
            THEN /\ EnterWaiting(a, "WaitingForQueries")
                 /\ callbacks' = StartSessionKeyUpdateTimer(rest, a)
                 /\ UNCHANGED reschedule
            ELSE /\ callbacks' = rest
                 /\ reschedule' = reschedule \cup {c}
                 /\ UNCHANGED sessionVars
      /\ UNCHANGED <<clock, current>>

\* WriteSessionKey failed: the session is aborted from inside Step, and the
\* exception leaves Step without queueing the reschedule list again.
TimerCallbackThrows(c) ==
  /\ state[c.owner] = "WaitingForQueries"
  /\ Abort(c.owner, 0)
  /\ current' = 0
  /\ reschedule' = {}
  /\ UNCHANGED clock

===============================================================================
