-------------------------------- MODULE Server --------------------------------
(***************************************************************************)
(* The file server: its single thread, which alternates between running    *)
(* the ready completion handlers of the io_context and TimerService::Step  *)
(* (Lab2/Server/Main.cpp), the accept loop (Lab2/Server/Server.cpp), and   *)
(* the sessions and timers of the modules Session and TimerService.        *)
(*                                                                         *)
(* One step of the model is one handler or one timer callback, except that *)
(* a handler stops where it blocks in a synchronous read of its socket.    *)
(* While it is blocked nothing else of the server runs.                    *)
(***************************************************************************)
EXTENDS Session

CONSTANT NoSession

ASSUME NoSessionAssumption == NoSession \notin Address

VARIABLES
  up,       \* FALSE once a handler of a deleted session was run
  loop,     \* where the main loop is: in io_context::poll or in Step
  running,  \* the session whose read handler is on the stack, or NoSession
  accept,   \* the async_accept: the session waiting for a peer, and its status
  stepAborts \* history: has a session ever been aborted inside Step

serverVars == <<up, loop, running, accept, stepAborts>>
vars == <<timerVars, sessionVars, serverVars>>

TypeOK ==
  /\ TimerTypeOK
  /\ SessionTypeOK
  /\ up \in BOOLEAN
  /\ loop \in {"Poll", "Step"}
  /\ running \in Address \cup {NoSession}
  /\ accept \in [session : Address,
                 status : {"pending", "done", "error"}]
  /\ stepAborts \in BOOLEAN

\* The constructor of Server has called StartAccept.
Init ==
  /\ TimerInit
  /\ \E a \in Address :
       /\ accept = [session |-> a, status |-> "pending"]
       /\ state = [b \in Address |-> IF b = a THEN "Constructed" ELSE "Freed"]
  /\ limit = [a \in Address |-> 0]
  /\ read = [a \in Address |-> "none"]
  /\ open = [a \in Address |-> FALSE]
  /\ orphans = [a \in Address |-> 0]
  /\ up = TRUE
  /\ loop = "Poll"
  /\ running = NoSession
  /\ stepAborts = FALSE

-----------------------------------------------------------------------------
(* Which handler the thread may start.                                     *)

Polling == up /\ loop = "Poll" /\ running = NoSession

\* Some completion handler is queued: poll does not return before it has run.
HandlerReady ==
  \/ accept.status # "pending"
  \/ \E a \in Address : read[a] \in {"done", "error"} \/ orphans[a] > 0

-----------------------------------------------------------------------------
(* The accept loop.                                                        *)

\* A client connects, or the accept fails. (Bound of the model: a client
\* connects only when Address has one left for the next session.)
AcceptCompletes ==
  /\ Polling
  /\ accept.status = "pending"
  /\ \/ /\ live # Address
        /\ accept' = [accept EXCEPT !.status = "done"]
     \/ accept' = [accept EXCEPT !.status = "error"]
  /\ UNCHANGED <<timerVars, sessionVars, up, loop, running, stepAborts>>

\* The accept handler: Session::Start enters Initial, then StartAccept
\* allocates the next session.
HandleAccept ==
  /\ Polling
  /\ accept.status = "done"
  /\ accept.session \in live
  /\ \E b \in Address \ live :
       LET a == accept.session IN
       /\ state' = [state EXCEPT ![a] = "Initial", ![b] = "Constructed"]
       /\ limit' = [limit EXCEPT ![a] = InputSize["Initial"]]
       /\ read' = [read EXCEPT ![a] = "pending"]
       /\ open' = [open EXCEPT ![a] = TRUE]
       /\ accept' = [session |-> b, status |-> "pending"]
  /\ UNCHANGED <<timerVars, orphans, up, loop, running, stepAborts>>

\* Mutant: the next accept still names the deleted session.
HandleAcceptErrorAgain ==
  /\ Polling
  /\ accept.status = "error"
  /\ accept.session \in live
  /\ \E b \in (Address \ live) \cup {accept.session} :
       /\ state' = [state EXCEPT ![accept.session] = "Freed",
                                 ![b] = "Constructed"]
       /\ accept' = [accept EXCEPT !.status = "pending"]
  /\ UNCHANGED <<timerVars, limit, read, open, orphans, up, loop, running,
                 stepAborts>>

\* The accept handler with an error: it deletes the session it allocated and
\* allocates another, at the same address or a different one.
HandleAcceptError ==
  /\ Polling
  /\ accept.status = "error"
  /\ accept.session \in live
  /\ \E b \in (Address \ live) \cup {accept.session} :
       /\ state' = [state EXCEPT ![accept.session] = "Freed",
                                 ![b] = "Constructed"]
       /\ accept' = [session |-> b, status |-> "pending"]
  /\ UNCHANGED <<timerVars, limit, read, open, orphans, up, loop, running,
                 stepAborts>>

\* The session waiting for its peer has been deleted (by HandleOrphan): the
\* accept handler starts or deletes freed memory, and the program is lost.
HandleAcceptDangling ==
  /\ Polling
  /\ accept.status # "pending"
  /\ accept.session \notin live
  /\ up' = FALSE
  /\ UNCHANGED <<timerVars, sessionVars, loop, running, accept, stepAborts>>

-----------------------------------------------------------------------------
(* Read handlers.                                                          *)

\* The reactor, which poll runs, finds the read of a complete or failed.
ReadReady(a) ==
  /\ Polling
  /\ ReadCompletes(a) \/ ReadFails(a)
  /\ UNCHANGED <<timerVars, serverVars>>

PeerCloses(a) ==
  /\ up
  /\ open[a]
  /\ open' = [open EXCEPT ![a] = FALSE]
  /\ UNCHANGED <<timerVars, state, limit, read, orphans, serverVars>>

HandleRead(a) ==
  /\ Polling
  /\ ReadHandlerBegins(a)
  /\ running' = a
  /\ UNCHANGED <<timerVars, up, loop, accept, stepAborts>>

\* Mutant: the end of the stream makes the handler return, with no abort.
HandleReadErrorReturns(a) ==
  /\ Polling
  /\ read[a] = "error"
  /\ read' = [read EXCEPT ![a] = "none"]
  /\ UNCHANGED <<timerVars, state, limit, open, orphans, serverVars>>

\* AbortOnFatalError at the top of the handler: the exception leaves poll, so
\* the main loop polls again before it runs the timers.
HandleReadError(a) ==
  /\ Polling
  /\ read[a] = "error"
  /\ Abort(a, 1)
  /\ UNCHANGED <<clock, current, reschedule, serverVars>>

\* The handler has received its input: it consumes the code and either ends,
\* by returning or with an exception, or goes on to serve the request.
Consume(a) ==
  /\ up
  /\ running = a
  /\ \E code \in Code :
       \/ RSAKeyReceived(a, code)
       \/ AuthRequestReceived(a, code)
       \/ SessionKeyRequested(a, code)
       \/ FileRequestReceived(a, code)
       \/ UnsupportedCodeReceived(a, code)
  /\ running' = IF state'[a] \in Serving THEN a ELSE NoSession
  /\ UNCHANGED <<up, loop, accept, stepAborts>>

\* The blocking part of the handler ends: the request is answered, or the
\* connection fails and the session is aborted.
Serve(a) ==
  /\ up
  /\ running = a
  /\ AuthAnswered(a) \/ FileAnswered(a) \/ ServingFails(a)
  /\ running' = NoSession
  /\ UNCHANGED <<up, loop, accept, stepAborts>>

\* The handler of a read of a deleted session runs with its dangling "this".
\* If the memory is free this is a second delete and the program is lost; if
\* a new session lives there by now, that session may be aborted instead.
HandleOrphan(a) ==
  /\ Polling
  /\ orphans[a] > 0
  /\ \/ /\ up' = FALSE
        /\ UNCHANGED <<timerVars, sessionVars>>
     \/ /\ a \in live
        /\ Abort(a, 1)
        /\ UNCHANGED <<clock, current, reschedule, up>>
  /\ UNCHANGED <<loop, running, accept, stepAborts>>

-----------------------------------------------------------------------------
(* The timers.                                                             *)

BeginStep ==
  /\ Polling
  /\ ~ HandlerReady
  /\ loop' = "Step"
  /\ StepBegins
  /\ UNCHANGED <<sessionVars, up, running, accept, stepAborts>>

RunTimer ==
  /\ up
  /\ loop = "Step"
  /\ \E c \in Due(callbacks, current) :
       \/ TimerCallbackReturns(c) /\ UNCHANGED <<loop, stepAborts>>
       \/ TimerCallbackThrows(c) /\ loop' = "Poll" /\ stepAborts' = TRUE
  /\ UNCHANGED <<up, running, accept>>

EndStep ==
  /\ up
  /\ loop = "Step"
  /\ StepReturns
  /\ loop' = "Poll"
  /\ UNCHANGED <<sessionVars, up, running, accept, stepAborts>>

\* Time passes.
ClockTicks ==
  /\ up
  /\ Tick
  /\ UNCHANGED <<sessionVars, serverVars>>

-----------------------------------------------------------------------------
Next ==
  \/ AcceptCompletes
  \/ HandleAccept
  \/ HandleAcceptError
  \/ HandleAcceptDangling
  \/ \E a \in Address :
       \/ ReadReady(a)
       \/ PeerCloses(a)
       \/ HandleRead(a)
       \/ HandleReadError(a)
       \/ Consume(a)
       \/ Serve(a)
       \/ HandleOrphan(a)
  \/ BeginStep
  \/ RunTimer
  \/ EndStep
  \/ ClockTicks

Spec == Init /\ [][Next]_vars

\* Step is ordinary code: once entered, it keeps running. That a key update
\* ever fails, which ends Step too, is not assumed.
StepFairness ==
  /\ WF_vars(RunTimer /\ loop' = "Step")
  /\ WF_vars(EndStep)

\* The handlers queued in the io_context run in turn and every poll runs the
\* reactor, so what is ready again and again is eventually run; the client
\* of a request being served sends the rest of it or its connection fails.
\* That poll returns is not assumed. A property of the session at a states
\* this as its hypothesis.
HandlerFairness(a) ==
  /\ SF_vars(ReadReady(a))
  /\ SF_vars(HandleRead(a))
  /\ SF_vars(HandleReadError(a))
  /\ WF_vars(\E b \in Address : Consume(b) \/ Serve(b))

TimerSpec == Spec /\ StepFairness

-----------------------------------------------------------------------------
(* Safety.                                                                 *)

\* No session is forgotten or heard twice: a session that waits for input has
\* exactly the read of its state outstanding, and one inside its own handler
\* has none. AsyncWaitForInput and the handlers keep asyncWaitByteLimit_ so
\* through every state change, and a key update during a read disturbs it in
\* no way (Session.cpp:253). The one session that has neither a read nor a
\* handler is the one whose client sent n = 0 (Session.cpp:327).
ReadMatchesState ==
  /\ \A a \in Address :
       /\ read[a] # "none" <=> state[a] \in Waiting /\ running # a
       /\ limit[a] = IF read[a] = "none" THEN 0 ELSE InputSize[state[a]]
       /\ state[a] \in Serving => running = a
       /\ (a \in started /\ read[a] = "none" /\ running # a)
            <=> state[a] = "SessionKeyGeneration"
  /\ running # NoSession => running \in started /\ loop = "Poll"

\* No session object leaks and none is accepted into twice: the only session
\* that is neither deleted nor started is the one the pending accept will
\* start or delete (Server.cpp:19).
OneSessionListens ==
  /\ \A a \in Address : state[a] = "Constructed" => a = accept.session
  /\ accept.session \in live => state[accept.session] = "Constructed"

Authenticated == {a \in Address : state[a] \in {"WaitingForQueries",
                                                "SendingFile"}}

\* A session has one key update timer from the moment its client is
\* authenticated until it is deleted, and no timer outlives its session: the
\* callback holds "this" (Session.cpp:454, TimerService.cpp:53).
OneTimerPerSession ==
  /\ \A c, d \in callbacks : c.owner = d.owner => c = d
  /\ {c.owner : c \in callbacks} = Authenticated

\* No callback ever has to be retried. If one did, the exception of a later
\* callback in the same Step would drop it, and its session would never get
\* another key (TimerService.cpp:29-45).
NoRetryIsLost == reschedule = {}

\* Only an abort inside Step, that is a scheduled key update whose write
\* fails, leaves a handler that holds a deleted session: the aborts of the
\* handlers themselves, and of the accept loop, leave none (Session.cpp:237).
OnlyStepAbortsBreak ==
  \/ stepAborts
  \/ /\ up
     /\ accept.session \in live
     /\ \A a \in Address : orphans[a] = 0

-----------------------------------------------------------------------------
(* Liveness.                                                               *)

\* Step returns, or throws: a callback queued by a callback it runs is not due
\* in the same Step, so the loop of Step ends (TimerService.cpp:31).
StepTerminates == loop = "Step" ~> loop = "Poll"

HasOverdueTimer(a) ==
  \E c \in callbacks : c.owner = a /\ c.executionTime <= clock

\* As long as poll returns again and again, no timer that is due is passed
\* over for ever, whichever timers are due before it (TimerService.cpp:3).
DueTimerFires ==
  []<>(loop = "Step") => \A a \in Address :
                           HasOverdueTimer(a) ~> ~ HasOverdueTimer(a)

\* A session whose client has gone is deleted, in whatever state it was and
\* whatever its handlers or the timers were doing, if its handlers run
\* (Session.cpp:243). Excepted is a session stranded by a public key with
\* n = 0: nothing ever runs for it again, and it stays (Session.cpp:327).
DeadSessionFreed ==
  \A a \in Address :
    HandlerFairness(a) =>
      ((a \in started /\ ~ open[a])
         ~> (a \notin started \/ state[a] = "SessionKeyGeneration" \/ ~ up))

-----------------------------------------------------------------------------
(* The abstract specification.                                             *)

PhaseOf(s) ==
  CASE s = "Freed" -> "Free"
    [] s = "Constructed" -> "Listening"
    [] s \in {"Initial", "SessionKeyGeneration"} -> "Greeting"
    [] s \in {"WaitingForAuth", "ValidatingAuth"} -> "Keyed"
    [] s \in {"WaitingForQueries", "SendingFile"} -> "Authenticated"

Lifecycle == INSTANCE SessionLifecycle WITH
  phase    <- [a \in Address |-> PhaseOf(state[a])],
  deadline <- [a \in Address |->
                 {c.executionTime : c \in {d \in callbacks : d.owner = a}}],
  now      <- clock,
  broken   <- stepAborts,
  crashed  <- ~ up

\* The server implements the lifecycle: authentication follows the key
\* exchange, key updates are on time and one per session, and sessions end
\* only through their own fault until a key update has failed.
ImplementsLifecycle == Lifecycle!Spec

===============================================================================
