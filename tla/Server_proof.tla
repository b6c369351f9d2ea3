----------------------------- MODULE Server_proof -----------------------------
(***************************************************************************)
(* Proofs about the file server, for every set of session addresses, every *)
(* key update period and every bound of the clock: its safety properties,  *)
(* and that it implements SessionLifecycle.                                *)
(***************************************************************************)
EXTENDS Server, FiniteSetTheorems, TLAPS

\* What every step preserves. OneSessionListens is needed to know that a
\* session starts with no timer and no read; ReadMatchesState to know that a
\* handler that aborts its session leaves no other handler behind; and
\* OneTimerPerSession to know that a due timer finds its session idle.
Inv ==
  /\ TypeOK
  /\ OneSessionListens
  /\ ReadMatchesState
  /\ OneTimerPerSession
  /\ NoRetryIsLost
  /\ OnlyStepAbortsBreak

-----------------------------------------------------------------------------
(* The timer queue.                                                        *)

\* A timer added for an owner that has none is the first copy.
LEMMA AddFirstTimer ==
  ASSUME NEW queue, NEW owner, NEW time,
         \A c \in queue : c.owner # owner
  PROVE  AddTimer(queue, owner, time) =
           queue \cup {[owner |-> owner, executionTime |-> time, copy |-> 0]}
PROOF
<1> DEFINE used == {c.copy : c \in {d \in queue : d.owner = owner
                                       /\ d.executionTime = time}}
<1>1. used = {}
  OBVIOUS
<1>2. Cardinality(used) = 0
  BY <1>1, FS_EmptySet
<1>3. FreshCopy(queue, owner, time) = CHOOSE n \in 0 .. 0 : n \notin {}
  BY <1>1, <1>2 DEF FreshCopy
<1>4. FreshCopy(queue, owner, time) = 0
  BY <1>3
<1> QED
  BY <1>4 DEF AddTimer

\* Each state waits for input of its own size, which is never zero.
LEMMA InputSizes ==
  /\ InputSize \in [Waiting -> {10, 11, 49}]
  /\ InputSize["Initial"] = 49
  /\ InputSize["WaitingForAuth"] = 11
  /\ InputSize["WaitingForQueries"] = 10
  BY DEF InputSize, Waiting

\* Aborting a session, in whatever handler or callback, keeps the types and
\* removes its timer and its read together with it.
LEMMA AbortTypes ==
  ASSUME TypeOK, NEW a \in Address, NEW handled \in {0, 1},
         orphans[a] > 0 \/ read[a] # "none" \/ handled = 0,
         Abort(a, handled)
  PROVE  SessionTypeOK' /\ callbacks' \in SUBSET Callback
PROOF
<1> USE DEF TypeOK, SessionTypeOK, Abort
<1>1. callbacks' \in SUBSET Callback
  BY DEF RemoveAllTimers, TimerTypeOK
<1>2. orphans[a] + (IF read[a] = "none" THEN 0 ELSE 1) - handled \in Nat
  OBVIOUS
<1>3. orphans' \in [Address -> Nat]
  BY <1>2
<1>4. /\ state' \in [Address -> Name]
      /\ limit' \in [Address -> {0} \cup {InputSize[s] : s \in Waiting}]
      /\ read' \in [Address -> {"none", "pending", "done", "error"}]
      /\ open' \in [Address -> BOOLEAN]
  BY DEF Name
<1> QED
  BY <1>1, <1>3, <1>4

LEMMA AbortListens ==
  ASSUME TypeOK, OneSessionListens, NEW a \in Address, NEW handled,
         Abort(a, handled), UNCHANGED accept
  PROVE  OneSessionListens'
  BY DEF TypeOK, SessionTypeOK, Abort, OneSessionListens, live

LEMMA AbortTimers ==
  ASSUME TypeOK, OneTimerPerSession, NEW a \in Address, NEW handled,
         Abort(a, handled)
  PROVE  OneTimerPerSession'
PROOF
<1>1. \A c, d \in callbacks' : c.owner = d.owner => c = d
  BY DEF Abort, RemoveAllTimers, OneTimerPerSession
<1>2. {c.owner : c \in callbacks'} = Authenticated \ {a}
  BY DEF Abort, RemoveAllTimers, OneTimerPerSession
<1>3. Authenticated' = Authenticated \ {a}
  BY DEF Abort, Authenticated, TypeOK, SessionTypeOK
<1> QED
  BY <1>1, <1>2, <1>3 DEF OneTimerPerSession

LEMMA AbortReads ==
  ASSUME TypeOK, ReadMatchesState, NEW a \in Address, NEW handled,
         Abort(a, handled), running \in {a, NoSession}, running' = NoSession
  PROVE  ReadMatchesState'
  BY NoSessionAssumption
  DEF TypeOK, SessionTypeOK, Abort, ReadMatchesState, Waiting, Serving, started,
      live

\* Init establishes the invariant.
LEMMA InitInv == Init => Inv
PROOF
<1> SUFFICES ASSUME Init PROVE Inv
  OBVIOUS
<1> USE DEF Init, TimerInit
<1> PICK a \in Address :
           /\ accept = [session |-> a, status |-> "pending"]
           /\ state = [b \in Address |-> IF b = a THEN "Constructed"
                                              ELSE "Freed"]
  OBVIOUS
<1>1. TypeOK
  <2>1. TimerTypeOK
    BY DEF TimerTypeOK
  <2>2. SessionTypeOK
    BY DEF SessionTypeOK, Name
  <2> QED
    BY <2>1, <2>2 DEF TypeOK
<1>2. OneSessionListens
  BY DEF OneSessionListens, live
<1>3. ReadMatchesState
  BY NoSessionAssumption DEF ReadMatchesState, Waiting, Serving, started, live
<1>4. OneTimerPerSession
  BY DEF OneTimerPerSession, Authenticated
<1>5. NoRetryIsLost
  BY DEF NoRetryIsLost
<1>6. OnlyStepAbortsBreak
  BY DEF OnlyStepAbortsBreak, live
<1> QED
  BY <1>1, <1>2, <1>3, <1>4, <1>5, <1>6 DEF Inv

-----------------------------------------------------------------------------
(* Actions that keep the timers and sessions, or most of them.             *)

LEMMA AcceptCompletesInv == Inv /\ AcceptCompletes => Inv'
PROOF
<1> SUFFICES ASSUME Inv, AcceptCompletes PROVE Inv'
  OBVIOUS
<1> USE DEF Inv, AcceptCompletes, timerVars, sessionVars
<1>1. TypeOK'
  BY DEF TypeOK, TimerTypeOK, SessionTypeOK
<1>2. OneSessionListens'
  BY DEF OneSessionListens, live, TypeOK
<1>3. ReadMatchesState'
  BY DEF ReadMatchesState, started, live
<1>4. OneTimerPerSession' /\ NoRetryIsLost'
  BY DEF OneTimerPerSession, Authenticated, NoRetryIsLost
<1>5. OnlyStepAbortsBreak'
  BY DEF OnlyStepAbortsBreak, live, TypeOK
<1> QED
  BY <1>1, <1>2, <1>3, <1>4, <1>5

LEMMA HandleAcceptInv == Inv /\ HandleAccept => Inv'
PROOF
<1> SUFFICES ASSUME Inv, HandleAccept PROVE Inv'
  OBVIOUS
<1> USE DEF Inv, HandleAccept, timerVars, Polling
<1> DEFINE a == accept.session
<1> PICK b \in Address \ live :
           /\ state' = [state EXCEPT ![a] = "Initial", ![b] = "Constructed"]
           /\ limit' = [limit EXCEPT ![a] = InputSize["Initial"]]
           /\ read' = [read EXCEPT ![a] = "pending"]
           /\ open' = [open EXCEPT ![a] = TRUE]
           /\ accept' = [session |-> b, status |-> "pending"]
  OBVIOUS
<1>0. /\ a \in Address /\ state[a] = "Constructed"
      /\ b # a /\ state[b] = "Freed"
  BY DEF OneSessionListens, live, TypeOK
<1>1. TypeOK'
  BY <1>0, InputSizes DEF TypeOK, TimerTypeOK, SessionTypeOK, Name, Waiting
<1>2. OneSessionListens'
  BY <1>0 DEF OneSessionListens, live, TypeOK, SessionTypeOK
<1>3. ReadMatchesState'
  BY <1>0, InputSizes, NoSessionAssumption
  DEF ReadMatchesState, started, live, TypeOK, SessionTypeOK, Waiting, Serving
<1>4. OneTimerPerSession' /\ NoRetryIsLost'
  BY <1>0 DEF OneTimerPerSession, Authenticated, NoRetryIsLost, TypeOK, SessionTypeOK
<1>5. OnlyStepAbortsBreak'
  BY <1>0 DEF OnlyStepAbortsBreak, live, TypeOK, SessionTypeOK
<1> QED
  BY <1>1, <1>2, <1>3, <1>4, <1>5

LEMMA HandleAcceptErrorInv ==
  ASSUME Inv, HandleAcceptError
  PROVE  Inv'
PROOF
<1> USE DEF Inv, HandleAcceptError, timerVars, Polling
<1> PICK b \in (Address \ live) \cup {accept.session} :
           /\ state' = [state EXCEPT ![accept.session] = "Freed",
                                     ![b] = "Constructed"]
           /\ accept' = [session |-> b, status |-> "pending"]
  OBVIOUS
<1>0. /\ accept.session \in Address /\ state[accept.session] = "Constructed"
      /\ b \in Address /\ (state[b] = "Freed" \/ b = accept.session)
  BY DEF OneSessionListens, live, TypeOK
<1>1. TypeOK'
  BY <1>0 DEF TypeOK, TimerTypeOK, SessionTypeOK, Name, Waiting, Serving
<1>2. OneSessionListens'
  BY <1>0 DEF OneSessionListens, live, TypeOK, SessionTypeOK
<1>3. ReadMatchesState'
  BY <1>0, NoSessionAssumption
  DEF ReadMatchesState, started, live, TypeOK, SessionTypeOK, Waiting,
     Serving
<1>4. OneTimerPerSession' /\ NoRetryIsLost'
  BY <1>0 DEF OneTimerPerSession, Authenticated, NoRetryIsLost, TypeOK,
     SessionTypeOK
<1>5. OnlyStepAbortsBreak'
  BY <1>0 DEF OnlyStepAbortsBreak, live, TypeOK, SessionTypeOK
<1> QED
  BY <1>1, <1>2, <1>3, <1>4, <1>5

LEMMA HandleAcceptDanglingInv ==
  ASSUME Inv, HandleAcceptDangling
  PROVE  Inv'
PROOF
<1> USE DEF Inv, HandleAcceptDangling, timerVars, sessionVars, Polling
<1>1. TypeOK'
  BY DEF TypeOK, TimerTypeOK, SessionTypeOK, Name, Waiting, Serving
<1>2. OneSessionListens'
  BY DEF OneSessionListens, live, TypeOK, SessionTypeOK
<1>3. ReadMatchesState'
  BY DEF ReadMatchesState, started, live, TypeOK, SessionTypeOK, Waiting,
     Serving
<1>4. OneTimerPerSession' /\ NoRetryIsLost'
  BY DEF OneTimerPerSession, Authenticated, NoRetryIsLost, TypeOK,
     SessionTypeOK
<1>5. OnlyStepAbortsBreak'
  BY DEF OnlyStepAbortsBreak, live, TypeOK, SessionTypeOK
<1> QED
  BY <1>1, <1>2, <1>3, <1>4, <1>5

LEMMA ReadReadyInv ==
  ASSUME Inv, NEW a \in Address, ReadReady(a)
  PROVE  Inv'
PROOF
<1> USE DEF Inv, ReadReady, ReadCompletes, ReadFails, timerVars, serverVars, Polling
<1>1. TypeOK'
  BY DEF TypeOK, TimerTypeOK, SessionTypeOK, Name, Waiting, Serving
<1>2. OneSessionListens'
  BY DEF OneSessionListens, live, TypeOK, SessionTypeOK
<1>3. ReadMatchesState'
  BY DEF ReadMatchesState, started, live, TypeOK, SessionTypeOK, Waiting,
     Serving
<1>4. OneTimerPerSession' /\ NoRetryIsLost'
  BY DEF OneTimerPerSession, Authenticated, NoRetryIsLost, TypeOK,
     SessionTypeOK
<1>5. OnlyStepAbortsBreak'
  BY DEF OnlyStepAbortsBreak, live, TypeOK, SessionTypeOK
<1> QED
  BY <1>1, <1>2, <1>3, <1>4, <1>5

LEMMA PeerClosesInv ==
  ASSUME Inv, NEW a \in Address, PeerCloses(a)
  PROVE  Inv'
PROOF
<1> USE DEF Inv, PeerCloses, timerVars, serverVars
<1>1. TypeOK'
  BY DEF TypeOK, TimerTypeOK, SessionTypeOK, Name, Waiting, Serving
<1>2. OneSessionListens'
  BY DEF OneSessionListens, live, TypeOK, SessionTypeOK
<1>3. ReadMatchesState'
  BY DEF ReadMatchesState, started, live, TypeOK, SessionTypeOK, Waiting,
     Serving
<1>4. OneTimerPerSession' /\ NoRetryIsLost'
  BY DEF OneTimerPerSession, Authenticated, NoRetryIsLost, TypeOK,
     SessionTypeOK
<1>5. OnlyStepAbortsBreak'
  BY DEF OnlyStepAbortsBreak, live, TypeOK, SessionTypeOK
<1> QED
  BY <1>1, <1>2, <1>3, <1>4, <1>5

LEMMA HandleReadInv ==
  ASSUME Inv, NEW a \in Address, HandleRead(a)
  PROVE  Inv'
PROOF
<1> USE DEF Inv, HandleRead, ReadHandlerBegins, timerVars, Polling
<1>1. TypeOK'
  BY DEF TypeOK, TimerTypeOK, SessionTypeOK, Name, Waiting, Serving
<1>2. OneSessionListens'
  BY DEF OneSessionListens, live, TypeOK, SessionTypeOK
<1>3. ReadMatchesState'
  BY NoSessionAssumption
  DEF ReadMatchesState, started, live, TypeOK, SessionTypeOK, Waiting,
     Serving
<1>4. OneTimerPerSession' /\ NoRetryIsLost'
  BY DEF OneTimerPerSession, Authenticated, NoRetryIsLost, TypeOK,
     SessionTypeOK
<1>5. OnlyStepAbortsBreak'
  BY DEF OnlyStepAbortsBreak, live, TypeOK, SessionTypeOK
<1> QED
  BY <1>1, <1>2, <1>3, <1>4, <1>5

LEMMA HandleReadErrorInv ==
  ASSUME Inv, NEW a \in Address, HandleReadError(a)
  PROVE  Inv'
PROOF
<1> USE DEF Inv, HandleReadError, serverVars, Polling
<1>1. TypeOK'
  BY AbortTypes DEF TypeOK, TimerTypeOK
<1>2. OneSessionListens' /\ ReadMatchesState' /\ OneTimerPerSession'
  BY AbortListens, AbortReads, AbortTimers
<1>3. NoRetryIsLost'
  BY DEF NoRetryIsLost
<1>4. OnlyStepAbortsBreak'
  <2>1. state[a] \in Waiting
    BY DEF ReadMatchesState
  <2>2. orphans' = orphans
    BY DEF Abort, TypeOK, SessionTypeOK
  <2> QED
    BY <2>1, <2>2 DEF OnlyStepAbortsBreak, OneSessionListens, Abort, live,
                      Waiting, TypeOK, SessionTypeOK
<1> QED
  BY <1>1, <1>2, <1>3, <1>4

LEMMA HandleOrphanInv ==
  ASSUME Inv, NEW a \in Address, HandleOrphan(a)
  PROVE  Inv'
PROOF
<1> USE DEF Inv, HandleOrphan, Polling
<1>1. stepAborts' /\ OnlyStepAbortsBreak'
  BY DEF OnlyStepAbortsBreak, TypeOK, SessionTypeOK
<1>2. CASE UNCHANGED <<timerVars, sessionVars>>
  BY <1>1, <1>2
  DEF timerVars, sessionVars, TypeOK, TimerTypeOK, SessionTypeOK,
      OneSessionListens, live, ReadMatchesState, started,
      OneTimerPerSession, Authenticated, NoRetryIsLost
<1>3. CASE Abort(a, 1) /\ UNCHANGED <<clock, current, reschedule, up>>
  <2>1. TypeOK'
    BY <1>3, AbortTypes DEF TypeOK, TimerTypeOK
  <2>2. OneSessionListens' /\ ReadMatchesState' /\ OneTimerPerSession'
    BY <1>3, AbortListens, AbortReads, AbortTimers
  <2>3. NoRetryIsLost'
    BY <1>3 DEF NoRetryIsLost
  <2> QED
    BY <1>1, <2>1, <2>2, <2>3
<1> QED
  BY <1>2, <1>3

-----------------------------------------------------------------------------
(* The running handler.                                                    *)

\* A handler that ends by entering a waiting state.
LEMMA EnterWaitingKeeps ==
  ASSUME TypeOK, OneSessionListens, ReadMatchesState, NEW a \in Address,
         NEW s \in Waiting, EnterWaiting(a, s), running = a,
         running' = NoSession, UNCHANGED accept
  PROVE  SessionTypeOK' /\ OneSessionListens' /\ ReadMatchesState'
PROOF
<1> USE DEF TypeOK, SessionTypeOK, EnterWaiting
<1>1. InputSize[s] # 0 /\ s \notin Serving /\ s # "Constructed"
  BY InputSizes DEF Waiting, Serving
<1>2. state[a] \notin {"Freed", "Constructed"}
  BY NoSessionAssumption DEF ReadMatchesState, started, live
<1>3. read[a] = "none" /\ limit[a] = 0
  BY DEF ReadMatchesState
<1>4. SessionTypeOK'
  BY DEF Name
<1>5. OneSessionListens'
  BY <1>1, <1>2 DEF OneSessionListens, live, Waiting
<1>6. ReadMatchesState'
  BY <1>1, <1>3, NoSessionAssumption DEF ReadMatchesState, started, live, Waiting
<1> QED
  BY <1>4, <1>5, <1>6

\* A handler that goes on to a blocking read.
LEMMA ServeKeeps ==
  ASSUME TypeOK, OneSessionListens, ReadMatchesState, NEW a \in Address,
         NEW s \in Serving, state' = [state EXCEPT ![a] = s], running = a,
         UNCHANGED <<limit, read, open, orphans, running, accept, loop>>
  PROVE  SessionTypeOK' /\ OneSessionListens' /\ ReadMatchesState'
PROOF
<1> USE DEF TypeOK, SessionTypeOK
<1>1. /\ s \notin Waiting
      /\ s \notin {"Freed", "Constructed", "SessionKeyGeneration"}
  BY DEF Waiting, Serving
<1>2. state[a] \notin {"Freed", "Constructed"}
  BY NoSessionAssumption DEF ReadMatchesState, started, live
<1>3. SessionTypeOK'
  BY DEF Name
<1>4. OneSessionListens'
  BY <1>1, <1>2 DEF OneSessionListens, live
<1>5. ReadMatchesState'
  BY <1>1, NoSessionAssumption DEF ReadMatchesState, started, live
<1> QED
  BY <1>3, <1>4, <1>5

\* A handler that an exception leaves half way.
LEMMA StrandKeeps ==
  ASSUME TypeOK, OneSessionListens, ReadMatchesState, NEW a \in Address,
         running = a, state[a] = "Initial", running' = NoSession,
         state' = [state EXCEPT ![a] = "SessionKeyGeneration"],
         UNCHANGED <<limit, read, open, orphans, accept, loop>>
  PROVE  SessionTypeOK' /\ OneSessionListens' /\ ReadMatchesState'
PROOF
<1> USE DEF TypeOK, SessionTypeOK
<1>1. "SessionKeyGeneration" \notin Waiting \cup Serving
  BY DEF Waiting, Serving
<1>2. read[a] = "none"
  BY DEF ReadMatchesState
<1>3. SessionTypeOK'
  BY DEF Name
<1>4. OneSessionListens'
  BY <1>1 DEF OneSessionListens, live
<1>5. ReadMatchesState'
  BY <1>1, <1>2, NoSessionAssumption
  DEF ReadMatchesState, started, live
<1> QED
  BY <1>3, <1>4, <1>5

\* A handler that aborts its session.
LEMMA HandlerAbortsInv ==
  ASSUME Inv, NEW a \in Address, running = a, Abort(a, 0),
         running' = NoSession,
         UNCHANGED <<clock, current, reschedule, up, loop, accept, stepAborts>>
  PROVE  Inv'
PROOF
<1> USE DEF Inv
<1>1. TypeOK'
  BY AbortTypes DEF TypeOK, TimerTypeOK
<1>2. OneSessionListens' /\ ReadMatchesState' /\ OneTimerPerSession'
  BY AbortListens, AbortReads, AbortTimers
<1>3. NoRetryIsLost'
  BY DEF NoRetryIsLost
<1>4. OnlyStepAbortsBreak'
  <2>1. state[a] \notin {"Freed", "Constructed"} /\ read[a] = "none"
    BY NoSessionAssumption DEF ReadMatchesState, started, live
  <2>2. orphans' = orphans
    BY <2>1 DEF Abort, TypeOK, SessionTypeOK
  <2> QED
    BY <2>1, <2>2 DEF OnlyStepAbortsBreak, OneSessionListens, Abort, live,
                      TypeOK, SessionTypeOK
<1> QED
  BY <1>1, <1>2, <1>3, <1>4

LEMMA ConsumeInv ==
  ASSUME Inv, NEW a \in Address, Consume(a)
  PROVE  Inv'
PROOF
<1> USE DEF Inv, Consume, timerVars
<1> PICK code \in Code :
           \/ RSAKeyReceived(a, code)
           \/ AuthRequestReceived(a, code)
           \/ SessionKeyRequested(a, code)
           \/ FileRequestReceived(a, code)
           \/ UnsupportedCodeReceived(a, code)
  OBVIOUS
<1>1. CASE Abort(a, 0) /\ UNCHANGED <<clock, current, reschedule>>
  <2>1. running' = NoSession
    BY <1>1 DEF Abort, Serving, TypeOK, SessionTypeOK
  <2> QED
    BY <1>1, <2>1, HandlerAbortsInv
<1>2. CASE /\ \/ state[a] = "Initial" /\ EnterWaiting(a, "WaitingForAuth")
              \/ /\ state[a] = "WaitingForQueries"
                 /\ EnterWaiting(a, "WaitingForQueries")
           /\ UNCHANGED timerVars
  <2>1. running' = NoSession
    BY <1>2 DEF EnterWaiting, Serving, TypeOK, SessionTypeOK
  <2>2. SessionTypeOK' /\ OneSessionListens' /\ ReadMatchesState'
    BY <1>2, <2>1, EnterWaitingKeeps DEF Waiting
  <2>3. Authenticated' = Authenticated /\ live' = live
    BY <1>2 DEF EnterWaiting, Authenticated, live, TypeOK, SessionTypeOK
  <2> QED
    BY <1>2, <2>1, <2>2, <2>3
    DEF TypeOK, TimerTypeOK, OneTimerPerSession, NoRetryIsLost,
        OnlyStepAbortsBreak, EnterWaiting
<1>3. CASE /\ \/ /\ state[a] = "WaitingForAuth"
                 /\ state' = [state EXCEPT ![a] = "ValidatingAuth"]
              \/ /\ state[a] = "WaitingForQueries"
                 /\ state' = [state EXCEPT ![a] = "SendingFile"]
           /\ UNCHANGED <<limit, read, open, orphans, timerVars>>
  <2>1. running' = running
    BY <1>3 DEF Serving, TypeOK, SessionTypeOK
  <2>2. SessionTypeOK' /\ OneSessionListens' /\ ReadMatchesState'
    BY <1>3, <2>1, ServeKeeps DEF Serving
  <2>3. Authenticated' = Authenticated /\ live' = live
    BY <1>3 DEF Authenticated, live, TypeOK, SessionTypeOK
  <2> QED
    BY <1>3, <2>1, <2>2, <2>3
    DEF TypeOK, TimerTypeOK, OneTimerPerSession, NoRetryIsLost,
        OnlyStepAbortsBreak
<1>4. CASE /\ state[a] = "Initial"
           /\ state' = [state EXCEPT ![a] = "SessionKeyGeneration"]
           /\ UNCHANGED <<limit, read, open, orphans, timerVars>>
  <2>1. running' = NoSession
    BY <1>4 DEF Serving, TypeOK, SessionTypeOK
  <2>2. SessionTypeOK' /\ OneSessionListens' /\ ReadMatchesState'
    BY <1>4, <2>1, StrandKeeps
  <2>3. Authenticated' = Authenticated /\ live' = live
    BY <1>4 DEF Authenticated, live, TypeOK, SessionTypeOK
  <2> QED
    BY <1>4, <2>1, <2>2, <2>3
    DEF TypeOK, TimerTypeOK, OneTimerPerSession, NoRetryIsLost,
        OnlyStepAbortsBreak
<1> QED
  BY <1>1, <1>2, <1>3, <1>4
  DEF RSAKeyReceived, AuthRequestReceived, SessionKeyRequested,
      FileRequestReceived, UnsupportedCodeReceived

\* Starting the timer of a newly authenticated or just rekeyed session.
LEMMA StartTimerKeeps ==
  ASSUME NEW queue \in SUBSET Callback, NEW a \in Address, clock \in Nat,
         \A c \in queue : c.owner # a,
         \A c, d \in queue : c.owner = d.owner => c = d
  PROVE  LET q == StartSessionKeyUpdateTimer(queue, a) IN
         /\ q \in SUBSET Callback
         /\ \A c, d \in q : c.owner = d.owner => c = d
         /\ {c.owner : c \in q} = {c.owner : c \in queue} \cup {a}
PROOF
<1> DEFINE time == clock + SESSION_KEY_UPDATE_PERIOD
           new == [owner |-> a, executionTime |-> time, copy |-> 0]
<1>1. StartSessionKeyUpdateTimer(queue, a) = queue \cup {new}
  BY AddFirstTimer DEF StartSessionKeyUpdateTimer
<1>2. new \in Callback /\ new.owner = a
  BY PeriodAssumption DEF Callback, Address
<1> QED
  BY <1>1, <1>2

LEMMA ServeInv ==
  ASSUME Inv, NEW a \in Address, Serve(a)
  PROVE  Inv'
PROOF
<1> USE DEF Inv, Serve
<1>1. CASE ServingFails(a)
  BY <1>1, HandlerAbortsInv DEF ServingFails
<1>2. CASE AuthAnswered(a) \/ FileAnswered(a)
  <2>1. PICK s \in Waiting : EnterWaiting(a, s)
    BY <1>2 DEF AuthAnswered, FileAnswered, Waiting
  <2>2. SessionTypeOK' /\ OneSessionListens' /\ ReadMatchesState'
    BY <2>1, EnterWaitingKeeps
  <2>3. state[a] \in Serving /\ live' = live
    BY <1>2, <2>1 DEF AuthAnswered, FileAnswered, EnterWaiting, live, Waiting,
                      Serving, TypeOK, SessionTypeOK
  <2>4. UNCHANGED <<clock, current, reschedule>>
    BY <1>2 DEF AuthAnswered, FileAnswered, timerVars
  <2>5. callbacks' \in SUBSET Callback /\ OneTimerPerSession'
    <3>1. CASE callbacks' = callbacks /\ Authenticated' = Authenticated
      BY <3>1 DEF OneTimerPerSession, TypeOK, TimerTypeOK
    <3>2. CASE /\ state[a] = "ValidatingAuth"
               /\ EnterWaiting(a, "WaitingForQueries")
               /\ callbacks' = StartSessionKeyUpdateTimer(callbacks, a)
      <4>1. Authenticated' = Authenticated \cup {a} /\ a \notin Authenticated
        BY <3>2 DEF EnterWaiting, Authenticated, TypeOK, SessionTypeOK
      <4>2. \A c \in callbacks : c.owner # a
        BY <4>1 DEF OneTimerPerSession
      <4> QED
        BY <3>2, <4>1, <4>2, StartTimerKeeps
        DEF OneTimerPerSession, TypeOK, TimerTypeOK
    <3>3. CASE FileAnswered(a)
      BY <3>1, <3>3 DEF FileAnswered, timerVars, EnterWaiting, Authenticated,
                        TypeOK, SessionTypeOK
    <3>4. CASE /\ state[a] = "ValidatingAuth"
               /\ EnterWaiting(a, "WaitingForAuth")
               /\ UNCHANGED callbacks
      BY <3>1, <3>4 DEF EnterWaiting, Authenticated, TypeOK, SessionTypeOK
    <3> QED
      BY <1>2, <3>2, <3>3, <3>4 DEF AuthAnswered
  <2> QED
    BY <2>1, <2>2, <2>3, <2>4, <2>5
    DEF TypeOK, TimerTypeOK, NoRetryIsLost, OnlyStepAbortsBreak, EnterWaiting
<1> QED
  BY <1>1, <1>2

-----------------------------------------------------------------------------
(* The timers.                                                             *)

LEMMA RunTimerInv ==
  ASSUME Inv, RunTimer
  PROVE  Inv'
PROOF
<1> USE DEF Inv, RunTimer
<1> PICK c \in Due(callbacks, current) :
           \/ TimerCallbackReturns(c) /\ UNCHANGED <<loop, stepAborts>>
           \/ TimerCallbackThrows(c) /\ loop' = "Poll" /\ stepAborts' = TRUE
  OBVIOUS
<1> DEFINE a == c.owner
<1>1. c \in callbacks /\ a \in Address /\ a \in Authenticated
  BY DEF Due, Tops, OneTimerPerSession, TypeOK, TimerTypeOK, Callback, Address
<1>2. running = NoSession
  BY DEF ReadMatchesState
\* No handler is running, so no session is sending a file.
<1>3. /\ state[a] = "WaitingForQueries" /\ read[a] # "none"
      /\ limit[a] = InputSize["WaitingForQueries"]
  BY <1>1, <1>2, NoSessionAssumption
  DEF Authenticated, ReadMatchesState, Waiting, Serving
<1>4. CASE TimerCallbackReturns(c) /\ UNCHANGED <<loop, stepAborts>>
  <2>1. /\ EnterWaiting(a, "WaitingForQueries")
        /\ callbacks' = StartSessionKeyUpdateTimer(callbacks \ {c}, a)
        /\ UNCHANGED <<reschedule, clock, current>>
    BY <1>3, <1>4 DEF TimerCallbackReturns
  <2>2. UNCHANGED sessionVars
    BY <1>1, <1>3, <2>1, InputSizes
    DEF EnterWaiting, sessionVars, TypeOK, SessionTypeOK
  <2>3. callbacks' \in SUBSET Callback /\ OneTimerPerSession'
    <3>1. \A d \in callbacks \ {c} : d.owner # a
      BY <1>1 DEF OneTimerPerSession
    <3>2. {d.owner : d \in callbacks \ {c}} \cup {a} = Authenticated
      BY <1>1, <3>1 DEF OneTimerPerSession
    <3>3. Authenticated' = Authenticated
      BY <2>2 DEF Authenticated, sessionVars
    <3>4. /\ callbacks \ {c} \in SUBSET Callback /\ clock \in Nat
          /\ \A d, e \in callbacks \ {c} : d.owner = e.owner => d = e
      BY DEF OneTimerPerSession, TypeOK, TimerTypeOK
    <3>5. /\ callbacks' \in SUBSET Callback
          /\ \A d, e \in callbacks' : d.owner = e.owner => d = e
          /\ {d.owner : d \in callbacks'}
               = {d.owner : d \in callbacks \ {c}} \cup {a}
      <4> HIDE DEF a
      <4> QED
        BY <1>1, <2>1, <3>1, <3>4, StartTimerKeeps
    <3> QED
      BY <3>2, <3>3, <3>5 DEF OneTimerPerSession
  <2> QED
    BY <1>4, <2>1, <2>2, <2>3
    DEF sessionVars, TypeOK, TimerTypeOK, SessionTypeOK, OneSessionListens,
        live, ReadMatchesState, started, NoRetryIsLost, OnlyStepAbortsBreak
<1>5. CASE TimerCallbackThrows(c) /\ loop' = "Poll" /\ stepAborts' = TRUE
  <2> USE DEF TimerCallbackThrows
  <2>1. TypeOK'
    BY <1>1, <1>5, AbortTypes DEF TypeOK, TimerTypeOK
  <2>2. OneSessionListens' /\ ReadMatchesState' /\ OneTimerPerSession'
    BY <1>1, <1>2, <1>5, AbortListens, AbortReads, AbortTimers
  <2> QED
    BY <1>5, <2>1, <2>2 DEF NoRetryIsLost, OnlyStepAbortsBreak
<1> QED
  BY <1>4, <1>5

LEMMA StepBoundsInv ==
  ASSUME Inv, BeginStep \/ EndStep \/ ClockTicks
  PROVE  Inv'
PROOF
<1> USE DEF Inv, BeginStep, EndStep, ClockTicks, StepBegins, StepReturns, Tick,
            Polling, sessionVars, serverVars
<1>1. TypeOK'
  BY DEF TypeOK, TimerTypeOK, SessionTypeOK
<1>2. OneSessionListens' /\ ReadMatchesState'
  BY DEF OneSessionListens, ReadMatchesState, started, live
<1>3. callbacks' = callbacks /\ reschedule' = {}
  BY DEF NoRetryIsLost
<1>4. OneTimerPerSession' /\ NoRetryIsLost'
  BY <1>3 DEF OneTimerPerSession, Authenticated, NoRetryIsLost
<1>5. OnlyStepAbortsBreak'
  BY DEF OnlyStepAbortsBreak, live
<1> QED
  BY <1>1, <1>2, <1>4, <1>5

-----------------------------------------------------------------------------
(* The theorems.                                                           *)

LEMMA NextInv == Inv /\ [Next]_vars => Inv'
PROOF
<1> SUFFICES ASSUME Inv, [Next]_vars PROVE Inv'
  OBVIOUS
<1>1. CASE UNCHANGED vars
  BY <1>1
  DEF Inv, vars, timerVars, sessionVars, serverVars, TypeOK, TimerTypeOK,
      SessionTypeOK, OneSessionListens, live, ReadMatchesState, started,
      OneTimerPerSession, Authenticated, NoRetryIsLost, OnlyStepAbortsBreak
<1>2. ASSUME NEW a \in Address,
             \/ ReadReady(a) \/ PeerCloses(a) \/ HandleRead(a)
             \/ HandleReadError(a) \/ Consume(a) \/ Serve(a)
             \/ HandleOrphan(a)
      PROVE  Inv'
  BY <1>2, ReadReadyInv, PeerClosesInv, HandleReadInv, HandleReadErrorInv,
     ConsumeInv, ServeInv, HandleOrphanInv
<1>3. CASE BeginStep \/ EndStep \/ ClockTicks
  BY <1>3, StepBoundsInv
<1> QED
  BY <1>1, <1>2, <1>3, AcceptCompletesInv, HandleAcceptInv,
     HandleAcceptErrorInv, HandleAcceptDanglingInv, RunTimerInv DEF Next

THEOREM Invariance == Spec => []Inv
  BY InitInv, NextInv, PTL DEF Spec

\* Every variable keeps its type: orphaned handlers never become negative, a
\* session never waits for a size of another state.
THEOREM TypeCorrect == Spec => []TypeOK
  BY Invariance, PTL DEF Inv

\* The acceptor always has one object of its own to accept into.
THEOREM ListeningCorrect == Spec => []OneSessionListens
  BY Invariance, PTL DEF Inv

\* No session is ever forgotten: one that waits has its one read outstanding.
THEOREM ReadsCorrect == Spec => []ReadMatchesState
  BY Invariance, PTL DEF Inv

\* Timers and authenticated sessions match one to one.
THEOREM TimersCorrect == Spec => []OneTimerPerSession
  BY Invariance, PTL DEF Inv

\* The list of callbacks to retry is always empty, so no exception loses one.
THEOREM RetriesCorrect == Spec => []NoRetryIsLost
  BY Invariance, PTL DEF Inv

\* Handlers of deleted sessions, and with them crashes, come only from a
\* session aborted inside Step.
THEOREM BreakageCorrect == Spec => []OnlyStepAbortsBreak
  BY Invariance, PTL DEF Inv

-----------------------------------------------------------------------------
(* The file server implements SessionLifecycle: every step of Server is a   *)
(* step of the lifecycle or leaves it alone.                                 *)

phase == [a \in Address |-> PhaseOf(state[a])]
deadline == [a \in Address |->
               {c.executionTime : c \in {d \in callbacks : d.owner = a}}]

\* Step works with a time that has passed.
StepIsLate == current <= clock

LEMMA LateInvariant == Spec => []StepIsLate
PROOF
<1> USE DEF StepIsLate
<1>1. Init => StepIsLate
  BY DEF Init, TimerInit
<1>2. Inv /\ StepIsLate /\ [Next]_vars => StepIsLate'
  <2> SUFFICES ASSUME Inv, StepIsLate, [Next]_vars PROVE StepIsLate'
    OBVIOUS
  <2>1. clock \in Nat /\ current \in Nat
    BY DEF Inv, TypeOK, TimerTypeOK
  <2>2. \/ UNCHANGED <<clock, current>>
        \/ current' = clock /\ clock' = clock
        \/ current' = 0 /\ clock' = clock
        \/ current' = current /\ clock' = clock + 1
    BY DEF Next, vars, timerVars, AcceptCompletes, HandleAccept,
           HandleAcceptError, HandleAcceptDangling, ReadReady, PeerCloses,
           HandleRead, HandleReadError, Consume, Serve, HandleOrphan,
           RSAKeyReceived, AuthRequestReceived, SessionKeyRequested,
           FileRequestReceived, UnsupportedCodeReceived, AuthAnswered,
           FileAnswered, ServingFails, BeginStep, StepBegins, RunTimer,
           TimerCallbackReturns, TimerCallbackThrows, EndStep, StepReturns,
           ClockTicks, Tick
  <2> QED
    BY <2>1, <2>2
<1> QED
  BY <1>1, <1>2, Invariance, PTL DEF Spec

-----------------------------------------------------------------------------
(* What the changes of the detailed state do to the abstract state.        *)

LEMMA PhaseStep ==
  ASSUME TypeOK, NEW a \in Address, NEW s,
         state' = [state EXCEPT ![a] = s]
  PROVE  phase' = [phase EXCEPT ![a] = PhaseOf(s)]
  BY DEF TypeOK, SessionTypeOK, phase

LEMMA SamePhase ==
  ASSUME TypeOK, NEW a \in Address, NEW s,
         state' = [state EXCEPT ![a] = s], PhaseOf(s) = PhaseOf(state[a])
  PROVE  phase' = phase
  BY PhaseStep DEF phase

LEMMA AbortDeadline ==
  ASSUME TypeOK, NEW a \in Address, NEW handled, Abort(a, handled)
  PROVE  /\ phase' = [phase EXCEPT ![a] = "Free"]
         /\ deadline' = [deadline EXCEPT ![a] = {}]
PROOF
<1>1. phase' = [phase EXCEPT ![a] = "Free"]
  BY PhaseStep DEF Abort, PhaseOf
<1>2. \A b \in Address : deadline'[b] = IF b = a THEN {} ELSE deadline[b]
  BY DEF Abort, RemoveAllTimers, deadline
<1> QED
  BY <1>1, <1>2 DEF deadline

LEMMA StartDeadline ==
  ASSUME NEW queue \in SUBSET Callback, NEW a \in Address,
         \A c \in queue : c.owner # a,
         \A b \in Address \ {a} : {c \in queue : c.owner = b}
                                    = {c \in callbacks : c.owner = b},
         callbacks' = StartSessionKeyUpdateTimer(queue, a)
  PROVE  deadline' = [deadline EXCEPT ![a] =
                        {clock + SESSION_KEY_UPDATE_PERIOD}]
PROOF
<1> DEFINE time == clock + SESSION_KEY_UPDATE_PERIOD
           new == [owner |-> a, executionTime |-> time, copy |-> 0]
<1>1. callbacks' = queue \cup {new}
  BY AddFirstTimer DEF StartSessionKeyUpdateTimer
<1>2. new.owner = a /\ new.executionTime = time
  OBVIOUS
<1>3. {d \in callbacks' : d.owner = a} = {new}
  BY <1>1, <1>2
<1>4. deadline'[a] = {time}
  BY <1>2, <1>3 DEF deadline
<1>5. \A b \in Address \ {a} :
        {d \in callbacks' : d.owner = b} = {d \in callbacks : d.owner = b}
  BY <1>1, <1>2
<1>6. \A b \in Address \ {a} : deadline'[b] = deadline[b]
  BY <1>5 DEF deadline
<1> QED
  BY <1>4, <1>6 DEF deadline

-----------------------------------------------------------------------------
(* The steps.                                                              *)

abstract == <<phase, deadline, clock, stepAborts, ~ up>>

LEMMA Stutter ==
  ASSUME UNCHANGED abstract
  PROVE  UNCHANGED Lifecycle!vars
  BY DEF abstract, Lifecycle!vars, phase, deadline

LEMMA AcceptStep ==
  ASSUME Inv, HandleAccept \/ HandleAcceptError
  PROVE  Lifecycle!Next \/ UNCHANGED Lifecycle!vars
PROOF
<1> DEFINE a == accept.session
<1>0. /\ TypeOK
      /\ PhaseOf("Initial") = "Greeting" /\ PhaseOf("Freed") = "Free"
      /\ PhaseOf("Constructed") = "Listening"
  BY DEF Inv, PhaseOf
<1>1. a \in Address /\ phase[a] = "Listening"
  BY DEF Inv, TypeOK, OneSessionListens, HandleAccept, HandleAcceptError,
         phase, PhaseOf
<1>2. /\ deadline' = deadline
      /\ UNCHANGED <<clock, stepAborts, up>>
  BY DEF HandleAccept, HandleAcceptError, timerVars, deadline
<1>3. CASE HandleAccept
  <2>1. PICK b \in Address \ live :
          state' = [state EXCEPT ![a] = "Initial", ![b] = "Constructed"]
    BY <1>3 DEF HandleAccept
  <2>2. phase[b] = "Free"
    BY <2>1 DEF live, phase, PhaseOf
  <2>3. phase' = [phase EXCEPT ![a] = "Greeting", ![b] = "Listening"]
    <3>1. phase' = [phase EXCEPT ![a] = PhaseOf("Initial"),
                                 ![b] = PhaseOf("Constructed")]
      BY <1>0, <1>1, <2>1 DEF TypeOK, SessionTypeOK, phase
    <3> QED
      BY <1>0, <3>1
  <2>4. Lifecycle!Connect(a, b)
    BY <1>1, <1>2, <2>1, <2>2, <2>3 DEF Lifecycle!Connect, phase, deadline
  <2> QED
    BY <1>1, <2>1, <2>4 DEF Lifecycle!Next
<1>4. CASE HandleAcceptError
  <2>1. PICK b \in (Address \ live) \cup {a} :
          state' = [state EXCEPT ![a] = "Freed", ![b] = "Constructed"]
    BY <1>4 DEF HandleAcceptError
  <2>2. CASE b = a
    <3>1. phase' = phase
      BY <1>1, <2>1, <2>2 DEF phase, PhaseOf, Inv, TypeOK, SessionTypeOK
    <3> QED
      BY <1>2, <3>1, Stutter DEF abstract
  <2>3. CASE b # a
    <3>1. b \in Address /\ phase[b] = "Free"
      BY <2>1, <2>3 DEF live, phase, PhaseOf
    <3>2. phase' = [phase EXCEPT ![a] = "Free", ![b] = "Listening"]
      <4>1. phase' = [phase EXCEPT ![a] = PhaseOf("Freed"),
                                   ![b] = PhaseOf("Constructed")]
        BY <1>0, <1>1, <2>1, <3>1 DEF TypeOK, SessionTypeOK, phase
      <4> QED
        BY <1>0, <4>1
    <3>3. Lifecycle!Relisten(a, b)
      BY <1>1, <1>2, <3>1, <3>2 DEF Lifecycle!Relisten, phase, deadline
    <3> QED
      BY <1>1, <3>1, <3>3 DEF Lifecycle!Next
  <2> QED
    BY <2>2, <2>3
<1> QED
  BY <1>3, <1>4

\* The handlers that only move input about.
LEMMA QuietStep ==
  ASSUME \/ AcceptCompletes \/ BeginStep \/ (Inv /\ EndStep)
         \/ \E a \in Address : ReadReady(a) \/ PeerCloses(a) \/ HandleRead(a)
  PROVE  UNCHANGED Lifecycle!vars
PROOF
<1>1. UNCHANGED <<state, callbacks, clock, stepAborts, up>>
  BY DEF AcceptCompletes, BeginStep, StepBegins, EndStep, StepReturns,
         ReadReady, ReadCompletes, ReadFails, PeerCloses, HandleRead,
         ReadHandlerBegins, timerVars, sessionVars, serverVars, Inv,
         NoRetryIsLost
<1> QED
  BY <1>1, Stutter DEF abstract, phase, deadline

LEMMA EndOfSession ==
  ASSUME TypeOK, NEW a \in Address, NEW handled, Abort(a, handled),
         state[a] \in Waiting \cup Serving,
         UNCHANGED <<clock, up, stepAborts>>
  PROVE  Lifecycle!Next
PROOF
<1>1. phase[a] \in {"Greeting", "Keyed", "Authenticated"}
  BY DEF phase, PhaseOf, Waiting, Serving
<1>2. Lifecycle!End(a)
  BY <1>1, AbortDeadline DEF Lifecycle!End, Lifecycle!Close, phase, deadline
<1> QED
  BY <1>2 DEF Lifecycle!Next

LEMMA ConsumeStep ==
  ASSUME Inv, NEW a \in Address, Consume(a)
  PROVE  Lifecycle!Next \/ UNCHANGED Lifecycle!vars
PROOF
<1> USE DEF Inv, Consume, timerVars
<1>0. UNCHANGED <<clock, up, stepAborts>>
  BY DEF RSAKeyReceived, AuthRequestReceived, SessionKeyRequested,
         FileRequestReceived, UnsupportedCodeReceived
<1> PICK code \in Code :
           \/ RSAKeyReceived(a, code)
           \/ AuthRequestReceived(a, code)
           \/ SessionKeyRequested(a, code)
           \/ FileRequestReceived(a, code)
           \/ UnsupportedCodeReceived(a, code)
  OBVIOUS
<1>1. CASE Abort(a, 0)
  <2>1. state[a] \in Waiting
    BY DEF RSAKeyReceived, AuthRequestReceived, SessionKeyRequested,
           FileRequestReceived, UnsupportedCodeReceived, Waiting
  <2> QED
    BY <1>0, <1>1, <2>1, EndOfSession
<1>2. CASE ~ Abort(a, 0)
  <2>1. UNCHANGED callbacks /\ deadline' = deadline
    BY <1>2 DEF RSAKeyReceived, AuthRequestReceived, SessionKeyRequested,
       FileRequestReceived, UnsupportedCodeReceived, deadline
  <2>2. CASE state[a] = "Initial" /\ EnterWaiting(a, "WaitingForAuth")
    <3>1. phase[a] = "Greeting" /\ phase' = [phase EXCEPT ![a] = "Keyed"]
      BY <2>2, PhaseStep DEF EnterWaiting, phase, PhaseOf
    <3>2. Lifecycle!AgreeKey(a)
      BY <1>0, <2>1, <3>1 DEF Lifecycle!AgreeKey, phase, deadline
    <3> QED
      BY <3>2 DEF Lifecycle!Next
  <2>3. CASE \/ /\ state[a] = "WaitingForAuth"
                /\ state' = [state EXCEPT ![a] = "ValidatingAuth"]
             \/ /\ state[a] = "WaitingForQueries"
                /\ \/ state' = [state EXCEPT ![a] = "SendingFile"]
                   \/ EnterWaiting(a, "WaitingForQueries")
    <3>1. phase' = phase
      BY <2>3, SamePhase DEF EnterWaiting, PhaseOf
    <3> QED
      BY <1>0, <2>1, <3>1, Stutter DEF abstract
  <2>4. CASE /\ state[a] = "Initial"
             /\ state' = [state EXCEPT ![a] = "SessionKeyGeneration"]
    <3>1. phase' = phase
      BY <2>4, SamePhase DEF PhaseOf
    <3> QED
      BY <1>0, <2>1, <3>1, Stutter DEF abstract
  <2> QED
    BY <1>2, <2>2, <2>3, <2>4
    DEF RSAKeyReceived, AuthRequestReceived, SessionKeyRequested,
        FileRequestReceived, UnsupportedCodeReceived
<1> QED
  BY <1>1, <1>2

LEMMA ServeStep ==
  ASSUME Inv, NEW a \in Address, Serve(a)
  PROVE  Lifecycle!Next \/ UNCHANGED Lifecycle!vars
PROOF
<1> USE DEF Inv, Serve
<1>0. UNCHANGED <<clock, up, stepAborts>>
  BY DEF ServingFails, AuthAnswered, FileAnswered, timerVars
<1>1. CASE ServingFails(a)
  BY <1>0, <1>1, EndOfSession DEF ServingFails
<1>2. CASE /\ state[a] = "ValidatingAuth"
           /\ EnterWaiting(a, "WaitingForQueries")
           /\ callbacks' = StartSessionKeyUpdateTimer(callbacks, a)
  <2>1. /\ phase[a] = "Keyed"
        /\ phase' = [phase EXCEPT ![a] = "Authenticated"]
    BY <1>2, PhaseStep DEF EnterWaiting, phase, PhaseOf
  <2>2. \A c \in callbacks : c.owner # a
    BY <1>2 DEF OneTimerPerSession, Authenticated
  <2>3. deadline' = [deadline EXCEPT ![a] =
                       {clock + SESSION_KEY_UPDATE_PERIOD}]
    BY <1>2, <2>2, StartDeadline DEF TypeOK, TimerTypeOK
  <2>4. Lifecycle!Authenticate(a)
    BY <1>0, <2>1, <2>3 DEF Lifecycle!Authenticate, phase, deadline
  <2> QED
    BY <2>4 DEF Lifecycle!Next
<1>3. CASE /\ UNCHANGED callbacks
           /\ \/ /\ state[a] = "ValidatingAuth"
                 /\ EnterWaiting(a, "WaitingForAuth")
              \/ /\ state[a] = "SendingFile"
                 /\ EnterWaiting(a, "WaitingForQueries")
  <2>1. phase' = phase /\ deadline' = deadline
    BY <1>3, SamePhase DEF EnterWaiting, PhaseOf, deadline
  <2> QED
    BY <1>0, <2>1, Stutter DEF abstract
<1> QED
  BY <1>1, <1>2, <1>3 DEF AuthAnswered, FileAnswered, timerVars

LEMMA OrphanStep ==
  ASSUME Inv, \/ HandleAcceptDangling
              \/ \E a \in Address : HandleOrphan(a)
  PROVE  Lifecycle!Next
PROOF
<1> USE DEF Inv
<1>1. stepAborts /\ stepAborts' = stepAborts
  BY DEF OnlyStepAbortsBreak, HandleAcceptDangling, HandleOrphan, TypeOK,
         SessionTypeOK
<1>2. CASE up' = FALSE /\ UNCHANGED <<timerVars, sessionVars>>
  <2>1. Lifecycle!Crash
    BY <1>1, <1>2 DEF Lifecycle!Crash, timerVars, sessionVars
  <2> QED
    BY <2>1 DEF Lifecycle!Next
<1>3. ASSUME NEW a \in Address, Abort(a, 1), UNCHANGED <<clock, up>>
      PROVE  Lifecycle!Next
  <2>1. Lifecycle!Lose(a)
    BY <1>1, <1>3, AbortDeadline
    DEF Lifecycle!Lose, Lifecycle!Close, phase, deadline
  <2> QED
    BY <2>1 DEF Lifecycle!Next
<1> QED
  BY <1>2, <1>3 DEF HandleAcceptDangling, HandleOrphan

LEMMA TimerStep ==
  ASSUME Inv, StepIsLate, RunTimer
  PROVE  Lifecycle!Next
PROOF
<1> USE DEF Inv, RunTimer
<1> PICK c \in Due(callbacks, current) :
           \/ TimerCallbackReturns(c) /\ UNCHANGED <<loop, stepAborts>>
           \/ TimerCallbackThrows(c) /\ loop' = "Poll" /\ stepAborts' = TRUE
  OBVIOUS
<1> DEFINE a == c.owner
<1>1. /\ c \in callbacks /\ a \in Address /\ a \in Authenticated
      /\ c.executionTime \in Nat /\ c.executionTime <= current
  BY DEF Due, Tops, OneTimerPerSession, TypeOK, TimerTypeOK, Callback, Address
<1>2. state[a] = "WaitingForQueries"
  BY <1>1, NoSessionAssumption DEF Authenticated, ReadMatchesState, Serving
<1>3. c.executionTime \in deadline[a] /\ c.executionTime <= clock
  BY <1>1 DEF deadline, StepIsLate, TypeOK, TimerTypeOK
<1>4. Lifecycle!Overdue(a)
  BY <1>3 DEF Lifecycle!Overdue, deadline
<1>5. CASE TimerCallbackReturns(c) /\ UNCHANGED <<loop, stepAborts>>
  <2>1. /\ EnterWaiting(a, "WaitingForQueries")
        /\ callbacks' = StartSessionKeyUpdateTimer(callbacks \ {c}, a)
        /\ UNCHANGED clock
    BY <1>2, <1>5 DEF TimerCallbackReturns
  <2>2. phase' = phase
    BY <1>1, <1>2, <2>1, SamePhase DEF EnterWaiting
  <2>3. deadline' = [deadline EXCEPT ![a] =
                       {clock + SESSION_KEY_UPDATE_PERIOD}]
    <3>1. callbacks \ {c} \in SUBSET Callback
      BY DEF TypeOK, TimerTypeOK
    <3>2. \A d \in callbacks \ {c} : d.owner # a
      BY <1>1 DEF OneTimerPerSession
    <3>3. \A b \in Address \ {a} : {d \in callbacks \ {c} : d.owner = b}
                                     = {d \in callbacks : d.owner = b}
      OBVIOUS
    <3> HIDE DEF a
    <3> QED
      BY <1>1, <2>1, <3>1, <3>2, <3>3, StartDeadline
  <2>4. Lifecycle!Rekey(a)
    BY <1>4, <1>5, <2>1, <2>2, <2>3 DEF Lifecycle!Rekey, phase, deadline
  <2> QED
    BY <1>1, <2>4 DEF Lifecycle!Next
<1>6. CASE TimerCallbackThrows(c) /\ loop' = "Poll" /\ stepAborts' = TRUE
  <2>1. /\ phase' = [phase EXCEPT ![a] = "Free"]
        /\ deadline' = [deadline EXCEPT ![a] = {}]
        /\ UNCHANGED clock
    BY <1>1, <1>6, AbortDeadline DEF TimerCallbackThrows
  <2>2. Lifecycle!RekeyFails(a)
    BY <1>4, <1>6, <2>1
    DEF Lifecycle!RekeyFails, Lifecycle!Close, phase, deadline
  <2> QED
    BY <1>1, <2>2 DEF Lifecycle!Next
<1> QED
  BY <1>5, <1>6

LEMMA NextStep ==
  ASSUME Inv, StepIsLate, [Next]_vars
  PROVE  Lifecycle!Next \/ UNCHANGED Lifecycle!vars
PROOF
<1>1. CASE UNCHANGED vars
  BY <1>1, Stutter
  DEF vars, timerVars, sessionVars, serverVars, abstract, phase, deadline
<1>2. CASE \E a \in Address : HandleReadError(a)
  <2>1. PICK a \in Address : HandleReadError(a)
    BY <1>2
  <2>2. state[a] \in Waiting
    BY <2>1 DEF HandleReadError, Polling, Inv, ReadMatchesState
  <2> QED
    BY <2>1, <2>2, EndOfSession DEF HandleReadError, serverVars, Inv
<1>3. CASE ClockTicks
  <2>1. Lifecycle!TimePasses
    BY <1>3 DEF ClockTicks, Tick, sessionVars, serverVars, Lifecycle!TimePasses
  <2> QED
    BY <2>1 DEF Lifecycle!Next
<1> QED
  BY <1>1, <1>2, <1>3, AcceptStep, QuietStep, ConsumeStep, ServeStep,
     OrphanStep, TimerStep DEF Next

LEMMA InitStep == Init => Lifecycle!Init
PROOF
<1> SUFFICES ASSUME Init PROVE Lifecycle!Init
  OBVIOUS
<1> PICK a \in Address :
           state = [b \in Address |-> IF b = a THEN "Constructed" ELSE "Freed"]
  BY DEF Init
<1>1. phase = [b \in Address |-> IF b = a THEN "Listening" ELSE "Free"]
  BY DEF phase, PhaseOf
<1>2. deadline = [b \in Address |-> {}]
  BY DEF Init, TimerInit, deadline
<1> QED
  BY <1>1, <1>2 DEF Lifecycle!Init, Init, TimerInit, phase, deadline

\* The server keeps the promises of SessionLifecycle: clients are served only
\* after the key exchange and the authentication, each session has one key
\* update deadline and is never rekeyed early, and until a scheduled update
\* fails a session ends only by its own doing and the program stays up.
THEOREM Refinement == Spec => ImplementsLifecycle
PROOF
<1>1. Inv /\ StepIsLate /\ [Next]_vars => [Lifecycle!Next]_(Lifecycle!vars)
  BY NextStep
<1> QED
  BY <1>1, InitStep, Invariance, LateInvariant, PTL
  DEF Spec, ImplementsLifecycle, Lifecycle!Spec

===============================================================================
