----------------------------- MODULE TimerService -----------------------------
(***************************************************************************)
(* The timer queue of the file server (Lab2/Server/TimerService.cpp): a    *)
(* static std::priority_queue of callbacks ordered by execution time, and  *)
(* the local variables of Step, which the main loop calls after every      *)
(* io_context::poll.                                                       *)
(*                                                                         *)
(* The queue is a set of records; "copy" tells apart two entries of one    *)
(* owner that are due at the same time, which the C++ queue keeps both.    *)
(* Time is what clock() returns, in ticks; MaxClock bounds it.             *)
(***************************************************************************)
EXTENDS Naturals, FiniteSets

CONSTANTS
  CallbackOwnerId,  \* owners of timers: the addresses of Session objects
  MaxClock          \* bound of the model: clock() never exceeds it

ASSUME MaxClockAssumption == MaxClock \in Nat

VARIABLES
  callbacks,    \* TimerService::callbacks_
  clock,        \* the value clock() returns now
  current,      \* Step: the time Step was entered at (0 outside Step)
  reschedule    \* Step: the popped callbacks that returned false

timerVars == <<callbacks, clock, current, reschedule>>

Callback == [owner : CallbackOwnerId, executionTime : Nat, copy : Nat]

TimerTypeOK ==
  /\ callbacks \in SUBSET Callback
  /\ clock \in Nat
  /\ current \in Nat
  /\ reschedule \in SUBSET Callback

TimerInit ==
  /\ callbacks = {}
  /\ clock = 0
  /\ current = 0
  /\ reschedule = {}

-----------------------------------------------------------------------------
(* Operations on the queue.                                                *)

\* A copy number that no queued timer of this owner and time has.
FreshCopy(queue, owner, time) ==
  LET used == {c.copy : c \in {d \in queue : d.owner = owner
                                             /\ d.executionTime = time}}
  IN  CHOOSE n \in 0 .. Cardinality(used) : n \notin used

AddTimer(queue, owner, time) ==
  queue \cup {[owner |-> owner, executionTime |-> time,
               copy |-> FreshCopy(queue, owner, time)]}

\* Mutant: the removal forgets to filter.
RemoveNoTimers(queue, owner) == queue

RemoveAllTimers(queue, owner) == {c \in queue : c.owner # owner}

\* Mutant: the queue is ordered by std::less, the latest entry on top.
TopsLatest(queue) ==
  {c \in queue : \A d \in queue : c.executionTime >= d.executionTime}

\* The entries priority_queue::top may return: one with the least time.
Tops(queue) ==
  {c \in queue : \A d \in queue : c.executionTime <= d.executionTime}

\* Mutant: the loop of Step does not look at the time.
DueAlways(queue, time) == Tops(queue)

\* The loop condition of Step, for every entry top() may return.
Due(queue, time) == {c \in Tops(queue) : c.executionTime <= time}

-----------------------------------------------------------------------------
\* clock() advances, whatever the server thread is doing.
Tick ==
  /\ clock < MaxClock
  /\ clock' = clock + 1
  /\ UNCHANGED <<callbacks, current, reschedule>>

\* Step is entered: it reads the clock once and starts with an empty list.
StepBegins ==
  /\ current' = clock
  /\ reschedule' = {}
  /\ UNCHANGED <<callbacks, clock>>

\* Nothing is due any more: what returned false is queued again, unchanged.
StepReturns ==
  /\ Due(callbacks, current) = {}
  /\ callbacks' = callbacks \cup reschedule
  /\ current' = 0
  /\ reschedule' = {}
  /\ UNCHANGED clock

===============================================================================
