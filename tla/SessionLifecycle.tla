--------------------------- MODULE SessionLifecycle ---------------------------
(***************************************************************************)
(* What the file server promises about its sessions, without its thread,   *)
(* handlers, reads and timer queue: the order in which a session advances, *)
(* one deadline per authenticated session for the next session key, and    *)
(* that nothing but a failed scheduled key update can break the server.    *)
(* The module Server implements it.                                        *)
(***************************************************************************)
EXTENDS Naturals

CONSTANTS
  Address,                    \* where sessions live
  SESSION_KEY_UPDATE_PERIOD   \* the time between two scheduled session keys

VARIABLES
  phase,      \* how far each session has come
  deadline,   \* when the session key is to be changed: no time or one
  now,
  broken,     \* a scheduled key update has failed
  crashed     \* the program is gone

vars == <<phase, deadline, now, broken, crashed>>

Phase == {"Free", "Listening", "Greeting", "Keyed", "Authenticated"}

Init ==
  /\ \E a \in Address :
       phase = [b \in Address |-> IF b = a THEN "Listening" ELSE "Free"]
  /\ deadline = [a \in Address |-> {}]
  /\ now = 0
  /\ broken = FALSE
  /\ crashed = FALSE

\* A client connects to session a, and b listens for the next one.
Connect(a, b) ==
  /\ phase[a] = "Listening"
  /\ phase[b] = "Free"
  /\ phase' = [phase EXCEPT ![a] = "Greeting", ![b] = "Listening"]
  /\ UNCHANGED <<deadline, now, broken, crashed>>

\* The listening session is replaced by one at another address.
Relisten(a, b) ==
  /\ phase[a] = "Listening"
  /\ phase[b] = "Free"
  /\ phase' = [phase EXCEPT ![a] = "Free", ![b] = "Listening"]
  /\ UNCHANGED <<deadline, now, broken, crashed>>

\* The client's public key is received and answered with a session key.
AgreeKey(a) ==
  /\ phase[a] = "Greeting"
  /\ phase' = [phase EXCEPT ![a] = "Keyed"]
  /\ UNCHANGED <<deadline, now, broken, crashed>>

Authenticate(a) ==
  /\ phase[a] = "Keyed"
  /\ phase' = [phase EXCEPT ![a] = "Authenticated"]
  /\ deadline' = [deadline EXCEPT ![a] = {now + SESSION_KEY_UPDATE_PERIOD}]
  /\ UNCHANGED <<now, broken, crashed>>

Overdue(a) == \E t \in deadline[a] : t <= now

\* The scheduled session key update, never early.
Rekey(a) ==
  /\ Overdue(a)
  /\ deadline' = [deadline EXCEPT ![a] = {now + SESSION_KEY_UPDATE_PERIOD}]
  /\ UNCHANGED <<phase, now, broken, crashed>>

Close(a) ==
  /\ phase' = [phase EXCEPT ![a] = "Free"]
  /\ deadline' = [deadline EXCEPT ![a] = {}]
  /\ UNCHANGED <<now, crashed>>

\* The session ends because of its own connection or its own input.
End(a) ==
  /\ phase[a] \in {"Greeting", "Keyed", "Authenticated"}
  /\ Close(a)
  /\ UNCHANGED broken

\* The scheduled update finds the connection broken.
RekeyFails(a) ==
  /\ Overdue(a)
  /\ Close(a)
  /\ broken' = TRUE

\* From then on any session may end through no fault of its own...
Lose(a) ==
  /\ broken
  /\ Close(a)
  /\ UNCHANGED broken

\* ... and the program may be gone.
Crash ==
  /\ broken
  /\ crashed' = TRUE
  /\ UNCHANGED <<phase, deadline, now, broken>>

TimePasses ==
  /\ now' = now + 1
  /\ UNCHANGED <<phase, deadline, broken, crashed>>

Next ==
  \/ \E a, b \in Address : Connect(a, b) \/ Relisten(a, b)
  \/ \E a \in Address :
       \/ AgreeKey(a)
       \/ Authenticate(a)
       \/ Rekey(a)
       \/ End(a)
       \/ RekeyFails(a)
       \/ Lose(a)
  \/ Crash
  \/ TimePasses

Spec == Init /\ [][Next]_vars

===============================================================================
