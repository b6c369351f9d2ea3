------------------------------- MODULE KeyCodec -------------------------------
(***************************************************************************)
(* How a session key comes to a client: the client's RSA key and the       *)
(* encoded session key as they are put into buffers and taken out of them  *)
(* (Lab2/Server/Session.cpp, Lab2/Shared/RSA.cpp, ReadSessionKey of the Qt *)
(* and of the dummy client). RSA is computed, with numbers of KeySize      *)
(* digits for e, the primes and the session key and of MessageSize for the *)
(* rest, in the place of 16 and 32 bytes.                                  *)
(***************************************************************************)
EXTENDS Integers, Sequences

CONSTANTS
  Base,       \* what a byte can hold
  KeySize,    \* KEY_SIZE and E_SIZE
  Primes,     \* bound of the model: what random_prime returns
  MaxUpdates  \* bound of the model: session keys sent

MessageSize == 2 * KeySize
Digit == 0 .. Base - 1
baseTo[n \in 0 .. MessageSize] == IF n = 0 THEN 1 ELSE Base * baseTo[n - 1]

ASSUME CodecAssumption ==
  /\ Base \in Nat \ {0, 1} /\ KeySize \in Nat \ {0} /\ MaxUpdates \in Nat
  /\ \A p \in Primes : /\ p \in Nat \ {0, 1} /\ p < baseTo[KeySize]
                        /\ \A d \in 2 .. p - 1 : p % d # 0

VARIABLES
  rsaKey,        \* the client's n, e and d, None before they are generated
  rsaPublicKey,  \* the n and e the session read, None before
  sessionKeyDigits, \* currentSessionKey_
  wire,          \* the message on its way, <<>> when there is none
  clientDigits,  \* the currentSessionKey of a client
  downcast,      \* does the dummy client find the key to be of its size
  updates        \* session keys sent

keyVars == <<rsaKey, rsaPublicKey, sessionKeyDigits, wire, clientDigits, downcast,
             updates>>

None == <<>>

-----------------------------------------------------------------------------
(* boost::multiprecision: the most significant digit first, and none more than  *)
(* the number needs.                                                       *)

ImportBits(digits) ==
  LET value[n \in 0 .. Len(digits)] ==
        IF n = 0 THEN 0 ELSE Base * value[n - 1] + digits[n]
  IN  value[Len(digits)]

ExportBits(value) ==
  LET size == CHOOSE n \in 1 .. MessageSize :
                value < baseTo[n] /\ (n > 1 => value >= baseTo[n - 1])
  IN  [i \in 1 .. size |-> (value \div baseTo[size - i]) % Base]

\* A number written over the beginning of what was in the buffer.
Over(buffer, digits) ==
  [i \in DOMAIN buffer |-> IF i <= Len(digits) THEN digits[i] ELSE buffer[i]]

Power(value, exponent, n) ==
  LET power[k \in 0 .. exponent] ==
        IF k = 0 THEN 1 % n ELSE (power[k - 1] * value) % n
  IN  power[exponent]

Encode(publicKey, value) == Power(value, publicKey.e, publicKey.n)
Decode(privateKey, value) == Power(value, privateKey.d, privateKey.n)

\* The keys GenerateKeys may return. The two primes differ: the clock that
\* seeds random_prime has moved on between its calls.
GenerateKeys ==
  {[n |-> k[1] * k[2], e |-> k[3], d |-> k[4]] :
     k \in {c \in Primes \X Primes \X Primes \X (1 .. baseTo[MessageSize]) :
             LET secret == (c[1] - 1) * (c[2] - 1) IN
             c[1] < c[2] /\ c[3] < secret /\ c[4] < secret /\ (c[3] * c[4]) % secret = 1}}

-----------------------------------------------------------------------------

KeyInit ==
  /\ rsaKey = None
  /\ rsaPublicKey = None
  /\ sessionKeyDigits = None
  /\ wire = <<>>
  /\ clientDigits = None
  /\ downcast = TRUE
  /\ updates = 0

\* A buffer that was not cleared holds what it did.
Stale(size) == [1 .. size -> Digit]

SendRSAKey ==
  /\ rsaKey = None
  /\ rsaKey' \in GenerateKeys
  /\ \E n \in Stale(MessageSize), e \in Stale(KeySize) :
       wire' = Over(n, ExportBits(rsaKey'.n)) \o Over(e, ExportBits(rsaKey'.e))
  /\ UNCHANGED <<rsaPublicKey, sessionKeyDigits, clientDigits, downcast, updates>>

\* The session is new, and so is what it has for a session key.
ReadRSAKey ==
  /\ rsaPublicKey = None /\ wire # <<>>
  /\ sessionKeyDigits' \in Stale(KeySize)
  /\ rsaPublicKey' = [n |-> ImportBits(SubSeq(wire, 1, MessageSize)),
                      e |-> ImportBits(SubSeq(wire, MessageSize + 1, Len(wire)))]
  /\ wire' = <<>>
  /\ UNCHANGED <<rsaKey, clientDigits, downcast, updates>>

\* Mutant: the number generated is sent, and not the digits that are kept.
WriteSessionKeyGenerated ==
  /\ rsaPublicKey # None /\ wire = <<>>
  /\ updates < MaxUpdates
  /\ updates' = updates + 1
  /\ \E generated \in 0 .. baseTo[KeySize] - 1, buffer \in Stale(MessageSize) :
       LET digits == Over(sessionKeyDigits, ExportBits(generated)) IN
       /\ sessionKeyDigits' = digits
       /\ wire' = Over(buffer, ExportBits(Encode(rsaPublicKey, generated)))
  /\ UNCHANGED <<rsaKey, rsaPublicKey, clientDigits, downcast>>

\* GenerateSessionKey and WriteSessionKey; the buffer holds some request.
WriteSessionKey ==
  /\ rsaPublicKey # None /\ wire = <<>>
  /\ updates < MaxUpdates
  /\ updates' = updates + 1
  /\ \E generated \in 0 .. baseTo[KeySize] - 1, buffer \in Stale(MessageSize) :
       LET digits == Over(sessionKeyDigits, ExportBits(generated)) IN
       /\ sessionKeyDigits' = digits
       /\ wire' = Over(buffer, ExportBits(Encode(rsaPublicKey, ImportBits(digits))))
  /\ UNCHANGED <<rsaKey, rsaPublicKey, clientDigits, downcast>>

\* ReadSessionKey of both clients: the first half of the decoded key is the
\* session key. The dummy client refuses a key with a second half.
ReadSessionKey ==
  /\ rsaPublicKey # None /\ wire # <<>>
  /\ LET cleared == [i \in 1 .. MessageSize |-> 0]
         digits == Over(cleared, ExportBits(Decode(rsaKey, ImportBits(wire))))
     IN  /\ clientDigits' = SubSeq(digits, 1, KeySize)
         /\ downcast' = (\A i \in KeySize + 1 .. MessageSize : digits[i] = 0)
  /\ wire' = <<>>
  /\ UNCHANGED <<rsaKey, rsaPublicKey, sessionKeyDigits, updates>>

KeyNext == SendRSAKey \/ ReadRSAKey \/ WriteSessionKey \/ ReadSessionKey

KeySpec == KeyInit /\ [][KeyNext]_keyVars

-----------------------------------------------------------------------------
(* Properties. *)

Fills(value, size) == value >= baseTo[size - 1]

\* The key a client has read is the key of the session, and the dummy client
\* takes it, unless one of the numbers sent begins with a zero, which is one in
\* Base for each: then its digits move up and what was in the buffer follows.
\* A session key that was generated with a leading zero is no such number: the
\* last digits of the key before it fill it up, and that is the key sent.
KeyArrives ==
  LET key == ImportBits(sessionKeyDigits) IN
  /\ wire = <<>> /\ clientDigits # None
  /\ Fills(rsaKey.n, MessageSize) /\ Fills(rsaKey.e, KeySize)
  /\ Fills(key, KeySize) /\ Fills(Encode(rsaKey, key), MessageSize)
  => clientDigits = sessionKeyDigits /\ downcast
===============================================================================
