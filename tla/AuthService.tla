------------------------------ MODULE AuthService ------------------------------
(***************************************************************************)
(* AuthService::Check (Lab2/Server/AuthService.cpp): the table of hashes,  *)
(* which is read from auth.hashes when a check finds it empty and kept     *)
(* from then on. Hashes are model values; two strings have the same hash   *)
(* when they are the same string.                                          *)
(*                                                                         *)
(* The file is what others leave there, at any time: complete, or cut off  *)
(* at any place.                                                           *)
(***************************************************************************)
EXTENDS Naturals, Sequences

CONSTANTS
  Hash,      \* MD5::Hash
  MaxHashes  \* bound of the model: the count in the file

\* What is in a hash that was read in part, or never: not what a password that
\* a client sends is hashed to.
Garbage == "Garbage"

ASSUME HashAssumption == MaxHashes \in Nat /\ Garbage \notin Hash

VARIABLES
  authFile,             \* auth.hashes
  loginPasswordHashes,  \* the table
  loadedFrom,           \* history: the file the table was read from
  checked               \* history: the last check and its result

authVars == <<authFile, loginPasswordHashes, loadedFrom, checked>>

\* The count says how many pairs follow; hashes are those that are there, and
\* cut says that the file ends inside the next one. There is no file, or one
\* that ends before the count does, when the count is 0 and hashes is empty.
AuthFile ==
  {file \in [count  : 0 .. MaxHashes,
             hashes : UNION {[1 .. n -> Hash] : n \in 0 .. 2 * MaxHashes},
             cut    : BOOLEAN] :
     Len(file.hashes) + (IF file.cut THEN 1 ELSE 0) <= 2 * file.count}

\* Mutant: insert () in the place of operator [].
WithInserted(table, login, password) ==
  [h \in DOMAIN table \cup {login} |-> IF h \in DOMAIN table THEN table[h] ELSE password]

With(table, login, password) ==
  [h \in DOMAIN table \cup {login} |-> IF h = login THEN password ELSE table[h]]

\* passwordHash after one more read: the hash there, what was read of it, or
\* else the password before.
ReadPassword(file, at, before) ==
  IF at <= Len(file.hashes) THEN file.hashes[at]
  ELSE IF file.cut /\ at = Len(file.hashes) + 1 THEN Garbage
  ELSE before

\* passwordHash after n turns of the loop.
PasswordAfter(file) ==
  LET password[n \in 0 .. file.count] ==
        IF n = 0 THEN Garbage ELSE ReadPassword(file, 2 * n, password[n - 1])
  IN  password

\* The table after n turns of the loop, which ends at a login that cannot be
\* read.
TableAfter(file) ==
  LET table[n \in 0 .. file.count] ==
        IF n = 0 THEN <<>>
        ELSE IF 2 * n - 1 > Len(file.hashes) THEN table[n - 1]
        ELSE With(table[n - 1], file.hashes[2 * n - 1], PasswordAfter(file)[n])
  IN  table

Load(file) == TableAfter(file)[file.count]

-----------------------------------------------------------------------------

NoFile == [count |-> 0, hashes |-> <<>>, cut |-> FALSE]

AuthInit ==
  /\ authFile = NoFile
  /\ loginPasswordHashes = <<>>
  /\ loadedFrom = authFile
  /\ checked = <<>>

\* Somebody writes the file anew.
WriteFile ==
  /\ authFile' \in AuthFile
  /\ UNCHANGED <<loginPasswordHashes, loadedFrom, checked>>

\* A table that is empty once more is read once more.
Check(login, password) ==
  /\ IF loginPasswordHashes = <<>>
       THEN loginPasswordHashes' = Load(authFile) /\ loadedFrom' = authFile
       ELSE UNCHANGED <<loginPasswordHashes, loadedFrom>>
  /\ LET table == loginPasswordHashes' IN
       checked' = [login |-> login, password |-> password,
                   result |-> login \in DOMAIN table /\ table[login] = password]
  /\ UNCHANGED authFile

AuthNext == WriteFile \/ \E login, password \in Hash : Check(login, password)

AuthSpec == AuthInit /\ [][AuthNext]_authVars

-----------------------------------------------------------------------------
(* Properties. *)

Pairs(file) == {n \in 1 .. file.count : 2 * n <= Len(file.hashes)}
Login(file, n) == file.hashes[2 * n - 1]
Password(file, n) == file.hashes[2 * n]

\* A login is approved with the last password listed for it in the file that
\* the table was read from, whatever became of the file since, and with no
\* other; except that the login after which a file is cut off is approved with
\* the password of the pair before it (AuthService.cpp:62).
ChecksAgainstFile ==
  checked # <<>> =>
    LET file == loadedFrom
        length == Len(file.hashes)
        IsLast(n) == /\ Login(file, n) = checked.login
                     /\ \A k \in Pairs(file) : k > n => Login(file, k) # checked.login
    IN  IF length % 2 = 1 /\ checked.login = file.hashes[length]
          THEN checked.result <=> /\ length > 1 /\ ~ file.cut
                                  /\ checked.password = file.hashes[length - 1]
          ELSE checked.result <=> \E n \in Pairs(file) :
                                    IsLast(n) /\ Password(file, n) = checked.password
===============================================================================
