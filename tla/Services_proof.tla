---------------------------- MODULE Services_proof ----------------------------
(***************************************************************************)
(* Proofs about what the services of the server are built of. About        *)
(* AuthService::Check, for every set of hashes and every file that may be  *)
(* there: what the loop over a file leaves in the table, and with it that  *)
(* a login is checked against the file the table was read from. About      *)
(* MD5Hasher, for all sizes and every length of the text: that the count   *)
(* carries from word to word as the number of bits does, that what has     *)
(* been given to update is in the blocks and the buffer whatever it came   *)
(* in, and with it that the blocks hashed are those of the padded text.    *)
(* About the transfer of a file, for every size of blocks and of buffers   *)
(* and every length of the file: that what a client reads is the file, and *)
(* that it takes no other byte from the stream.                            *)
(***************************************************************************)
EXTENDS AuthService, MD5, FileTransfer, NaturalRecursion

-----------------------------------------------------------------------------
(* The loop of Check over a file.                                          *)

\* What a read of a password leaves, and the tables that are made of that.
PasswordHash == Hash \cup {Garbage}
Tables == UNION {[logins -> PasswordHash] : logins \in SUBSET Hash}

\* The hashes of a file are a sequence that its count is enough for.
LEMMA FileTypes ==
  ASSUME NEW file \in AuthFile
  PROVE  /\ file.count \in Nat
         /\ file.hashes \in Seq(Hash)
         /\ Len(file.hashes) \in Nat /\ Len(file.hashes) <= 2 * file.count
         /\ \A i \in 1 .. Len(file.hashes) : file.hashes[i] \in Hash
PROOF
<1>1. file.count \in Nat /\ file.cut \in BOOLEAN
  BY HashAssumption DEF AuthFile
<1>2. file.hashes \in Seq(Hash)
  <2>1. PICK n \in 0 .. 2 * MaxHashes : file.hashes \in [1 .. n -> Hash]
    BY DEF AuthFile
  <2> QED
    BY <2>1, HashAssumption
<1>3. Len(file.hashes) \in Nat
  BY <1>2
<1>4. Len(file.hashes) + (IF file.cut THEN 1 ELSE 0) <= 2 * file.count
  BY DEF AuthFile
<1>5. Len(file.hashes) <= 2 * file.count
  <2>1. CASE file.cut
    BY <1>1, <1>3, <1>4, <2>1
  <2>2. CASE ~ file.cut
    BY <1>1, <1>3, <1>4, <2>2
  <2> QED
    BY <2>1, <2>2
<1> QED
  BY <1>1, <1>2, <1>3, <1>5

\* The password after each turn is a hash, or what a read that failed left.
LEMMA PasswordEquations ==
  ASSUME NEW file \in AuthFile
  PROVE  /\ PasswordAfter(file) \in [0 .. file.count -> PasswordHash]
         /\ PasswordAfter(file)[0] = Garbage
         /\ \A n \in 1 .. file.count :
              PasswordAfter(file)[n] =
                ReadPassword(file, 2 * n, PasswordAfter(file)[n - 1])
PROOF
<1> DEFINE last == file.count
           Body(f) == [n \in 0 .. last |->
                         IF n = 0 THEN Garbage
                                  ELSE ReadPassword(file, 2 * n, f[n - 1])]
           turn == [n \in 1 .. last |->
                      [before \in PasswordHash |->
                         ReadPassword(file, 2 * n, before)]]
<1>1. turn \in [1 .. last -> [PasswordHash -> PasswordHash]]
  <2> SUFFICES ASSUME NEW n \in 1 .. last, NEW before \in PasswordHash
               PROVE  ReadPassword(file, 2 * n, before) \in PasswordHash
    OBVIOUS
  <2> QED
    BY FileTypes DEF ReadPassword, PasswordHash
<1>2. PICK f \in [0 .. last -> PasswordHash] :
        f[0] = Garbage /\ \A n \in 1 .. last : f[n] = turn[n][f[n - 1]]
  <2>1. Garbage \in PasswordHash /\ last \in Nat
    BY FileTypes DEF PasswordHash
  <2> HIDE DEF turn, last, Body
  <2>2. HasRecursion(last, PasswordHash)
    BY <2>1, RecursionExists, Zenon
  <2> QED
    BY <1>1, <2>1, <2>2 DEF HasRecursion
<1>3. \A n \in 1 .. last : f[n - 1] \in PasswordHash
  BY <1>2, FileTypes
<1>4. \A n \in 1 .. last : f[n] = ReadPassword(file, 2 * n, f[n - 1])
  BY <1>2, <1>3
<1>5. f = Body(f)
  <2>1. \A n \in 0 .. last : f[n] = Body(f)[n]
    BY <1>2, <1>4, FileTypes
  <2> QED
    BY <1>2, <2>1
<1>6. PasswordAfter(file) = CHOOSE g : g = Body(g)
  BY DEF PasswordAfter
<1>7. PasswordAfter(file) = Body(PasswordAfter(file))
  <2> HIDE DEF Body
  <2> QED
    BY <1>5, <1>6
<1> DEFINE password == PasswordAfter(file)
<1>8. /\ password = [n \in 0 .. last |-> password[n]]
      /\ password[0] = Garbage
      /\ \A n \in 1 .. last :
           password[n] = ReadPassword(file, 2 * n, password[n - 1])
  <2> HIDE DEF password
  <2>1. password = Body(password)
    BY <1>7 DEF password
  <2>2. \A n \in 0 .. last : password[n] = Body(password)[n]
    BY <2>1
  <2>3. last \in Nat
    BY FileTypes
  <2> QED
    BY <2>1, <2>2, <2>3
<1>9. \A n \in 0 .. last : password[n] \in PasswordHash
  <2> DEFINE S == {n \in 0 .. last : password[n] \in PasswordHash}
  <2>1. last \in Nat
    BY FileTypes
  <2>2. 0 \in S
    BY <1>8, <2>1 DEF PasswordHash
  <2>3. ASSUME NEW n \in S, n \in 0 .. last - 1
        PROVE  n + 1 \in S
    <3>1. n + 1 \in 1 .. last /\ (n + 1) - 1 = n
      BY <2>1, <2>3
    <3>2. password[n + 1] = ReadPassword(file, 2 * (n + 1), password[n])
      BY <1>8, <3>1
    <3>3. ReadPassword(file, 2 * (n + 1), password[n]) \in PasswordHash
      BY <2>1, <3>1, FileTypes DEF ReadPassword, PasswordHash
    <3> QED
      BY <2>1, <3>1, <3>2, <3>3
  <2>4. 0 .. last \subseteq S
    <3> HIDE DEF S, last, password
    <3> QED
      BY <2>1, <2>2, <2>3, BoundedInduction
  <2> QED
    BY <2>4
<1> QED
  BY <1>8, <1>9

\* A pair entered into a table leaves a table.
LEMMA WithTypes ==
  ASSUME NEW table \in Tables, NEW login \in Hash, NEW password \in PasswordHash
  PROVE  /\ With(table, login, password) \in Tables
         /\ DOMAIN With(table, login, password) = DOMAIN table \cup {login}
         /\ With(table, login, password)[login] = password
         /\ \A h \in DOMAIN table :
              h # login => With(table, login, password)[h] = table[h]
PROOF
<1>1. PICK logins \in SUBSET Hash : table \in [logins -> PasswordHash]
  BY DEF Tables
<1>2. With(table, login, password) \in [logins \cup {login} -> PasswordHash]
  BY <1>1 DEF With
<1>3. logins \cup {login} \in SUBSET Hash
  OBVIOUS
<1>4. With(table, login, password) \in Tables
  BY <1>2, <1>3 DEF Tables
<1> QED
  BY <1>1, <1>4 DEF With

\* One turn of the loop.
Turn(file, n, before) ==
  IF 2 * n - 1 > Len(file.hashes)
    THEN before
    ELSE With(before, file.hashes[2 * n - 1], PasswordAfter(file)[n])

\* A turn makes a table of a table.
LEMMA TurnTypes ==
  ASSUME NEW file \in AuthFile, NEW n \in 1 .. file.count, NEW table \in Tables
  PROVE  Turn(file, n, table) \in Tables
PROOF
<1>1. PasswordAfter(file)[n] \in PasswordHash
  BY PasswordEquations, FileTypes
<1>2. CASE 2 * n - 1 > Len(file.hashes)
  BY <1>2 DEF Turn
<1>3. CASE ~ (2 * n - 1 > Len(file.hashes))
  <2>1. file.hashes[2 * n - 1] \in Hash
    BY <1>3, FileTypes
  <2>2. With(table, file.hashes[2 * n - 1], PasswordAfter(file)[n]) \in Tables
    BY <1>1, <2>1, WithTypes
  <2> QED
    BY <1>3, <2>2 DEF Turn
<1> QED
  BY <1>2, <1>3

\* The table starts empty, and each turn makes the next of it.
LEMMA TableEquations ==
  ASSUME NEW file \in AuthFile
  PROVE  /\ TableAfter(file)[0] = <<>>
         /\ \A n \in 1 .. file.count :
              TableAfter(file)[n] = Turn(file, n, TableAfter(file)[n - 1])
PROOF
<1> DEFINE last == file.count
           Body(f) == [n \in 0 .. last |->
                         IF n = 0 THEN <<>>
                         ELSE IF 2 * n - 1 > Len(file.hashes) THEN f[n - 1]
                         ELSE With(f[n - 1], file.hashes[2 * n - 1],
                                   PasswordAfter(file)[n])]
           turn == [n \in 1 .. last |->
                      [before \in Tables |-> Turn(file, n, before)]]
<1>1. last \in Nat
  BY FileTypes
<1>2. turn \in [1 .. last -> [Tables -> Tables]]
  BY TurnTypes
<1>3. <<>> \in Tables
  <2>1. <<>> \in [{} -> PasswordHash]
    OBVIOUS
  <2> QED
    BY <2>1 DEF Tables
<1>4. PICK f \in [0 .. last -> Tables] :
        f[0] = <<>> /\ \A n \in 1 .. last : f[n] = turn[n][f[n - 1]]
  <2> HIDE DEF turn, last, Body
  <2>1. HasRecursion(last, Tables)
    BY <1>1, RecursionExists, Zenon
  <2> QED
    BY <1>2, <1>3, <2>1 DEF HasRecursion
<1>5. \A n \in 1 .. last : f[n - 1] \in Tables
  BY <1>1, <1>4
<1>6. \A n \in 1 .. last : f[n] = Turn(file, n, f[n - 1])
  BY <1>4, <1>5
<1>7. f = Body(f)
  <2>1. \A n \in 0 .. last : f[n] = Body(f)[n]
    BY <1>1, <1>4, <1>6 DEF Turn
  <2> QED
    BY <1>4, <2>1
<1>8. TableAfter(file) = CHOOSE g : g = Body(g)
  BY DEF TableAfter
<1>9. TableAfter(file) = Body(TableAfter(file))
  <2> HIDE DEF Body
  <2> QED
    BY <1>7, <1>8
<1>10. ASSUME NEW table, table = Body(table)
       PROVE  /\ table[0] = <<>>
              /\ \A n \in 1 .. last : table[n] = Turn(file, n, table[n - 1])
  <2>1. \A n \in 0 .. last : table[n] = Body(table)[n]
    BY <1>10
  <2>2. table[0] = <<>>
    <3>1. 0 \in 0 .. last
      BY <1>1
    <3> HIDE DEF last
    <3> QED
      BY <2>1, <3>1
  <2>3. ASSUME NEW n \in 1 .. last
        PROVE  table[n] = Turn(file, n, table[n - 1])
    <3>1. n \in 0 .. last /\ n # 0
      BY <1>1
    <3> QED
      BY <2>1, <3>1 DEF Turn
  <2> QED
    BY <2>2, <2>3
<1> QED
  BY <1>9, <1>10

\* The k-th pair is the last of the first n that is about a login.
IsLastOf(file, login, n, k) ==
  /\ k \in 1 .. n /\ 2 * k - 1 <= Len(file.hashes) /\ Login(file, k) = login
  /\ \A j \in k + 1 .. n :
       2 * j - 1 <= Len(file.hashes) => Login(file, j) # login

\* A table has the logins of the first n pairs, each with the password that
\* was read last for it.
HasPairs(file, table, n) ==
  /\ table \in Tables
  /\ \A k \in 1 .. n :
       2 * k - 1 <= Len(file.hashes) => Login(file, k) \in DOMAIN table
  /\ \A login \in DOMAIN table :
       \E k \in 1 .. n : /\ IsLastOf(file, login, n, k)
                        /\ table[login] = PasswordAfter(file)[k]

\* A turn adds a pair to those of a table.
LEMMA TurnAddsPair ==
  ASSUME NEW file \in AuthFile, NEW n \in 0 .. file.count - 1, NEW table,
         HasPairs(file, table, n)
  PROVE  HasPairs(file, Turn(file, n + 1, table), n + 1)
PROOF
<1>1. /\ n \in Nat /\ n + 1 \in 1 .. file.count
      /\ Len(file.hashes) \in Nat
      /\ \A i \in 1 .. Len(file.hashes) : file.hashes[i] \in Hash
  BY FileTypes
<1>2. table \in Tables
  BY DEF HasPairs
<1>3. CASE 2 * (n + 1) - 1 > Len(file.hashes)
  <2>1. Turn(file, n + 1, table) = table
    BY <1>3 DEF Turn
  <2>2. ASSUME NEW login, NEW k \in 1 .. n, IsLastOf(file, login, n, k)
        PROVE  IsLastOf(file, login, n + 1, k)
    BY <1>1, <1>3, <2>2 DEF IsLastOf
  <2>3. ASSUME NEW k \in 1 .. n + 1, 2 * k - 1 <= Len(file.hashes)
        PROVE  Login(file, k) \in DOMAIN table
    <3>1. k \in 1 .. n
      BY <1>1, <1>3, <2>3
    <3> QED
      BY <2>3, <3>1 DEF HasPairs
  <2>4. ASSUME NEW login \in DOMAIN table
        PROVE  \E k \in 1 .. n + 1 :
                 /\ IsLastOf(file, login, n + 1, k)
                 /\ table[login] = PasswordAfter(file)[k]
    <3>1. PICK k \in 1 .. n : /\ IsLastOf(file, login, n, k)
                              /\ table[login] = PasswordAfter(file)[k]
      BY DEF HasPairs
    <3>2. k \in 1 .. n + 1
      BY <1>1
    <3> QED
      BY <2>2, <3>1, <3>2
  <2> QED
    BY <1>2, <2>1, <2>3, <2>4 DEF HasPairs
<1>4. CASE ~ (2 * (n + 1) - 1 > Len(file.hashes))
  <2> DEFINE login == Login(file, n + 1)
             password == PasswordAfter(file)[n + 1]
             new == With(table, login, password)
  <2>1. login \in Hash /\ login = file.hashes[2 * (n + 1) - 1]
    <3>1. 2 * (n + 1) - 1 \in 1 .. Len(file.hashes)
      BY <1>1, <1>4
    <3>2. login = file.hashes[2 * (n + 1) - 1]
      BY DEF Login
    <3> QED
      BY <1>1, <3>1, <3>2
  <2>2. password \in PasswordHash
    <3>1. n + 1 \in 0 .. file.count
      BY <1>1, FileTypes
    <3>2. PasswordAfter(file) \in [0 .. file.count -> PasswordHash]
      BY PasswordEquations
    <3> QED
      BY <3>1, <3>2
  <2>3. Turn(file, n + 1, table) = new
    BY <1>4, <2>1 DEF Turn
  <2>4. /\ new \in Tables
        /\ DOMAIN new = DOMAIN table \cup {login}
        /\ new[login] = password
        /\ \A h \in DOMAIN table : h # login => new[h] = table[h]
    <3> HIDE DEF login, password
    <3> QED
      BY <1>2, <2>1, <2>2, WithTypes
  <2> HIDE DEF new, login, password
  <2>5. ASSUME NEW k \in 1 .. n + 1, 2 * k - 1 <= Len(file.hashes)
        PROVE  Login(file, k) \in DOMAIN new
    BY <1>1, <2>4, <2>5 DEF HasPairs, login
  <2>6. IsLastOf(file, login, n + 1, n + 1)
    BY <1>1, <1>4 DEF IsLastOf, login
  <2>7. ASSUME NEW h \in DOMAIN table, h # login
        PROVE  \E k \in 1 .. n + 1 : /\ IsLastOf(file, h, n + 1, k)
                                     /\ new[h] = PasswordAfter(file)[k]
    <3>1. PICK k \in 1 .. n : /\ IsLastOf(file, h, n, k)
                              /\ table[h] = PasswordAfter(file)[k]
      BY DEF HasPairs
    <3>2. IsLastOf(file, h, n + 1, k)
      BY <1>1, <2>7, <3>1 DEF IsLastOf, login
    <3> QED
      BY <1>1, <2>4, <2>7, <3>1, <3>2
  <2>8. \E k \in 1 .. n + 1 : /\ IsLastOf(file, login, n + 1, k)
                              /\ new[login] = PasswordAfter(file)[k]
    BY <1>1, <2>4, <2>6 DEF password
  <2> QED
    BY <2>3, <2>4, <2>5, <2>7, <2>8 DEF HasPairs
<1> QED
  BY <1>3, <1>4

\* What is loaded from a file has every pair of it.
LEMMA LoadedPairs ==
  ASSUME NEW file \in AuthFile
  PROVE  HasPairs(file, Load(file), file.count)
PROOF
<1> DEFINE last == file.count
           S == {n \in 0 .. last : HasPairs(file, TableAfter(file)[n], n)}
<1>1. last \in Nat
  BY FileTypes
<1>2. 0 \in S
  <2>1. TableAfter(file)[0] = <<>> /\ DOMAIN <<>> = {}
    BY TableEquations
  <2>2. <<>> \in Tables
    <3>1. <<>> \in [{} -> PasswordHash]
      OBVIOUS
    <3> QED
      BY <3>1 DEF Tables
  <2>3. HasPairs(file, <<>>, 0)
    BY <2>1, <2>2 DEF HasPairs
  <2> QED
    BY <1>1, <2>1, <2>3
<1>3. ASSUME NEW n \in S, n \in 0 .. last - 1
      PROVE  n + 1 \in S
  <2>1. n + 1 \in 1 .. last /\ (n + 1) - 1 = n
    BY <1>1, <1>3
  <2>2. TableAfter(file)[n + 1] = Turn(file, n + 1, TableAfter(file)[n])
    BY <2>1, TableEquations
  <2>3. HasPairs(file, TableAfter(file)[n + 1], n + 1)
    BY <1>3, <2>2, TurnAddsPair
  <2> QED
    BY <1>1, <2>1, <2>3
<1>4. 0 .. last \subseteq S
  <2> HIDE DEF S, last
  <2> QED
    BY <1>1, <1>2, <1>3, BoundedInduction
<1>5. last \in S
  BY <1>1, <1>4
<1> QED
  BY <1>5 DEF Load

\* The password read for a pair that is there, and for a login that the file
\* ends after.
LEMMA PasswordOfPair ==
  ASSUME NEW file \in AuthFile, NEW k \in 1 .. file.count
  PROVE  /\ 2 * k <= Len(file.hashes) =>
              PasswordAfter(file)[k] = Password(file, k)
         /\ 2 * k - 1 = Len(file.hashes) =>
              PasswordAfter(file)[k] =
                IF file.cut \/ k = 1 THEN Garbage ELSE Password(file, k - 1)
PROOF
<1>1. file.count \in Nat /\ Len(file.hashes) \in Nat
  BY FileTypes
<1>2. PasswordAfter(file)[k] =
        ReadPassword(file, 2 * k, PasswordAfter(file)[k - 1])
  BY PasswordEquations
<1>3. ASSUME 2 * k <= Len(file.hashes)
      PROVE  PasswordAfter(file)[k] = Password(file, k)
  BY <1>2, <1>3 DEF ReadPassword, Password
<1>4. ASSUME 2 * k - 1 = Len(file.hashes)
      PROVE  PasswordAfter(file)[k] =
               IF file.cut \/ k = 1 THEN Garbage ELSE Password(file, k - 1)
  <2>1. ~ (2 * k <= Len(file.hashes)) /\ 2 * k = Len(file.hashes) + 1
    BY <1>1, <1>4
  <2>2. PasswordAfter(file)[k] =
          IF file.cut THEN Garbage ELSE PasswordAfter(file)[k - 1]
    BY <1>2, <2>1 DEF ReadPassword
  <2>3. CASE k = 1
    <3>1. PasswordAfter(file)[k - 1] = Garbage
      BY <2>3, PasswordEquations
    <3> QED
      BY <2>2, <2>3, <3>1
  <2>4. CASE k # 1
    <3> DEFINE j == k - 1
    <3>1. j \in 1 .. file.count /\ 2 * j <= Len(file.hashes)
      BY <1>1, <1>4, <2>4
    <3>2. PasswordAfter(file)[j] =
            ReadPassword(file, 2 * j, PasswordAfter(file)[j - 1])
      BY <3>1, PasswordEquations
    <3>3. PasswordAfter(file)[j] = Password(file, j)
      BY <3>1, <3>2 DEF ReadPassword, Password
    <3> QED
      BY <2>2, <2>4, <3>3
  <2> QED
    BY <2>3, <2>4
<1> QED
  BY <1>3, <1>4

-----------------------------------------------------------------------------
(* Check.                                                                  *)

\* The result of a check of a login and a password in a table.
Approved(table, login, password) ==
  login \in DOMAIN table /\ table[login] = password

\* What the file says of them: what ChecksAgainstFile says of the last check.
ApprovedBy(file, login, password) ==
  LET size == Len(file.hashes)
      IsLast(n) == /\ Login(file, n) = login
                   /\ \A k \in Pairs(file) : k > n => Login(file, k) # login
  IN  IF size % 2 = 1 /\ login = file.hashes[size]
        THEN size > 1 /\ ~ file.cut /\ password = file.hashes[size - 1]
        ELSE \E n \in Pairs(file) : IsLast(n) /\ Password(file, n) = password

\* A password is that of the table exactly if it is that of the file.
LEMMA LoadedTable ==
  ASSUME NEW file \in AuthFile, NEW login \in Hash, NEW password \in Hash
  PROVE  Approved(Load(file), login, password)
           <=> ApprovedBy(file, login, password)
PROOF
<1> DEFINE size == Len(file.hashes)
           table == Load(file)
           last == file.count
<1>1. /\ last \in Nat /\ size \in Nat /\ size <= 2 * last
  BY FileTypes
<1>2. HasPairs(file, table, last)
  BY LoadedPairs
<1>3. CASE size % 2 = 1 /\ login = file.hashes[size]
  <2>1. PICK m \in 1 .. last : 2 * m - 1 = size
    <3>1. size \div 2 \in Nat /\ size = 2 * (size \div 2) + 1
      <4> HIDE DEF size
      <4> QED
        BY <1>1, <1>3
    <3> DEFINE m == size \div 2 + 1
    <3>2. m \in 1 .. last /\ 2 * m - 1 = size
      <4> HIDE DEF size
      <4> QED
        BY <1>1, <3>1
    <3> QED
      BY <3>2
  <2>2. Login(file, m) = login
    BY <1>3, <2>1 DEF Login
  <2>3. login \in DOMAIN table
    BY <1>1, <1>2, <2>1, <2>2 DEF HasPairs
  <2>4. PICK k \in 1 .. last : /\ IsLastOf(file, login, last, k)
                               /\ table[login] = PasswordAfter(file)[k]
    BY <1>2, <2>3 DEF HasPairs
  <2>5. k = m
    BY <1>1, <2>1, <2>2, <2>4 DEF IsLastOf
  <2>6. table[login] =
          IF file.cut \/ m = 1 THEN Garbage ELSE Password(file, m - 1)
    BY <2>1, <2>4, <2>5, PasswordOfPair
  <2>7. m = 1 <=> ~ (size > 1)
    BY <1>1, <2>1
  <2>8. m # 1 => Password(file, m - 1) = file.hashes[size - 1]
    BY <1>1, <2>1 DEF Password
  <2>9. password # Garbage
    BY HashAssumption
  <2>10. Approved(table, login, password) <=>
           size > 1 /\ ~ file.cut /\ password = file.hashes[size - 1]
    <3> HIDE DEF size, table
    <3> QED
      BY <2>3, <2>6, <2>7, <2>8, <2>9, Zenon DEF Approved
  <2> QED
    BY <1>3, <2>10 DEF ApprovedBy
<1>4. CASE ~ (size % 2 = 1 /\ login = file.hashes[size])
  <2> DEFINE Is(n) == /\ Login(file, n) = login
                      /\ \A k \in Pairs(file) : k > n => Login(file, k) # login
  <2>1. ASSUME NEW k \in 1 .. last, 2 * k - 1 <= size, Login(file, k) = login
        PROVE  k \in Pairs(file)
    <3>1. 2 * k - 1 # size
      <4> SUFFICES ASSUME 2 * k - 1 = size PROVE FALSE
        OBVIOUS
      <4>1. size % 2 = 1
        <5> HIDE DEF size
        <5> QED
          BY <1>1
      <4> QED
        BY <1>4, <2>1, <4>1 DEF Login
    <3> QED
      BY <1>1, <2>1, <3>1 DEF Pairs
  <2>2. ASSUME Approved(table, login, password)
        PROVE  \E n \in Pairs(file) : Is(n) /\ Password(file, n) = password
    <3>1. PICK k \in 1 .. last : /\ IsLastOf(file, login, last, k)
                                 /\ table[login] = PasswordAfter(file)[k]
      BY <1>2, <2>2 DEF HasPairs, Approved
    <3>2. k \in Pairs(file)
      BY <2>1, <3>1 DEF IsLastOf
    <3>3. Is(k)
      BY <1>1, <3>1 DEF IsLastOf, Pairs
    <3>4. Password(file, k) = password
      BY <2>2, <3>1, <3>2, PasswordOfPair DEF Approved, Pairs
    <3> QED
      BY <3>2, <3>3, <3>4
  <2>3. ASSUME NEW n \in Pairs(file), Is(n), Password(file, n) = password
        PROVE  Approved(table, login, password)
    <3>1. n \in 1 .. last /\ 2 * n - 1 <= size
      BY <1>1 DEF Pairs
    <3>2. login \in DOMAIN table
      BY <1>2, <2>3, <3>1 DEF HasPairs
    <3>3. PICK k \in 1 .. last : /\ IsLastOf(file, login, last, k)
                                 /\ table[login] = PasswordAfter(file)[k]
      BY <1>2, <3>2 DEF HasPairs
    <3>4. k \in Pairs(file)
      BY <2>1, <3>3 DEF IsLastOf
    <3>5. k = n
      BY <1>1, <2>3, <3>1, <3>3, <3>4 DEF IsLastOf
    <3>6. table[login] = password
      BY <2>3, <3>1, <3>3, <3>5, PasswordOfPair DEF Pairs
    <3> QED
      BY <3>2, <3>6 DEF Approved
  <2>4. Approved(table, login, password) <=>
          \E n \in Pairs(file) : Is(n) /\ Password(file, n) = password
    BY <2>2, <2>3
  <2> QED
    BY <1>4, <2>4 DEF ApprovedBy
<1> QED
  BY <1>3, <1>4

\* The table is the one of the file it was read from, and the last check was
\* one against that file.
AuthInv ==
  /\ authFile \in AuthFile /\ loadedFrom \in AuthFile
  /\ loginPasswordHashes = Load(loadedFrom)
  /\ checked # <<>> =>
       /\ checked.login \in Hash /\ checked.password \in Hash
       /\ checked.result \in BOOLEAN
       /\ checked.result
            <=> ApprovedBy(loadedFrom, checked.login, checked.password)

\* Before the first check, the table is that of no file.
LEMMA AuthStarts == AuthInit => AuthInv
PROOF
<1> SUFFICES ASSUME AuthInit PROVE AuthInv
  OBVIOUS
<1>1. NoFile \in AuthFile
  <2>1. <<>> \in [1 .. 0 -> Hash] /\ Len(<<>>) = 0
    OBVIOUS
  <2> QED
    BY <2>1, HashAssumption DEF NoFile, AuthFile
<1>2. Load(NoFile) = <<>>
  BY <1>1, TableEquations DEF Load, NoFile
<1> QED
  BY <1>1, <1>2 DEF AuthInit, AuthInv

\* A check reads the table when it is empty, and keeps it otherwise.
LEMMA CheckKeeps ==
  ASSUME AuthInv, NEW login \in Hash, NEW password \in Hash,
         Check(login, password)
  PROVE  AuthInv'
PROOF
<1>1. authFile' = authFile
  BY DEF Check
<1>2. loadedFrom' \in AuthFile /\ loginPasswordHashes' = Load(loadedFrom')
  <2>1. CASE loginPasswordHashes = <<>>
    BY <2>1 DEF AuthInv, Check
  <2>2. CASE loginPasswordHashes # <<>>
    BY <2>2 DEF AuthInv, Check
  <2> QED
    BY <2>1, <2>2
<1>3. checked' = [login |-> login, password |-> password,
                  result |-> Approved(loginPasswordHashes', login, password)]
  BY DEF Check, Approved
<1>4. Approved(loginPasswordHashes', login, password)
        <=> ApprovedBy(loadedFrom', login, password)
  BY <1>2, LoadedTable
<1> QED
  BY <1>1, <1>2, <1>3, <1>4 DEF AuthInv, Approved

\* It holds for ever.
LEMMA AuthInvariance == AuthSpec => []AuthInv
PROOF
<1>1. ASSUME AuthInv, [AuthNext]_authVars
      PROVE  AuthInv'
  <2>1. CASE WriteFile
    BY <1>1, <2>1 DEF WriteFile, AuthInv
  <2>2. CASE \E login, password \in Hash : Check(login, password)
    BY <1>1, <2>2, CheckKeeps
  <2>3. CASE UNCHANGED authVars
    BY <1>1, <2>3 DEF authVars, AuthInv
  <2> QED
    BY <1>1, <2>1, <2>2, <2>3 DEF AuthNext
<1> QED
  BY <1>1, AuthStarts, PTL DEF AuthSpec

\* A login is approved with the password that the file the table was read from
\* has for it, and with no other, whatever is in the file, wherever it is cut
\* off and whatever is written to it later; but for the login it is cut off
\* after.
THEOREM ChecksCorrect == AuthSpec => []ChecksAgainstFile
PROOF
<1>1. AuthInv => ChecksAgainstFile
  BY DEF AuthInv, ChecksAgainstFile, ApprovedBy
<1> QED
  BY <1>1, AuthInvariance, PTL

-----------------------------------------------------------------------------
(* MD5: division, and the powers of 2.                                     *)

\* A number is divided when its quotient and its remainder are found.
LEMMA Quotient ==
  ASSUME NEW d \in Nat \ {0}, NEW q \in Nat, NEW r \in 0 .. d - 1
  PROVE  (d * q + r) \div d = q /\ (d * q + r) % d = r
PROOF
<1> DEFINE a == d * q + r
<1>1. a \in Nat
  OBVIOUS
<1>2. a \div d \in Nat /\ a % d \in 0 .. d - 1 /\ a = d * (a \div d) + (a % d)
  BY <1>1, Remainders
<1>3. a % d = r
  <2>1. q \in Int
    OBVIOUS
  <2> QED
    BY <2>1, Remainders
<1> DEFINE k == a \div d
<1>4. d * (k - q) = 0 /\ k - q \in Int
  BY <1>2, <1>3
<1>5. k - q = 0
  <2> HIDE DEF k
  <2> QED
    BY <1>4, SmallMultiple
<1> QED
  BY <1>2, <1>3, <1>5

\* Dividing twice is dividing by the product.
LEMMA DivideTwice ==
  ASSUME NEW x \in Nat, NEW a \in Nat \ {0}, NEW c \in Nat \ {0}
  PROVE  (x \div a) \div c = x \div (a * c)
PROOF
<1> DEFINE q == x \div a
           r == x % a
           s == q \div c
           t == q % c
<1>1. q \in Nat /\ r \in 0 .. a - 1 /\ x = a * q + r
  BY Remainders
<1> HIDE DEF q, r
<1>2. s \in Nat /\ t \in 0 .. c - 1 /\ q = c * s + t
  BY <1>1, Remainders
<1> HIDE DEF s, t
<1>3. x = (a * c) * s + (a * t + r)
  BY <1>1, <1>2
<1>4. a * t + r \in 0 .. (a * c) - 1
  <2>1. a * t <= a * (c - 1)
    BY <1>2
  <2>2. a * t \in Nat /\ a * (c - 1) = (a * c) - a
    BY <1>2
  <2> QED
    BY <1>1, <2>1, <2>2
<1>5. a * c \in Nat \ {0}
  OBVIOUS
<1>6. x \div (a * c) = s
  <2> DEFINE e == a * c
             u == a * t + r
  <2>1. e \in Nat \ {0} /\ u \in 0 .. e - 1 /\ x = e * s + u
    BY <1>3, <1>4, <1>5
  <2> HIDE DEF e, u
  <2>2. x \div e = s
    BY <1>2, <2>1, Quotient
  <2> QED
    BY <2>2 DEF e
<1> QED
  BY <1>6 DEF q, s

\* The remainder of a product has the digits of the number.
SameDigit(x, a, c, e) == ((x % (a * (c * e))) \div a) % c = (x \div a) % c

LEMMA DigitOfRemainder ==
  ASSUME NEW x \in Nat, NEW a \in Nat \ {0}, NEW c \in Nat \ {0}, NEW e \in Nat \ {0}
  PROVE  SameDigit(x, a, c, e)
PROOF
<1> DEFINE w == a * (c * e)
           q == x \div w
           r == x % w
           s == r \div a
           t == r % a
<1>1. w \in Nat \ {0} /\ c * e \in Nat
  <2>1. c * e \in Nat \ {0}
    OBVIOUS
  <2> DEFINE f == c * e
  <2>2. a * f \in Nat \ {0}
    <3>1. f \in Nat \ {0}
      BY <2>1
    <3> HIDE DEF f
    <3> QED
      BY <3>1
  <2> QED
    BY <2>1, <2>2
<1>2. q \in Nat /\ r \in 0 .. w - 1 /\ x = w * q + r
  <2> HIDE DEF w
  <2> QED
    BY <1>1, Remainders
<1> HIDE DEF q, r
<1>3. s \in Nat /\ t \in 0 .. a - 1 /\ r = a * s + t
  <2>1. r \in Nat
    BY <1>1, <1>2
  <2> QED
    BY <2>1, Remainders
<1> HIDE DEF s, t
<1>4. x = a * (c * (e * q) + s) + t /\ c * (e * q) + s \in Nat
  <2>1. w * q = a * (c * (e * q))
    BY <1>2
  <2>2. e * q \in Nat
    BY <1>2
  <2>3. c * (e * q) \in Nat
    BY <2>2
  <2> DEFINE z == c * (e * q)
  <2>4. x = a * z + (a * s + t) /\ z \in Nat
    BY <1>2, <1>3, <2>1, <2>3
  <2> HIDE DEF z, w
  <2>5. x = a * (z + s) + t /\ z + s \in Nat
    BY <1>3, <2>4
  <2> QED
    BY <2>5 DEF z
<1>5. x \div a = c * (e * q) + s
  <2> DEFINE z == c * (e * q) + s
  <2>1. x = a * z + t /\ z \in Nat
    BY <1>4
  <2> HIDE DEF z
  <2>2. x \div a = z
    BY <1>3, <2>1, Quotient
  <2> QED
    BY <2>2 DEF z
<1>6. (c * (e * q) + s) % c = s % c
  <2> DEFINE z == e * q
  <2>1. z \in Nat
    BY <1>2
  <2> HIDE DEF z
  <2>2. c * z + s \in Nat
    BY <1>3, <2>1
  <2>3. (c * z + s) - s = c * z + 0 /\ z \in Int /\ 0 \in 0 .. c - 1
    BY <1>3, <2>1
  <2>4. (c * z + 0) % c = 0
    BY <2>3, Remainders
  <2>5. ((c * z + s) - s) % c = 0
    BY <2>3, <2>4
  <2>6. (c * z + s) % c = s % c
    BY <1>3, <2>2, <2>5, Congruent
  <2> QED
    BY <2>6 DEF z
<1> QED
  BY <1>5, <1>6 DEF SameDigit, w, s, r

\* What is a multiple more or less has the same remainder.
LEMMA SameRemainder ==
  ASSUME NEW d \in Nat \ {0}, NEW a \in Nat, NEW b \in Nat, NEW k \in Int,
         a = d * k + b
  PROVE  a % d = b % d
PROOF
<1>1. a - b = d * k + 0 /\ 0 \in 0 .. d - 1
  OBVIOUS
<1>2. (d * k + 0) % d = 0
  BY <1>1, Remainders
<1>3. (a - b) % d = 0
  BY <1>1, <1>2
<1> QED
  BY <1>3, Congruent

\* The exponents that the count needs.
TopPower == ByteBits * LengthSize

LEMMA Sizes ==
  /\ ByteBits \in Nat \ {0} /\ WordBytes \in Nat \ {0} /\ BlockSize \in Nat \ {0}
  /\ LengthSize = 2 * WordBytes /\ LengthSize < BlockSize /\ LengthSize \in Nat
  /\ TopPower \in Nat /\ MaxLength \in Nat
  /\ Word4 % (ByteBits * BlockSize) = 0
PROOF
<1>1. /\ ByteBits \in Nat \ {0} /\ WordBytes \in Nat \ {0} /\ MaxLength \in Nat
      /\ LengthSize < BlockSize /\ Word4 % (ByteBits * BlockSize) = 0
  BY SizesAssumption
<1>2. BlockSize \in Nat
  BY SizesAssumption
<1>3. LengthSize = 2 * WordBytes /\ LengthSize \in Nat
  BY <1>1 DEF LengthSize
<1>4. ByteBits * LengthSize \in Nat
  BY <1>1, <1>3
<1> QED
  BY <1>1, <1>2, <1>3, <1>4 DEF TopPower

LEMMA LastIsLong == \A n \in 0 .. LengthSize : ByteBits * n \in 0 .. TopPower
PROOF
<1> SUFFICES ASSUME NEW n \in 0 .. LengthSize
             PROVE  ByteBits * n \in 0 .. TopPower
  OBVIOUS
<1> DEFINE d == LengthSize - n
<1>1. d \in Nat /\ LengthSize = n + d /\ n \in Nat /\ ByteBits \in Nat
  BY Sizes
<1> HIDE DEF d
<1>2. ByteBits * LengthSize = ByteBits * n + ByteBits * d
  BY <1>1
<1>3. ByteBits * n \in Nat /\ ByteBits * d \in Nat
  BY <1>1
<1> QED
  BY <1>2, <1>3 DEF TopPower

LEMMA PowerEquations ==
  /\ power2 = [n \in 0 .. TopPower |-> power2[n]]
  /\ power2[0] = 1
  /\ \A n \in 1 .. TopPower : power2[n] = 2 * power2[n - 1]
PROOF
<1> DEFINE Body(f) == [n \in 0 .. TopPower |-> IF n = 0 THEN 1 ELSE 2 * f[n - 1]]
           next == [n \in 1 .. TopPower |-> [before \in Nat |-> 2 * before]]
<1>1. next \in [1 .. TopPower -> [Nat -> Nat]] /\ TopPower \in Nat
  BY Sizes
<1>2. PICK f \in [0 .. TopPower -> Nat] :
        f[0] = 1 /\ \A n \in 1 .. TopPower : f[n] = next[n][f[n - 1]]
  <2> HIDE DEF next, Body
  <2>1. HasRecursion(TopPower, Nat)
    BY <1>1, RecursionExists, Zenon
  <2>2. 1 \in Nat
    OBVIOUS
  <2> QED
    BY <1>1, <2>1, <2>2, Zenon DEF HasRecursion
<1>3. f = Body(f)
  <2>1. ASSUME NEW n \in 1 .. TopPower
        PROVE  f[n] = 2 * f[n - 1]
    <3>1. n - 1 \in 0 .. TopPower
      BY <1>1
    <3>2. f[n - 1] \in Nat
      BY <1>2, <3>1
    <3>3. next[n][f[n - 1]] = 2 * f[n - 1]
      BY <3>2
    <3> QED
      BY <1>2, <3>3
  <2>2. \A n \in 0 .. TopPower : n = 0 \/ n \in 1 .. TopPower
    BY <1>1
  <2>3. \A n \in 0 .. TopPower : f[n] = Body(f)[n]
    BY <1>2, <2>1, <2>2
  <2> QED
    BY <1>2, <2>3
<1>4. power2 = CHOOSE g : g = Body(g)
  BY DEF power2, TopPower
<1>5. power2 = Body(power2)
  <2> HIDE DEF Body
  <2> QED
    BY <1>3, <1>4
<1>6. \A n \in 0 .. TopPower : power2[n] = Body(power2)[n]
  BY <1>5
<1>7. power2 = [n \in 0 .. TopPower |-> power2[n]]
  BY <1>5, <1>6
<1>8. power2[0] = 1
  <2>1. 0 \in 0 .. TopPower
    BY <1>1
  <2> QED
    BY <1>6, <2>1
<1>9. ASSUME NEW n \in 1 .. TopPower
      PROVE  power2[n] = 2 * power2[n - 1]
  <2>1. n \in 0 .. TopPower /\ n # 0
    BY <1>1
  <2> QED
    BY <1>6, <2>1
<1> QED
  BY <1>7, <1>8, <1>9

LEMMA PowerTypes == \A n \in 0 .. TopPower : power2[n] \in Nat \ {0}
PROOF
<1> DEFINE S == {n \in 0 .. TopPower : power2[n] \in Nat \ {0}}
<1>1. 0 \in S
  BY PowerEquations, Sizes
<1>2. ASSUME NEW n \in S, n \in 0 .. TopPower - 1
      PROVE  n + 1 \in S
  <2>1. n + 1 \in 1 .. TopPower /\ n + 1 \in 0 .. TopPower /\ (n + 1) - 1 = n
    BY <1>2, Sizes
  <2>2. power2[n + 1] = 2 * power2[n]
    BY <2>1, PowerEquations
  <2> QED
    BY <2>1, <2>2
<1>3. 0 .. TopPower \subseteq S
  <2> HIDE DEF S
  <2> QED
    BY <1>1, <1>2, BoundedInduction, Sizes
<1> QED
  BY <1>3

LEMMA PowerOfSum ==
  ASSUME NEW a \in Nat, NEW b \in Nat, a + b <= TopPower
  PROVE  power2[a + b] = power2[a] * power2[b]
PROOF
<1> DEFINE S == {n \in 0 .. b : power2[a + n] = power2[a] * power2[n]}
<1>1. a \in 0 .. TopPower /\ TopPower \in Nat
  BY Sizes
<1>2. 0 \in S
  BY <1>1, PowerEquations, PowerTypes
<1>3. ASSUME NEW n \in S, n \in 0 .. b - 1
      PROVE  n + 1 \in S
  <2>1. /\ n + 1 \in 1 .. TopPower /\ (n + 1) - 1 = n
        /\ a + (n + 1) \in 1 .. TopPower /\ (a + (n + 1)) - 1 = a + n
        /\ n \in 0 .. TopPower
    BY <1>1, <1>3
  <2>2. power2[n + 1] = 2 * power2[n] /\ power2[a + (n + 1)] = 2 * power2[a + n]
    BY <2>1, PowerEquations
  <2>3. power2[a + n] = power2[a] * power2[n]
    OBVIOUS
  <2>4. power2[a] \in Nat /\ power2[n] \in Nat
    BY <1>1, <2>1, PowerTypes
  <2>5. 2 * (power2[a] * power2[n]) = power2[a] * (2 * power2[n])
    BY <2>4
  <2> QED
    BY <1>3, <2>2, <2>3, <2>5
<1>4. 0 .. b \subseteq S
  <2> HIDE DEF S
  <2> QED
    BY <1>2, <1>3, BoundedInduction
<1> QED
  BY <1>4

-----------------------------------------------------------------------------
(* The count.                                                              *)

LEMMA WordTypes == Word4 \in Nat \ {0}
PROOF
<1>1. ByteBits * WordBytes \in 0 .. TopPower
  BY Sizes DEF TopPower
<1> QED
  BY <1>1, PowerTypes DEF Word4

\* The low word is enough for the place in the block.
LEMMA PlaceInBlock ==
  ASSUME NEW n \in Nat
  PROVE  (((n * ByteBits) % Word4) \div ByteBits) % BlockSize = n % BlockSize
PROOF
<1> DEFINE block == ByteBits * BlockSize
           e == Word4 \div block
<1>1. block \in Nat \ {0}
  BY Sizes
<1>2. e \in Nat /\ Word4 = block * e
  <2>1. Word4 % block = 0
    BY Sizes
  <2> HIDE DEF block
  <2>2. e \in Nat /\ Word4 = block * e + (Word4 % block)
    BY <1>1, WordTypes, Remainders
  <2> QED
    BY <1>1, <2>1, <2>2
<1>3. e \in Nat \ {0}
  <2> HIDE DEF e, block
  <2> QED
    BY <1>1, <1>2, WordTypes
<1>4. Word4 = ByteBits * (BlockSize * e)
  <2> HIDE DEF e
  <2> QED
    BY <1>2, <1>3, Sizes
<1>5. n * ByteBits \in Nat
  BY Sizes
<1>6. (((n * ByteBits) % Word4) \div ByteBits) % BlockSize
        = ((n * ByteBits) \div ByteBits) % BlockSize
  <2> DEFINE x == n * ByteBits
  <2> HIDE DEF e, x
  <2>1. x \in Nat
    BY <1>5 DEF x
  <2>2. ByteBits \in Nat \ {0} /\ BlockSize \in Nat \ {0}
    BY Sizes
  <2>3. SameDigit(x, ByteBits, BlockSize, e)
    BY <1>3, <2>1, <2>2, DigitOfRemainder
  <2> QED
    BY <1>4, <2>3 DEF SameDigit, x
<1>7. (n * ByteBits) \div ByteBits = n
  <2>1. n * ByteBits = ByteBits * n + 0 /\ 0 \in 0 .. ByteBits - 1
    BY Sizes
  <2> QED
    BY <2>1, Quotient, Sizes
<1> QED
  BY <1>6, <1>7

\* Two words are added as the code does it: the carry is seen in the low word.
Low(x, y) == ((x % Word4) + (y % Word4)) % Word4
High(x, y) == (((x \div Word4) % Word4)
                 + (IF Low(x, y) < y % Word4 THEN 1 ELSE 0) + (y \div Word4)) % Word4

LEMMA Carries ==
  ASSUME NEW x \in Nat, NEW y \in Nat
  PROVE  /\ Low(x, y) = (x + y) % Word4
         /\ High(x, y) = ((x + y) \div Word4) % Word4
PROOF
<1> DEFINE low == Low(x, y)
           w == Word4
           qx == x \div w
           rx == x % w
           qy == y \div w
           ry == y % w
           h == qx % w
           c == IF low < ry THEN 1 ELSE 0
<1>1. /\ qx \in Nat /\ rx \in 0 .. w - 1 /\ x = w * qx + rx
      /\ qy \in Nat /\ ry \in 0 .. w - 1 /\ y = w * qy + ry
  BY WordTypes, Remainders
<1> HIDE DEF qx, rx, qy, ry
<1>2. low = (rx + ry) % w
  BY DEF rx, ry, Low
<1>9. w \in Nat \ {0}
  BY WordTypes
<1> HIDE DEF w, low
<1>3. c \in Nat /\ low = (x + y) % w /\ (x + y) \div w = qx + qy + c
  <2>1. CASE rx + ry < w
    <3>1. rx + ry \in 0 .. w - 1 /\ qx + qy \in Nat
      BY <1>9, <1>1, <2>1
    <3>2. rx + ry = w * 0 + (rx + ry) /\ 0 \in Nat
      BY <1>9, <1>1
    <3>3. (rx + ry) % w = rx + ry
      BY <1>9, <3>1, <3>2, Quotient
    <3>4. low = rx + ry /\ c = 0
      BY <1>9, <1>1, <1>2, <3>3
    <3>5. x + y = w * (qx + qy) + (rx + ry)
      BY <1>9, <1>1
    <3>6. (x + y) \div w = qx + qy /\ (x + y) % w = rx + ry
      <4> DEFINE q == qx + qy
                 r == rx + ry
      <4>1. q \in Nat /\ r \in 0 .. w - 1 /\ x + y = w * q + r
        BY <3>1, <3>5
      <4> HIDE DEF q, r
      <4>2. (x + y) \div w = q /\ (x + y) % w = r
        BY <1>9, <4>1, Quotient
      <4> QED
        BY <4>2 DEF q, r
    <3> QED
      BY <1>1, <3>4, <3>6
  <2>2. CASE rx + ry >= w
    <3>1. rx + ry - w \in 0 .. w - 1 /\ qx + qy + 1 \in Nat
      BY <1>9, <1>1, <2>2
    <3>2. rx + ry = w * 1 + (rx + ry - w) /\ 1 \in Nat
      BY <1>9, <1>1
    <3>3. (rx + ry) % w = rx + ry - w
      BY <1>9, <3>1, <3>2, Quotient
    <3>4. low = rx + ry - w /\ c = 1
      BY <1>9, <1>1, <1>2, <3>3
    <3>5. x + y = w * (qx + qy + 1) + (rx + ry - w)
      BY <1>9, <1>1
    <3>6. (x + y) \div w = qx + qy + 1 /\ (x + y) % w = rx + ry - w
      <4> DEFINE q == qx + qy + 1
                 r == rx + ry - w
      <4>1. q \in Nat /\ r \in 0 .. w - 1 /\ x + y = w * q + r
        BY <3>1, <3>5
      <4> HIDE DEF q, r
      <4>2. (x + y) \div w = q /\ (x + y) % w = r
        BY <1>9, <4>1, Quotient
      <4> QED
        BY <4>2 DEF q, r
    <3> QED
      BY <1>1, <3>4, <3>6
  <2> QED
    BY <1>9, <1>1, <2>1, <2>2
<1> HIDE DEF c
<1>4. (h + c + qy) % w = (qx + qy + c) % w
  <2> DEFINE k == qx \div w
  <2>1. k \in Nat /\ h \in 0 .. w - 1 /\ qx = w * k + h
    BY <1>9, <1>1, Remainders
  <2> HIDE DEF k, h
  <2>2. /\ qx + qy + c \in Nat /\ h + c + qy \in Nat
        /\ qx + qy + c = w * k + (h + c + qy) /\ k \in Int
    BY <1>9, <1>1, <1>3, <2>1
  <2>3. (qx + qy + c) % w = (h + c + qy) % w
    BY <1>9, <2>2, SameRemainder
  <2> QED
    BY <2>3
<1> QED
  BY <1>3, <1>4 DEF c, h, qx, qy, ry, w, low, High

-----------------------------------------------------------------------------
(* What has been hashed.                                                   *)

Byte == Nat \cup {<<"text", i>> : i \in Nat} \cup {"uninitialized"}
Block == [1 .. BlockSize -> Byte]

\* The place where the blocks after the n-th start.
Row(n) == n * BlockSize

LEMMA RowTypes == /\ Row(0) = 0 /\ Row(1) = BlockSize
                  /\ \A n \in Nat : Row(n) \in Nat
  BY Sizes DEF Row

LEMMA RowSum == \A n, k \in Nat : Row(n + k) = Row(n) + Row(k)
  BY Sizes DEF Row

LEMMA RowOrder ==
  ASSUME NEW n \in Nat, NEW k \in Nat, n <= k
  PROVE  Row(n) <= Row(k)
PROOF
<1> DEFINE d == k - n
<1>1. d \in Nat /\ k = n + d
  OBVIOUS
<1> HIDE DEF d
<1>2. Row(k) = Row(n) + Row(d)
  BY <1>1, RowSum
<1>3. Row(d) \in Nat /\ Row(n) \in Nat
  BY <1>1, RowTypes
<1> QED
  BY <1>2, <1>3

\* A place is in a row.
LEMMA RowOf ==
  ASSUME NEW n \in Nat
  PROVE  /\ n \div BlockSize \in Nat /\ n % BlockSize \in 0 .. BlockSize - 1
         /\ n = Row(n \div BlockSize) + (n % BlockSize)
PROOF
<1> DEFINE q == n \div BlockSize
           r == n % BlockSize
<1>1. BlockSize \in Nat \ {0}
  BY Sizes
<1>2. q \in Nat /\ r \in 0 .. BlockSize - 1 /\ n = BlockSize * q + r
  BY <1>1, Remainders
<1> HIDE DEF q, r
<1>3. BlockSize * q = Row(q)
  BY <1>1, <1>2 DEF Row
<1>4. q \in Nat /\ r \in 0 .. BlockSize - 1 /\ n = Row(q) + r
  BY <1>2, <1>3
<1> QED
  BY <1>4 DEF q, r

\* Bytes are those of a text from a place on, so many of them.
Same(bytes, letters, start, size) ==
  \A i \in 1 .. size : bytes[i] = letters[start + i]

\* The first blocks of a text, and what of it has not filled one yet.
BlocksOf(letters, blocks) ==
  /\ blocks \in Seq(Block)
  /\ \A n \in 1 .. Len(blocks) : Same(blocks[n], letters, Row(n - 1), BlockSize)

RestOf(letters, start, bytes) ==
  bytes \in Block /\ Same(bytes, letters, start, Len(letters) - start)

BitsOf(letters) ==
  <<(Len(letters) * ByteBits) % Word4, ((Len(letters) * ByteBits) \div Word4) % Word4>>

\* A text has been given to update, in one call or several.
Taken(letters, blocks, rest, number) ==
  /\ Len(letters) - Row(Len(blocks)) \in 0 .. BlockSize - 1
  /\ BlocksOf(letters, blocks)
  /\ RestOf(letters, Row(Len(blocks)), rest)
  /\ number = BitsOf(letters)

\* The bytes of a concatenation.
LEMMA Joined ==
  ASSUME NEW x \in Seq(Byte), NEW y \in Seq(Byte)
  PROVE  /\ x \o y \in Seq(Byte) /\ Len(x \o y) = Len(x) + Len(y)
         /\ Len(x) \in Nat /\ Len(y) \in Nat
         /\ \A k \in 1 .. Len(x) : (x \o y)[k] = x[k]
         /\ \A k \in 1 .. Len(y) : (x \o y)[Len(x) + k] = y[k]
  OBVIOUS

LEMMA Associated ==
  ASSUME NEW x \in Seq(Byte), NEW y \in Seq(Byte), NEW z \in Seq(Byte)
  PROVE  x \o (y \o z) = (x \o y) \o z
  OBVIOUS

LEMMA SameInFirst ==
  ASSUME NEW x \in Seq(Byte), NEW y \in Seq(Byte), NEW bytes,
         NEW start \in Nat, NEW size \in Nat, start + size <= Len(x),
         Same(bytes, x, start, size)
  PROVE  Same(bytes, x \o y, start, size)
PROOF
<1> SUFFICES ASSUME NEW i \in 1 .. size
             PROVE  bytes[i] = (x \o y)[start + i]
  BY DEF Same
<1>1. start + i \in 1 .. Len(x)
  BY Joined
<1> QED
  BY <1>1, Joined DEF Same

LEMMA SameInSecond ==
  ASSUME NEW x \in Seq(Byte), NEW y \in Seq(Byte), NEW bytes,
         NEW start \in Nat, NEW size \in Nat, start + size <= Len(y),
         Same(bytes, y, start, size)
  PROVE  Same(bytes, x \o y, Len(x) + start, size)
PROOF
<1> SUFFICES ASSUME NEW i \in 1 .. size
             PROVE  bytes[i] = (x \o y)[Len(x) + start + i]
  BY DEF Same
<1>1. start + i \in 1 .. Len(y) /\ Len(x) + start + i = Len(x) + (start + i)
  BY Joined
<1>2. (x \o y)[Len(x) + (start + i)] = y[start + i]
  BY <1>1, Joined
<1> QED
  BY <1>1, <1>2 DEF Same

\* The bytes of a part of a sequence.
Part(bytes, letters, start, size) ==
  /\ bytes \in [1 .. size -> Byte] /\ Len(bytes) = size
  /\ Same(bytes, letters, start, size)

LEMMA PartOf ==
  ASSUME NEW x \in Seq(Byte), NEW a \in Nat, NEW size \in Nat, a + size <= Len(x)
  PROVE  Part(SubSeq(x, a + 1, a + size), x, a, size)
PROOF
<1> DEFINE part == SubSeq(x, a + 1, a + size)
<1>1. part = [i \in 1 .. size |-> x[a + i]]
  OBVIOUS
<1>2. \A i \in 1 .. size : a + i \in 1 .. Len(x)
  OBVIOUS
<1> HIDE DEF part
<1>3. part \in [1 .. size -> Byte] /\ \A i \in 1 .. size : part[i] = x[a + i]
  BY <1>1, <1>2
<1>4. Len(part) = size
  BY <1>1
<1> QED
  BY <1>3, <1>4 DEF Part, part, Same

\* The count after an update.
LEMMA CountGrows ==
  ASSUME NEW letters \in Seq(Byte), NEW input \in Seq(Byte), count = BitsOf(letters)
  PROVE  Counted(Len(input)) = BitsOf(letters \o input)
PROOF
<1> DEFINE x == Len(letters) * ByteBits
           y == Len(input) * ByteBits
<1>1. x \in Nat /\ y \in Nat
  BY Sizes, Joined
<1>2. Len(letters \o input) * ByteBits = x + y
  BY Sizes, Joined
<1>3. count[1] = x % Word4 /\ count[2] = (x \div Word4) % Word4
  BY DEF BitsOf
<1>4. Counted(Len(input)) = <<Low(x, y), High(x, y)>>
  BY <1>3 DEF Counted, Low, High
<1> HIDE DEF x, y
<1>5. BitsOf(letters \o input) = <<(x + y) % Word4, ((x + y) \div Word4) % Word4>>
  BY <1>2 DEF BitsOf
<1> QED
  BY <1>1, <1>4, <1>5, Carries

\* What memcpy leaves in the buffer, when it was right up to a place.
LEMMA Copied ==
  ASSUME NEW letters, NEW start \in Nat, NEW bytes \in Block,
         NEW place \in 0 .. BlockSize, NEW size \in 0 .. BlockSize - place,
         NEW input \in [1 .. size -> Byte], Len(input) = size,
         Same(bytes, letters, start, place), Same(input, letters, start + place, size)
  PROVE  /\ CopyTo(bytes, place, input) \in Block
         /\ Same(CopyTo(bytes, place, input), letters, start, place + size)
PROOF
<1> DEFINE new == CopyTo(bytes, place, input)
<1>1. new = [i \in 1 .. BlockSize |->
               IF place < i /\ i <= place + size THEN input[i - place] ELSE bytes[i]]
  BY DEF CopyTo, Block
<1>2. BlockSize \in Nat
  BY Sizes
<1> HIDE DEF new
<1>3. new \in Block
  <2>1. \A i \in 1 .. BlockSize : place < i /\ i <= place + size => i - place \in 1 .. size
    BY <1>2
  <2> QED
    BY <1>1, <2>1 DEF Block
<1>4. ASSUME NEW i \in 1 .. place + size
      PROVE  new[i] = letters[start + i]
  <2>1. i \in 1 .. BlockSize
    BY <1>2
  <2>2. new[i] = IF place < i /\ i <= place + size THEN input[i - place] ELSE bytes[i]
    BY <1>1, <2>1
  <2>3. CASE i <= place
    <3>1. ~ (place < i) /\ i \in 1 .. place
      BY <2>1, <2>3
    <3> QED
      BY <2>2, <3>1 DEF Same
  <2>4. CASE i > place
    <3>1. place < i /\ i <= place + size /\ i - place \in 1 .. size
      BY <2>4
    <3>2. start + place + (i - place) = start + i
      OBVIOUS
    <3>3. new[i] = input[i - place]
      BY <2>2, <3>1
    <3>4. input[i - place] = letters[start + place + (i - place)]
      BY <3>1 DEF Same
    <3> QED
      BY <3>2, <3>3, <3>4
  <2> QED
    BY <2>3, <2>4
<1> QED
  BY <1>3, <1>4 DEF new, Same

\* The blocks of a text are those of what it begins.
LEMMA BlocksKept ==
  ASSUME NEW letters \in Seq(Byte), NEW input \in Seq(Byte),
         NEW blocks, BlocksOf(letters, blocks), Row(Len(blocks)) <= Len(letters)
  PROVE  BlocksOf(letters \o input, blocks)
PROOF
<1> SUFFICES ASSUME NEW n \in 1 .. Len(blocks)
             PROVE  Same(blocks[n], letters \o input, Row(n - 1), BlockSize)
  BY DEF BlocksOf
<1> DEFINE b == n - 1
<1>1. /\ Len(blocks) \in Nat /\ BlockSize \in Nat /\ Len(letters) \in Nat
  BY Sizes, Joined DEF BlocksOf
<1>2. /\ b \in Nat /\ n \in Nat /\ n <= Len(blocks) /\ 1 \in Nat /\ n = b + 1
  BY <1>1
<1>3. Same(blocks[n], letters, Row(b), BlockSize)
  BY DEF BlocksOf
<1> HIDE DEF b
<1>4. Row(n) = Row(b) + BlockSize /\ Row(b) \in Nat /\ Row(n) <= Row(Len(blocks))
  BY <1>1, <1>2, RowTypes, RowSum, RowOrder
<1>5. Row(b) + BlockSize <= Len(letters)
  <2>1. Row(Len(blocks)) \in Nat
    BY <1>1, RowTypes
  <2> QED
    BY <1>1, <1>4, <2>1
<1>6. Same(blocks[n], letters \o input, Row(b), BlockSize)
  BY <1>1, <1>3, <1>4, <1>5, SameInFirst
<1> QED
  BY <1>6 DEF b

LEMMA JoinedBlocks ==
  ASSUME NEW x \in Seq(Block), NEW y \in Seq(Block)
  PROVE  /\ x \o y \in Seq(Block) /\ Len(x \o y) = Len(x) + Len(y)
         /\ \A n \in 1 .. Len(x) : (x \o y)[n] = x[n]
         /\ \A n \in 1 .. Len(y) : (x \o y)[Len(x) + n] = y[n]
  OBVIOUS

\* The blocks with one and with those of the input.
Follow(blocks, size, letters, k) ==
  /\ blocks \in [1 .. size -> Block]
  /\ \A n \in 1 .. size : Same(blocks[n], letters, Row(k + n), BlockSize)

LEMMA BlocksGrow ==
  ASSUME NEW letters, NEW blocks, BlocksOf(letters, blocks),
         NEW full \in Block, Same(full, letters, Row(Len(blocks)), BlockSize),
         NEW chunks \in Nat, NEW more, Follow(more, chunks, letters, Len(blocks))
  PROVE  /\ BlocksOf(letters, blocks \o <<full>> \o more)
         /\ Len(blocks \o <<full>> \o more) = Len(blocks) + 1 + chunks
PROOF
<1> DEFINE new == blocks \o <<full>> \o more
           k == Len(blocks)
<1>1. k \in Nat /\ blocks \in Seq(Block) /\ more \in Seq(Block) /\ Len(more) = chunks
  BY DEF BlocksOf, Follow
<1>2. /\ new \in Seq(Block) /\ Len(new) = k + 1 + chunks
      /\ \A n \in 1 .. k : new[n] = blocks[n]
      /\ new[k + 1] = full
      /\ \A n \in 1 .. chunks : new[k + 1 + n] = more[n]
  <2> DEFINE one == blocks \o <<full>>
  <2>1. /\ one \in Seq(Block) /\ Len(one) = k + 1
        /\ \A n \in 1 .. k : one[n] = blocks[n]
        /\ one[k + 1] = full
    BY <1>1
  <2> HIDE DEF one, k
  <2>2. k \in Nat /\ more \in Seq(Block) /\ Len(more) = chunks
    BY <1>1
  <2>3. /\ one \o more \in Seq(Block) /\ Len(one \o more) = k + 1 + chunks
        /\ \A n \in 1 .. k + 1 : (one \o more)[n] = one[n]
        /\ \A n \in 1 .. chunks : (one \o more)[k + 1 + n] = more[n]
    <3>1. /\ \A n \in 1 .. Len(one) : (one \o more)[n] = one[n]
          /\ \A n \in 1 .. Len(more) : (one \o more)[Len(one) + n] = more[n]
          /\ one \o more \in Seq(Block) /\ Len(one \o more) = Len(one) + Len(more)
      BY <2>1, <2>2, JoinedBlocks
    <3> QED
      BY <2>1, <2>2, <3>1
  <2>4. new = one \o more
    BY DEF one
  <2>5. \A n \in 1 .. k : n \in 1 .. k + 1
    BY <2>2
  <2>6. k + 1 \in 1 .. k + 1
    BY <2>2
  <2> HIDE DEF new
  <2> QED
    BY <2>1, <2>3, <2>4, <2>5, <2>6
<1> HIDE DEF new
<1>3. ASSUME NEW n \in 1 .. k + 1 + chunks
      PROVE  Same(new[n], letters, Row(n - 1), BlockSize)
  <2>1. CASE n \in 1 .. k
    BY <1>2, <2>1 DEF BlocksOf
  <2>2. CASE n = k + 1
    <3>1. n - 1 = k
      BY <1>1, <2>2
    <3> QED
      BY <1>2, <2>2, <3>1
  <2>3. CASE n > k + 1
    <3> DEFINE j == n - (k + 1)
    <3>1. j \in 1 .. chunks /\ k + 1 + j = n /\ k + j = n - 1
      BY <1>1, <2>3
    <3> HIDE DEF j
    <3>2. new[n] = more[j]
      BY <1>2, <3>1
    <3>3. Same(more[j], letters, Row(k + j), BlockSize)
      BY <3>1 DEF Follow
    <3> QED
      BY <3>1, <3>2, <3>3
  <2> QED
    BY <1>1, <2>1, <2>2, <2>3
<1> QED
  BY <1>2, <1>3 DEF BlocksOf, new

\* A block of the input, and all of them.
OneBlock(block, letters, start) == block \in Block /\ Same(block, letters, start, BlockSize)

LEMMA ChunkOf ==
  ASSUME NEW letters \in Seq(Byte), NEW input \in Seq(Byte),
         NEW k \in Nat, NEW first \in Nat, Len(letters) + first = Row(k + 1),
         NEW chunks \in Nat, first + Row(chunks) <= Len(input),
         NEW n \in 1 .. chunks
  PROVE  OneBlock(SubSeq(input, first + (n - 1) * BlockSize + 1,
                                first + n * BlockSize),
                  letters \o input, Row(k + n))
PROOF
<1> DEFINE b == n - 1
           a == first + Row(b)
           chunk == SubSeq(input, a + 1, a + BlockSize)
<1>1. /\ b \in Nat /\ n \in Nat /\ n = b + 1 /\ n <= chunks /\ 1 \in Nat
      /\ BlockSize \in Nat /\ Len(letters) \in Nat /\ Len(input) \in Nat
  BY Sizes, Joined
<1> HIDE DEF b
<1>2. /\ Row(n) = Row(b) + BlockSize /\ Row(b) \in Nat
      /\ Row(n) <= Row(chunks) /\ Row(chunks) \in Nat
  BY <1>1, RowTypes, RowSum, RowOrder
<1>3. Row(k + n) = Row(k + 1) + Row(b)
  <2>1. k + n = (k + 1) + b /\ k + 1 \in Nat
    BY <1>1
  <2> QED
    BY <1>1, <2>1, RowSum
<1>4. /\ first + (n - 1) * BlockSize = a
      /\ first + n * BlockSize = a + BlockSize
  <2>1. (n - 1) * BlockSize = Row(b) /\ n * BlockSize = Row(n)
    BY DEF Row, b
  <2>2. first + Row(n) = first + Row(b) + BlockSize
    <3> DEFINE r == Row(b)
    <3>1. r \in Nat /\ Row(n) = r + BlockSize
      BY <1>2
    <3> HIDE DEF r
    <3>2. first + Row(n) = first + r + BlockSize
      BY <1>1, <3>1
    <3> QED
      BY <3>2 DEF r
  <2> QED
    BY <2>1, <2>2
<1>5. a \in Nat /\ a + BlockSize <= Len(input) /\ Len(letters) + a = Row(k + n)
  <2> DEFINE r == Row(b)
  <2>1. /\ r \in Nat /\ Row(n) = r + BlockSize /\ Row(n) <= Row(chunks)
        /\ Row(chunks) \in Nat /\ Row(k + n) = Row(k + 1) + r
    BY <1>2, <1>3
  <2> HIDE DEF r
  <2>2. first + r \in Nat /\ first + r + BlockSize <= Len(input)
        /\ Len(letters) + (first + r) = Row(k + n)
    BY <1>1, <2>1
  <2> QED
    BY <2>2 DEF r
<1> HIDE DEF a
<1>6. /\ chunk \in [1 .. BlockSize -> Byte]
      /\ Same(chunk, input, a, BlockSize)
  <2>1. Part(chunk, input, a, BlockSize)
    BY <1>1, <1>5, PartOf
  <2> QED
    BY <2>1 DEF Part
<1> HIDE DEF chunk
<1>7. Same(chunk, letters \o input, Row(k + n), BlockSize)
  BY <1>1, <1>5, <1>6, SameInSecond
<1> QED
  BY <1>4, <1>6, <1>7 DEF OneBlock, chunk, Block

\* An update that does not fill the block.
LEMMA UpdateStays ==
  ASSUME NEW letters \in Seq(Byte), NEW input \in Seq(Byte),
         Taken(letters, digest, buffer, count), Update(input),
         NEW place \in 0 .. BlockSize - 1,
         Len(letters) = Row(Len(digest)) + place,
         Index = place, Len(input) < BlockSize - place
  PROVE  Taken(letters \o input, digest', buffer', count')
PROOF
<1> DEFINE all == letters \o input
           start == Row(Len(digest))
           size == Len(input)
           new == CopyTo(buffer, place, input)
<1>1. /\ BlocksOf(letters, digest) /\ RestOf(letters, start, buffer)
      /\ count = BitsOf(letters)
  BY DEF Taken
<1>2. /\ Len(digest) \in Nat /\ BlockSize \in Nat
      /\ Len(letters) \in Nat /\ size \in Nat
  BY <1>1, Sizes, Joined DEF BlocksOf
<1>3. start \in Nat
  BY <1>2, RowTypes
<1>4. all \in Seq(Byte) /\ Len(all) = Len(letters) + size
  BY Joined
<1>5. /\ digest' = digest /\ buffer' = new /\ count' = Counted(size)
  <2>1. ~ (Len(input) >= BlockSize - Index)
    BY <1>2
  <2> QED
    BY <2>1 DEF Update
<1>6. count' = BitsOf(all)
  BY <1>1, <1>5, CountGrows
<1>7. input \in [1 .. size -> Byte] /\ Len(input) = size
  BY <1>2
<1>8. BlocksOf(all, digest)
  <2>1. Row(Len(digest)) <= Len(letters)
    BY <1>2, <1>3
  <2> QED
    BY <1>1, <2>1, BlocksKept
<1>9. /\ size \in 0 .. BlockSize - place /\ place \in 0 .. BlockSize
      /\ start + place <= Len(letters) /\ Len(letters) - start = place
      /\ place + size \in 0 .. BlockSize - 1 /\ place \in Nat
      /\ Len(all) - start = place + size
      /\ 0 \in Nat /\ 0 + size <= Len(input)
      /\ start + place = Len(letters) + 0
  BY <1>2, <1>3, <1>4
<1> HIDE DEF start, size, all, new
<1>10. Same(buffer, all, start, place) /\ buffer \in Block
  <2>1. Same(buffer, letters, start, place) /\ buffer \in Block
    BY <1>1, <1>9 DEF RestOf
  <2> QED
    BY <1>3, <1>9, <2>1, SameInFirst DEF all
<1>11. Same(input, all, start + place, size)
  <2>1. Same(input, input, 0, size)
    BY <1>2 DEF Same
  <2> QED
    BY <1>2, <1>9, <2>1, SameInSecond DEF all
<1>12. new \in Block /\ Same(new, all, start, place + size)
  BY <1>3, <1>7, <1>9, <1>10, <1>11, Copied DEF new
<1>13. RestOf(all, start, new) /\ Len(all) - start \in 0 .. BlockSize - 1
  BY <1>9, <1>12 DEF RestOf
<1>14. Taken(all, digest', buffer', count')
  BY <1>5, <1>6, <1>8, <1>13
  DEF Taken, start, BlocksOf, RestOf, BitsOf, Same, all
<1> QED
  BY <1>14 DEF all

\* What an update that fills the block does with the rest of the input.
Filling(k, place, size, length1, length2) ==
  LET first == BlockSize - place
        chunks == (size - first) \div BlockSize
        rem == (size - first) % BlockSize
        done == first + chunks * BlockSize
        start == Row(k)
        end == Row(k + 1 + chunks)
    IN  /\ first \in 0 .. BlockSize - place /\ first \in Nat
        /\ place + first = BlockSize /\ place \in 0 .. BlockSize
        /\ place \in Nat
        /\ chunks \in Nat
        /\ rem \in 0 .. BlockSize - 1 /\ rem \in 0 .. BlockSize - 0
        /\ rem \in Nat /\ 0 + rem = rem
        /\ 0 \in Nat /\ 0 \in 0 .. BlockSize /\ 0 + 1 = 1
        /\ 0 + first = first /\ 0 + first <= size
        /\ start \in Nat /\ start + place <= length1
        /\ length1 - start = place /\ length1 + 0 = start + place
        /\ length1 + first = Row(k + 1)
        /\ first + Row(chunks) <= size
        /\ done \in Nat /\ done + rem = size /\ done + rem <= size
        /\ end \in Nat /\ end + 0 = end /\ length1 + done = end + 0
        /\ length2 - end = rem

\* The rows that an update goes on for.
LEMMA RowsFilled ==
  ASSUME NEW k \in Nat, NEW place \in 0 .. BlockSize - 1,
         NEW size \in Nat, size >= BlockSize - place,
         NEW length1, length1 = Row(k) + place,
         NEW length2, length2 = length1 + size
  PROVE  Filling(k, place, size, length1, length2)
PROOF
<1> DEFINE first == BlockSize - place
           left == size - first
           chunks == left \div BlockSize
           rem == left % BlockSize
           start == Row(k)
           more == Row(chunks)
           end == Row(k + 1 + chunks)
<1>1. BlockSize \in Nat \ {0}
  BY Sizes
<1>2. first \in 1 .. BlockSize /\ left \in Nat /\ size = first + left
  BY <1>1
<1> HIDE DEF first, left
<1>3. chunks \in Nat /\ rem \in 0 .. BlockSize - 1 /\ left = Row(chunks) + rem
  BY <1>2, RowOf
<1>4. chunks * BlockSize = Row(chunks)
  BY DEF Row
<1> HIDE DEF chunks, rem
<1>5. start \in Nat /\ more \in Nat /\ 1 \in Nat /\ k + 1 \in Nat
  BY <1>3, RowTypes
<1>6. Row(k + 1) = start + BlockSize /\ end = Row(k + 1) + more
  BY <1>3, <1>5, RowTypes, RowSum
<1>7. left = more + rem /\ first = BlockSize - place /\ length1 = start + place
  BY <1>3 DEF first
<1> HIDE DEF start, more, end
<1>8. /\ first \in 0 .. BlockSize - place /\ first \in Nat
      /\ place + first = BlockSize /\ place \in 0 .. BlockSize /\ place \in Nat
      /\ rem \in 0 .. BlockSize - 0 /\ rem \in Nat /\ 0 + rem = rem
      /\ 0 \in Nat /\ 0 \in 0 .. BlockSize /\ 0 + 1 = 1
      /\ 0 + first = first /\ 0 + first <= size
      /\ start + place <= length1
      /\ length1 - start = place /\ length1 + 0 = start + place
      /\ length1 + first = Row(k + 1)
      /\ first + more <= size
  BY <1>1, <1>2, <1>3, <1>5, <1>6, <1>7
<1>9. /\ first + more \in Nat /\ (first + more) + rem = size
      /\ (first + more) + rem <= size
      /\ end \in Nat /\ end + 0 = end /\ length1 + (first + more) = end + 0
      /\ length2 - end = rem
  BY <1>1, <1>2, <1>3, <1>5, <1>6, <1>7
<1> QED
  BY <1>3, <1>4, <1>5, <1>8, <1>9
  DEF Filling, first, left, chunks, rem, start, more, end

\* An update that fills the block.
LEMMA UpdateGoesOn ==
  ASSUME NEW letters \in Seq(Byte), NEW input \in Seq(Byte),
         Taken(letters, digest, buffer, count), Update(input),
         NEW place \in 0 .. BlockSize - 1,
         Len(letters) = Row(Len(digest)) + place,
         Index = place, Len(input) >= BlockSize - place
  PROVE  Taken(letters \o input, digest', buffer', count')
PROOF
<1> DEFINE all == letters \o input
           k == Len(digest)
           start == Row(k)
           size == Len(input)
           first == BlockSize - place
           chunks == (size - first) \div BlockSize
           rem == (size - first) % BlockSize
           done == first + chunks * BlockSize
           end == Row(k + 1 + chunks)
           head == SubSeq(input, 1, first)
           full == CopyTo(buffer, place, head)
           Chunk(n) == SubSeq(input, first + (n - 1) * BlockSize + 1,
                                     first + n * BlockSize)
           more == [n \in 1 .. chunks |-> Chunk(n)]
           tail == SubSeq(input, done + 1, size)
           rest == CopyTo(full, 0, tail)
<1>1. /\ BlocksOf(letters, digest) /\ RestOf(letters, start, buffer)
      /\ count = BitsOf(letters)
  BY DEF Taken
<1>2. k \in Nat /\ BlockSize \in Nat /\ Len(letters) \in Nat /\ size \in Nat
  BY <1>1, Sizes, Joined DEF BlocksOf
<1>3. all \in Seq(Byte) /\ Len(all) = Len(letters) + size
  BY Joined
<1>4. /\ digest' = digest \o <<full>> \o more /\ buffer' = rest
      /\ count' = Counted(size)
  BY DEF Update
<1>5. count' = BitsOf(all)
  BY <1>1, <1>4, CountGrows
<1> HIDE DEF rest
<1>6. /\ first \in 0 .. BlockSize - place /\ first \in Nat
      /\ place + first = BlockSize /\ place \in 0 .. BlockSize /\ place \in Nat
      /\ chunks \in Nat
      /\ rem \in 0 .. BlockSize - 1 /\ rem \in 0 .. BlockSize - 0
      /\ rem \in Nat /\ 0 + rem = rem
      /\ 0 \in Nat /\ 0 \in 0 .. BlockSize /\ 0 + 1 = 1
      /\ 0 + first = first /\ 0 + first <= size
      /\ start \in Nat /\ start + place <= Len(letters)
      /\ Len(letters) - start = place /\ Len(letters) + 0 = start + place
      /\ Len(letters) + first = Row(k + 1)
      /\ first + Row(chunks) <= size
      /\ done \in Nat /\ done + rem = size /\ done + rem <= size
      /\ end \in Nat /\ end + 0 = end /\ Len(letters) + done = end + 0
      /\ Len(all) - end = rem
  <2> DEFINE t == Len(letters)
             l == Len(all)
  <2>1. /\ k \in Nat /\ size \in Nat /\ size >= BlockSize - place
        /\ t = Row(k) + place /\ l = t + size
    BY <1>2, <1>3
  <2> HIDE DEF k, size, t, l
  <2>2. Filling(k, place, size, t, l)
    BY <2>1, RowsFilled
  <2> QED
    BY <2>2, Zenon DEF Filling, t, l, k, size
<1>7. BlocksOf(all, digest)
  <2> DEFINE r == Row(Len(digest))
             t == Len(letters)
  <2>1. r \in Nat /\ t \in Nat /\ r + place <= t /\ place \in Nat
    BY <1>2, <1>6
  <2> HIDE DEF r, t
  <2>2. r <= t
    BY <2>1
  <2> QED
    BY <1>1, <2>2, BlocksKept DEF r, t
<1>8. Len(input) = size
  OBVIOUS
<1> HIDE DEF start, size, all, more, full, done, rem, chunks, first, end, k, Chunk,
             head, tail
\* The block that is filled.
<1>9. full \in Block /\ Same(full, all, start, BlockSize)
  <2>1. buffer \in Block /\ Same(buffer, letters, start, place)
    BY <1>1, <1>6 DEF RestOf
  <2>2. Same(buffer, all, start, place)
    BY <1>6, <2>1, SameInFirst DEF all
  <2>3. /\ head \in [1 .. first -> Byte] /\ Len(head) = first
        /\ Same(head, input, 0, first)
    <3>1. head = SubSeq(input, 0 + 1, 0 + first)
      BY <1>6 DEF head
    <3>2. 0 + first <= Len(input) /\ 0 \in Nat /\ first \in Nat
      BY <1>6, <1>8
    <3>3. Part(head, input, 0, first)
      BY <3>1, <3>2, PartOf
    <3> QED
      BY <3>3 DEF Part
  <2>4. Same(head, all, start + place, first)
    BY <1>6, <1>8, <2>3, SameInSecond DEF all
  <2>5. full \in Block /\ Same(full, all, start, place + first)
    BY <1>6, <2>1, <2>2, <2>3, <2>4, Copied DEF full
  <2> QED
    BY <1>6, <2>5
\* Those after it.
<1>10. /\ more \in [1 .. chunks -> Block]
       /\ \A n \in 1 .. chunks : Same(more[n], all, Row(k + n), BlockSize)
  <2>1. ASSUME NEW n \in 1 .. chunks
        PROVE  OneBlock(Chunk(n), all, Row(k + n))
    <3>1. /\ k \in Nat /\ first \in Nat /\ Len(letters) + first = Row(k + 1)
          /\ chunks \in Nat /\ first + Row(chunks) <= Len(input)
      BY <1>2, <1>6, <1>8
    <3> QED
      BY <3>1, ChunkOf DEF Chunk, all
  <2> QED
    BY <2>1 DEF OneBlock, more
<1>11. BlocksOf(all, digest') /\ Len(digest') = k + 1 + chunks
  <2>1. full \in Block /\ Same(full, all, Row(Len(digest)), BlockSize)
    BY <1>9 DEF start, k
  <2>2. chunks \in Nat /\ Follow(more, chunks, all, Len(digest))
    BY <1>6, <1>10 DEF Follow, k
  <2>3. /\ BlocksOf(all, digest \o <<full>> \o more)
        /\ Len(digest \o <<full>> \o more) = Len(digest) + 1 + chunks
    BY <1>7, <2>1, <2>2, BlocksGrow
  <2> QED
    BY <1>4, <2>3 DEF k
\* What is left over.
<1>12. rest \in Block /\ Same(rest, all, end, rem)
  <2>1. /\ tail \in [1 .. rem -> Byte] /\ Len(tail) = rem
        /\ Same(tail, input, done, rem)
    <3>1. tail = SubSeq(input, done + 1, done + rem)
      BY <1>6 DEF tail
    <3>2. done + rem <= Len(input) /\ done \in Nat /\ rem \in Nat
      BY <1>6, <1>8
    <3>3. Part(tail, input, done, rem)
      BY <3>1, <3>2, PartOf
    <3> QED
      BY <3>3 DEF Part
  <2>2. Same(tail, all, end + 0, rem)
    BY <1>6, <1>8, <2>1, SameInSecond DEF all
  <2>3. Same(full, all, end, 0)
    BY DEF Same
  <2>4. rest \in Block /\ Same(rest, all, end, 0 + rem)
    BY <1>6, <1>9, <2>1, <2>2, <2>3, Copied DEF rest
  <2> QED
    BY <1>6, <2>4
<1>13. RestOf(all, end, rest) /\ Len(all) - end \in 0 .. BlockSize - 1
  BY <1>6, <1>12 DEF RestOf
<1>14. Row(Len(digest')) = end
  BY <1>11 DEF end
<1>15. Taken(all, digest', buffer', count')
  BY <1>4, <1>5, <1>11, <1>13, <1>14
  DEF Taken, BlocksOf, RestOf, BitsOf, Row, Same, all
<1> QED
  BY <1>15 DEF all

\* The place where update goes on.
LEMMA PlaceOf ==
  ASSUME NEW letters \in Seq(Byte), Taken(letters, digest, buffer, count)
  PROVE  Index = Len(letters) - Row(Len(digest)) /\ Index = Len(letters) % BlockSize
PROOF
<1> DEFINE k == Len(digest)
           n == Len(letters)
           place == n - Row(k)
<1>1. n \in Nat /\ k \in Nat /\ Row(k) \in Nat /\ BlockSize \in Nat \ {0}
  BY Joined, Sizes, RowTypes DEF Taken, BlocksOf
<1>2. place \in 0 .. BlockSize - 1
  BY DEF Taken
<1>3. count[1] = (n * ByteBits) % Word4
  BY DEF Taken, BitsOf
<1> HIDE DEF n, k
<1>4. Index = n % BlockSize
  BY <1>1, <1>3, PlaceInBlock DEF Index
<1>5. n = BlockSize * k + place
  <2>1. BlockSize * k = Row(k)
    BY <1>1 DEF Row
  <2> QED
    BY <1>1, <2>1
<1>6. n % BlockSize = place
  <2> HIDE DEF place
  <2> QED
    BY <1>1, <1>2, <1>5, Quotient
<1> QED
  BY <1>4, <1>6 DEF n, k

\* Any update takes its input.
LEMMA UpdateTakes ==
  ASSUME NEW letters \in Seq(Byte), NEW input \in Seq(Byte),
         Taken(letters, digest, buffer, count), Update(input)
  PROVE  Taken(letters \o input, digest', buffer', count')
PROOF
<1> DEFINE place == Len(letters) - Row(Len(digest))
<1>1. /\ Len(letters) \in Nat /\ Len(input) \in Nat /\ BlockSize \in Nat \ {0}
      /\ Row(Len(digest)) \in Nat
  BY Joined, Sizes, RowTypes DEF Taken, BlocksOf
<1>2. place \in 0 .. BlockSize - 1 /\ Len(letters) = Row(Len(digest)) + place
  BY <1>1 DEF Taken
<1>3. Index = place
  BY <1>1, PlaceOf
<1> HIDE DEF place
<1>4. CASE Len(input) < BlockSize - place
  BY <1>2, <1>3, <1>4, UpdateStays
<1>5. CASE Len(input) >= BlockSize - place
  BY <1>2, <1>3, <1>5, UpdateGoesOn
<1> QED
  BY <1>1, <1>2, <1>4, <1>5

-----------------------------------------------------------------------------
(* Padding.                                                                *)

Zeros(n) == [i \in 1 .. n |-> Zero]

\* The zeros that make a text end a block with its length.
Fits(size, n) == (size + 1 + n + LengthSize) % BlockSize = 0
Fill(size) == CHOOSE n \in 0 .. BlockSize - 1 : Fits(size, n)

\* The text with them, and its length in bytes.
Ended(size) == TextOf(size) \o <<One>> \o Zeros(Fill(size))
Words(size) ==
  [i \in 1 .. LengthSize |->
    ((size * ByteBits) \div power2[ByteBits * (i - 1)]) % power2[ByteBits]]

LEMMA PaddedParts == Padded = Ended(length) \o Words(length)
  BY DEF Padded, Ended, Words, Fill, Fits, Zeros

\* There is one number of zeros that fits.
LEMMA FillIs ==
  ASSUME NEW size \in Nat, NEW n \in 0 .. BlockSize - 1, Fits(size, n)
  PROVE  Fill(size) = n
PROOF
<1> DEFINE m == Fill(size)
<1>1. m \in 0 .. BlockSize - 1 /\ Fits(size, m)
  BY DEF Fill
<1> HIDE DEF m
<1> DEFINE a == size + 1 + n + LengthSize
           b == size + 1 + m + LengthSize
<1>2. BlockSize \in Nat \ {0} /\ LengthSize \in Nat
  BY Sizes
<1>3. a \in Nat /\ b \in Nat /\ b - a = m - n
  BY <1>1, <1>2
<1>4. a % BlockSize = 0 /\ b % BlockSize = 0
  BY <1>1 DEF Fits
<1> HIDE DEF a, b
<1> DEFINE qa == a \div BlockSize
           qb == b \div BlockSize
<1>5. qa \in Nat /\ a = BlockSize * qa + 0
  <2>1. a \div BlockSize \in Nat /\ a = BlockSize * (a \div BlockSize) + (a % BlockSize)
    BY <1>2, <1>3, Remainders
  <2> QED
    BY <1>4, <2>1
<1>6. qb \in Nat /\ b = BlockSize * qb + 0
  <2>1. b \div BlockSize \in Nat /\ b = BlockSize * (b \div BlockSize) + (b % BlockSize)
    BY <1>2, <1>3, Remainders
  <2> QED
    BY <1>4, <2>1
<1> HIDE DEF qa, qb
<1> DEFINE k == qb - qa
<1>7. k \in Int /\ BlockSize * k = m - n
  BY <1>2, <1>3, <1>5, <1>6
<1> HIDE DEF k
<1>8. k = 0
  <2>1. BlockSize * k < BlockSize /\ BlockSize * k > 0 - BlockSize
    BY <1>1, <1>2, <1>7
  <2> QED
    BY <1>2, <1>7, <2>1, SmallMultiple
<1> QED
  BY <1>1, <1>2, <1>7, <1>8 DEF m

\* PadLen is the bit 1 and these zeros.
LEMMA PadLenFits ==
  ASSUME NEW size \in Nat, Index = size % BlockSize
  PROVE  /\ PadLen \in 1 .. BlockSize
         /\ PadLen = Fill(size) + 1 /\ Fill(size) \in 0 .. BlockSize - 1
PROOF
<1> DEFINE place == size % BlockSize
           k == size \div BlockSize
<1>1. /\ BlockSize \in Nat \ {0} /\ LengthSize \in Nat /\ LengthSize < BlockSize
  BY Sizes
<1>2. k \in Nat /\ place \in 0 .. BlockSize - 1 /\ size = BlockSize * k + place
  BY <1>1, Remainders
<1>3. PadLen = IF place < BlockSize - LengthSize
                 THEN (BlockSize - LengthSize) - place
                 ELSE (2 * BlockSize - LengthSize) - place
  BY DEF PadLen
<1> HIDE DEF place, k
<1>4. PadLen \in 1 .. BlockSize
  BY <1>1, <1>2, <1>3
<1> DEFINE n == PadLen - 1
<1>5. n \in 0 .. BlockSize - 1 /\ PadLen = n + 1
  BY <1>1, <1>4
<1>6. PICK q \in Nat : size + 1 + n + LengthSize = BlockSize * q + 0
  <2>1. CASE place < BlockSize - LengthSize
    <3>1. size + 1 + n + LengthSize = BlockSize * k + BlockSize
      BY <1>1, <1>2, <1>3, <1>5, <2>1
    <3>2. BlockSize * (k + 1) = BlockSize * k + BlockSize /\ k + 1 \in Nat
      BY <1>1, <1>2
    <3>3. size + 1 + n + LengthSize = BlockSize * (k + 1) + 0
      BY <1>1, <1>2, <3>1, <3>2
    <3> QED
      BY <3>2, <3>3
  <2>2. CASE ~ (place < BlockSize - LengthSize)
    <3>1. size + 1 + n + LengthSize = BlockSize * k + 2 * BlockSize
      BY <1>1, <1>2, <1>3, <1>5, <2>2
    <3>2. BlockSize * (k + 2) = BlockSize * k + 2 * BlockSize /\ k + 2 \in Nat
      BY <1>1, <1>2
    <3>3. size + 1 + n + LengthSize = BlockSize * (k + 2) + 0
      BY <1>1, <1>2, <3>1, <3>2
    <3> QED
      BY <3>2, <3>3
  <2> QED
    BY <2>1, <2>2
<1>7. Fits(size, n)
  <2>1. q \in Int /\ 0 \in 0 .. BlockSize - 1
    BY <1>1
  <2>2. (BlockSize * q + 0) % BlockSize = 0
    BY <1>1, <2>1, Remainders
  <2> QED
    BY <1>6, <2>2 DEF Fits
<1> HIDE DEF n
<1>8. Fill(size) = n
  BY <1>5, <1>7, FillIs
<1> QED
  BY <1>4, <1>5, <1>8

\* What the constructor and finalize give update.
LEMMA Inputs ==
  /\ One \in Nat
  /\ \A size \in Nat : TextOf(size) \in Seq(Byte) /\ Len(TextOf(size)) = size
  /\ \A n \in Nat : [i \in 1 .. n |-> IF i = 1 THEN One ELSE Zero] \in Seq(Byte)
PROOF
<1>1. One \in Nat
  <2>1. ByteBits * 1 \in 0 .. TopPower /\ ByteBits * 1 = ByteBits
    BY Sizes, LastIsLong
  <2>2. ByteBits - 1 \in 0 .. TopPower
    BY <2>1, Sizes
  <2> QED
    BY <2>2, PowerTypes DEF One
<1>2. ASSUME NEW size \in Nat
      PROVE  TextOf(size) \in Seq(Byte) /\ Len(TextOf(size)) = size
  <2>1. TextOf(size) = [i \in 1 .. size |-> <<"text", i>>]
    BY DEF TextOf
  <2>2. \A i \in 1 .. size : <<"text", i>> \in Byte
    BY DEF Byte
  <2>3. TextOf(size) \in [1 .. size -> Byte]
    BY <2>1, <2>2
  <2> QED
    BY <2>3
<1>3. ASSUME NEW n \in Nat
      PROVE  [i \in 1 .. n |-> IF i = 1 THEN One ELSE Zero] \in Seq(Byte)
  <2>1. One \in Byte /\ Zero \in Byte
    BY <1>1 DEF Byte, Zero
  <2>2. [i \in 1 .. n |-> IF i = 1 THEN One ELSE Zero] \in [1 .. n -> Byte]
    BY <2>1
  <2> QED
    BY <2>2
<1> QED
  BY <1>1, <1>2, <1>3

LEMMA PaddingEnds ==
  ASSUME NEW size \in Nat, Index = size % BlockSize
  PROVE  TextOf(size) \o [i \in 1 .. PadLen |-> IF i = 1 THEN One ELSE Zero]
           = Ended(size)
PROOF
<1> DEFINE n == Fill(size)
           pad == [i \in 1 .. PadLen |-> IF i = 1 THEN One ELSE Zero]
           letters == TextOf(size)
<1>1. n \in Nat /\ PadLen = n + 1
  BY PadLenFits, Sizes
<1>2. letters \in Seq(Byte) /\ One \in Byte /\ Zero \in Byte
  BY Inputs DEF Byte, Zero
<1> HIDE DEF n, letters
<1>3. pad = <<One>> \o Zeros(n)
  <2> DEFINE z == Zeros(n)
  <2>1. z \in [1 .. n -> Byte] /\ z = [i \in 1 .. n |-> Zero]
    BY <1>2 DEF Zeros
  <2>2. z \in Seq(Byte) /\ Len(z) = n
    BY <1>1, <2>1
  <2>3. pad \in Seq(Byte) /\ Len(pad) = n + 1
    <3>1. pad \in [1 .. n + 1 -> Byte]
      BY <1>1, <1>2
    <3> QED
      BY <1>1, <3>1
  <2> DEFINE y == <<One>> \o z
  <2>4. /\ y \in Seq(Byte) /\ Len(y) = n + 1
        /\ y[1] = One /\ \A i \in 1 .. n : y[i + 1] = z[i]
    <3> HIDE DEF z
    <3> QED
      BY <1>1, <1>2, <2>2
  <2>5. ASSUME NEW i \in 1 .. n + 1
        PROVE  pad[i] = y[i]
    <3>1. CASE i = 1
      BY <1>1, <2>4, <3>1
    <3>2. CASE i # 1
      <4>1. i - 1 \in 1 .. n /\ (i - 1) + 1 = i
        BY <1>1, <3>2
      <4>2. y[i] = z[i - 1]
        BY <2>4, <4>1
      <4> QED
        BY <1>1, <2>1, <3>2, <4>1, <4>2
    <3> QED
      BY <3>1, <3>2
  <2> HIDE DEF y, pad
  <2>6. pad = y
    BY <1>1, <2>3, <2>4, <2>5
  <2> QED
    BY <2>6 DEF y
<1> HIDE DEF pad
<1>4. letters \o (<<One>> \o Zeros(n)) = (letters \o <<One>>) \o Zeros(n)
  <2>1. Zeros(n) \in Seq(Byte)
    BY <1>1, <1>2 DEF Zeros
  <2> DEFINE z == Zeros(n)
  <2> HIDE DEF z
  <2> QED
    BY <1>2, <2>1, Associated DEF z
<1> QED
  BY <1>3, <1>4 DEF Ended, n, pad, letters

-----------------------------------------------------------------------------
(* The length.                                                             *)

\* A digit of the number of bits.
Digit(x, k) == (x \div power2[ByteBits * k]) % power2[ByteBits]

\* The digits that a word keeps are those of the number.
LEMMA LowDigits ==
  ASSUME NEW x \in Nat, NEW k \in 0 .. WordBytes - 1
  PROVE  Digit(x % Word4, k) = Digit(x, k)
PROOF
<1> DEFINE d == WordBytes - (k + 1)
           e == ByteBits * k
           f == ByteBits * d
<1>1. /\ k \in Nat /\ d \in Nat /\ WordBytes = (k + 1) + d
      /\ WordBytes \in Nat /\ ByteBits \in Nat
      /\ k \in 0 .. LengthSize /\ d \in 0 .. LengthSize
      /\ 1 \in 0 .. LengthSize /\ WordBytes \in 0 .. LengthSize
      /\ d + 1 \in 0 .. LengthSize
  BY Sizes
<1> HIDE DEF d
<1>2. ByteBits * WordBytes = e + (ByteBits + f) /\ ByteBits * (d + 1) = ByteBits + f
  BY <1>1
<1>3. /\ e \in 0 .. TopPower /\ f \in 0 .. TopPower /\ ByteBits \in 0 .. TopPower
      /\ ByteBits + f \in 0 .. TopPower /\ ByteBits * WordBytes \in 0 .. TopPower
  <2>1. ByteBits * 1 = ByteBits
    BY <1>1
  <2> QED
    BY <1>1, <1>2, <2>1, LastIsLong
<1> HIDE DEF e, f
<1> DEFINE pe == power2[e]
           pf == power2[f]
           p == power2[ByteBits]
<1>4. pe \in Nat \ {0} /\ pf \in Nat \ {0} /\ p \in Nat \ {0}
  BY <1>3, PowerTypes
<1>5. Word4 = pe * (p * pf)
  <2>1. e \in Nat /\ f \in Nat /\ ByteBits \in Nat /\ TopPower \in Nat
        /\ ByteBits + f <= TopPower /\ e + (ByteBits + f) <= TopPower
        /\ ByteBits + f \in Nat
    BY <1>1, <1>2, <1>3, Sizes
  <2>2. power2[ByteBits + f] = power2[ByteBits] * power2[f]
    BY <2>1, PowerOfSum
  <2>3. power2[e + (ByteBits + f)] = power2[e] * power2[ByteBits + f]
    BY <2>1, PowerOfSum
  <2> QED
    BY <1>2, <2>2, <2>3 DEF Word4
<1> HIDE DEF pe, pf, p
<1>6. SameDigit(x, pe, p, pf)
  BY <1>4, DigitOfRemainder
<1> QED
  BY <1>5, <1>6 DEF SameDigit, Digit, pe, p, e

\* The digits after them are those of the quotient.
LEMMA HighDigits ==
  ASSUME NEW x \in Nat, NEW k \in 0 .. WordBytes - 1
  PROVE  Digit(x \div Word4, k) = Digit(x, WordBytes + k)
PROOF
<1> DEFINE e == ByteBits * k
           w == ByteBits * WordBytes
<1>1. /\ k \in Nat /\ WordBytes \in Nat /\ ByteBits \in Nat /\ TopPower \in Nat
      /\ k \in 0 .. LengthSize /\ WordBytes \in 0 .. LengthSize
      /\ WordBytes + k \in 0 .. LengthSize
  BY Sizes
<1>2. ByteBits * (WordBytes + k) = w + e
  BY <1>1
<1>3. e \in 0 .. TopPower /\ w \in 0 .. TopPower /\ w + e \in 0 .. TopPower
  BY <1>1, <1>2, LastIsLong
<1> HIDE DEF e, w
<1>4. power2[w + e] = power2[w] * power2[e]
  <2>1. w \in Nat /\ e \in Nat /\ w + e <= TopPower
    BY <1>1, <1>3
  <2> QED
    BY <2>1, PowerOfSum
<1>5. power2[w] \in Nat \ {0} /\ power2[e] \in Nat \ {0}
  BY <1>3, PowerTypes
<1>6. (x \div power2[w]) \div power2[e] = x \div power2[w + e]
  BY <1>4, <1>5, DivideTwice
<1> QED
  BY <1>2, <1>6 DEF Digit, Word4, e, w

\* What finalize keeps of the count.
LEMMA WordsCounted ==
  ASSUME NEW size \in Nat, NEW letters, Len(letters) = size, count = BitsOf(letters)
  PROVE  Encoded(count[1]) \o Encoded(count[2]) = Words(size)
PROOF
<1> DEFINE x == size * ByteBits
           low == Encoded(count[1])
           high == Encoded(count[2])
<1>1. /\ WordBytes \in Nat /\ LengthSize = WordBytes + WordBytes
      /\ x \in Nat /\ LengthSize \in Nat
  BY Sizes
<1>2. count[1] = x % Word4 /\ count[2] = (x \div Word4) % Word4
  BY DEF BitsOf
<1>3. x \div Word4 \in Nat
  <2> HIDE DEF x
  <2> QED
    BY <1>1, WordTypes, Remainders
<1> HIDE DEF x
<1>4. /\ low = [i \in 1 .. WordBytes |-> Digit(x, i - 1)]
      /\ high = [i \in 1 .. WordBytes |-> Digit(x, WordBytes + (i - 1))]
  <2>1. \A i \in 1 .. WordBytes : i - 1 \in 0 .. WordBytes - 1
    BY <1>1
  <2>2. \A i \in 1 .. WordBytes :
          /\ Digit(count[1], i - 1) = Digit(x, i - 1)
          /\ Digit(count[2], i - 1) = Digit(x, WordBytes + (i - 1))
    BY <1>1, <1>2, <1>3, <2>1, LowDigits, HighDigits
  <2>3. /\ low = [i \in 1 .. WordBytes |-> Digit(count[1], i - 1)]
        /\ high = [i \in 1 .. WordBytes |-> Digit(count[2], i - 1)]
    BY DEF Encoded, Digit
  <2> QED
    BY <2>2, <2>3
<1>5. Words(size) = [i \in 1 .. LengthSize |-> Digit(x, i - 1)]
  BY DEF Words, Digit, x
<1> DEFINE both == low \o high
           words == Words(size)
<1> HIDE DEF low, high
<1>6. DOMAIN both = 1 .. LengthSize /\ both = [i \in 1 .. LengthSize |-> both[i]]
  <2> DEFINE D == {Digit(x, i) : i \in Int}
  <2>1. low \in [1 .. WordBytes -> D] /\ high \in [1 .. WordBytes -> D]
    BY <1>1, <1>4
  <2> HIDE DEF D
  <2>2. /\ low \in Seq(D) /\ Len(low) = WordBytes
        /\ high \in Seq(D) /\ Len(high) = WordBytes
    BY <1>1, <2>1
  <2>3. both \in Seq(D) /\ Len(both) = LengthSize
    BY <1>1, <2>2
  <2> HIDE DEF both
  <2>4. both \in [1 .. LengthSize -> D]
    BY <1>1, <2>3
  <2> QED
    BY <2>4
<1>7. \A i \in 1 .. LengthSize : both[i] = words[i]
  BY <1>1, <1>4, <1>5
<1> QED
  BY <1>5, <1>6, <1>7 DEF both, words, low, high

LEMMA WordsTypes ==
  ASSUME NEW size \in Nat
  PROVE  Words(size) \in Seq(Byte) /\ Len(Words(size)) = LengthSize
PROOF
<1> DEFINE x == size * ByteBits
<1>1. x \in Nat /\ LengthSize \in Nat /\ ByteBits * 1 = ByteBits
  BY Sizes
<1>2. Words(size) = [i \in 1 .. LengthSize |-> Digit(x, i - 1)]
  BY DEF Words, Digit
<1> HIDE DEF x
<1>3. ASSUME NEW k \in 0 .. LengthSize
      PROVE  Digit(x, k) \in Nat
  <2>1. /\ power2[ByteBits * k] \in Nat \ {0}
        /\ power2[ByteBits] \in Nat \ {0}
    <3>1. 1 \in 0 .. LengthSize
      BY Sizes
    <3>2. ByteBits * k \in 0 .. TopPower /\ ByteBits * 1 \in 0 .. TopPower
      BY <3>1, LastIsLong
    <3> QED
      BY <1>1, <3>2, PowerTypes
  <2> DEFINE q == x \div power2[ByteBits * k]
  <2>2. q \in Nat
    BY <1>1, <2>1, Remainders
  <2> HIDE DEF q
  <2>3. q % power2[ByteBits] \in 0 .. power2[ByteBits] - 1
    BY <2>1, <2>2, Remainders
  <2>4. q % power2[ByteBits] \in Nat
    BY <2>1, <2>3
  <2> QED
    BY <2>4 DEF Digit, q
<1>4. Words(size) \in [1 .. LengthSize -> Byte]
  <2>1. \A i \in 1 .. LengthSize : i - 1 \in 0 .. LengthSize
    BY <1>1
  <2>2. \A i \in 1 .. LengthSize : Digit(x, i - 1) \in Byte
    BY <1>3, <2>1 DEF Byte
  <2> QED
    BY <1>2, <2>2
<1> QED
  BY <1>1, <1>4

\* The padded text ends a block.
LEMMA PaddedLength ==
  ASSUME NEW size \in Nat
  PROVE  LET padded == Ended(size) \o Words(size)
         IN  /\ Ended(size) \in Seq(Byte) /\ padded \in Seq(Byte)
             /\ Len(padded) % BlockSize = 0
PROOF
<1> DEFINE n == Fill(size)
           letters == TextOf(size)
           zeros == Zeros(n)
           words == Words(size)
<1>1. \E m \in 0 .. BlockSize - 1 : Fits(size, m)
  <2> DEFINE r == (size + 1 + LengthSize) % BlockSize
             q == (size + 1 + LengthSize) \div BlockSize
  <2>1. BlockSize \in Nat \ {0} /\ LengthSize \in Nat
    BY Sizes
  <2>2. /\ r \in 0 .. BlockSize - 1 /\ q \in Nat
        /\ size + 1 + LengthSize = BlockSize * q + r
    <3>1. size + 1 + LengthSize \in Nat
      BY <2>1
    <3> QED
      BY <2>1, <3>1, Remainders
  <2> HIDE DEF r, q
  <2>3. CASE r = 0
    <3>1. size + 1 + 0 + LengthSize = BlockSize * q + 0 /\ q \in Int
      BY <2>1, <2>2, <2>3
    <3>2. 0 \in 0 .. BlockSize - 1
      BY <2>1
    <3>3. (BlockSize * q + 0) % BlockSize = 0
      BY <2>1, <3>1, <3>2, Remainders
    <3> QED
      BY <3>1, <3>2, <3>3 DEF Fits
  <2>4. CASE r # 0
    <3> DEFINE m == BlockSize - r
    <3>1. BlockSize * (q + 1) = BlockSize * q + BlockSize
      BY <2>1, <2>2
    <3>2. size + 1 + m + LengthSize = BlockSize * (q + 1) + 0 /\ q + 1 \in Int
      BY <2>1, <2>2, <3>1
    <3>3. 0 \in 0 .. BlockSize - 1 /\ m \in 0 .. BlockSize - 1
      BY <2>1, <2>2, <2>4
    <3>4. (BlockSize * (q + 1) + 0) % BlockSize = 0
      BY <2>1, <3>2, <3>3, Remainders
    <3> QED
      BY <3>2, <3>3, <3>4 DEF Fits
  <2> QED
    BY <2>3, <2>4
<1>2. n \in 0 .. BlockSize - 1 /\ Fits(size, n) /\ n \in Nat
  <2>1. n \in 0 .. BlockSize - 1 /\ Fits(size, n)
    BY <1>1 DEF Fill
  <2> QED
    BY <2>1, Sizes
<1>3. /\ letters \in Seq(Byte) /\ Len(letters) = size /\ One \in Byte /\ Zero \in Byte
      /\ words \in Seq(Byte) /\ Len(words) = LengthSize /\ LengthSize \in Nat
  BY Inputs, WordsTypes, Sizes DEF Byte, Zero
<1> HIDE DEF n, letters, words
<1>4. zeros \in Seq(Byte) /\ Len(zeros) = n
  <2>1. zeros \in [1 .. n -> Byte]
    BY <1>3 DEF Zeros
  <2> QED
    BY <1>2, <2>1
<1> HIDE DEF zeros
<1> DEFINE ended == (letters \o <<One>>) \o zeros
<1>5. ended \in Seq(Byte) /\ Len(ended) = size + 1 + n
  <2>1. letters \o <<One>> \in Seq(Byte) /\ Len(letters \o <<One>>) = size + 1
    BY <1>3
  <2> QED
    BY <1>2, <1>4, <2>1, Joined
<1> HIDE DEF ended
<1>6. ended \o words \in Seq(Byte) /\ Len(ended \o words) = size + 1 + n + LengthSize
  BY <1>2, <1>3, <1>5, Joined
<1>7. Ended(size) = ended
  BY DEF Ended, ended, letters, zeros, n
<1> QED
  BY <1>2, <1>5, <1>6, <1>7 DEF Fits, words

-----------------------------------------------------------------------------
(* The theorem.                                                            *)

\* What has been given to update before each step.
Hashed ==
  /\ length \in Nat
  /\ stage \in {"text", "padding", "bits", "finalized"}
  /\ stage = "text" => Taken(<<>>, digest, buffer, count)
  /\ stage = "padding" => Taken(TextOf(length), digest, buffer, count)
  /\ stage = "bits" => /\ Taken(Ended(length), digest, buffer, count)
                       /\ bits = Words(length)
  /\ stage = "finalized" =>
       Taken(Ended(length) \o Words(length), digest, buffer, count)

\* Nothing has been given to a new hasher.
LEMMA MD5InitHashed == MD5Init => Hashed
PROOF
<1> SUFFICES ASSUME MD5Init
             PROVE  Hashed
  OBVIOUS
<1>1. BlockSize \in Nat \ {0} /\ Word4 \in Nat \ {0} /\ ByteBits \in Nat
  BY Sizes, WordTypes
<1>2. Len(<<>>) = 0 /\ Row(0) = 0
  BY RowTypes
<1>3. BlocksOf(<<>>, <<>>)
  <2>1. <<>> \in Seq(Block)
    OBVIOUS
  <2> QED
    BY <1>2, <2>1 DEF BlocksOf
<1>4. RestOf(<<>>, Row(0), buffer)
  <2>1. buffer \in Block
    BY DEF MD5Init, Block, Byte
  <2> QED
    BY <1>2, <2>1 DEF RestOf, Same
<1>5. BitsOf(<<>>) = <<0, 0>>
  <2>1. 0 \in 0 .. Word4 - 1 /\ 0 * ByteBits = 0 /\ Word4 * 0 + 0 = 0 /\ 0 \in Nat
    BY <1>1
  <2>2. 0 \div Word4 = 0 /\ 0 % Word4 = 0
    BY <1>1, <2>1, Quotient
  <2> QED
    BY <1>2, <2>1, <2>2 DEF BitsOf
<1>6. Taken(<<>>, <<>>, buffer, <<0, 0>>)
  <2>1. Len(<<>>) - Row(Len(<<>>)) \in 0 .. BlockSize - 1
    BY <1>1, <1>2
  <2> QED
    BY <1>2, <1>3, <1>4, <1>5, <2>1 DEF Taken
<1> QED
  BY <1>6 DEF MD5Init, Hashed

\* The text, or finalize's padding or its length, goes on from where update was.
LEMMA MD5NextHashed == Hashed /\ [MD5Next]_md5Vars => Hashed'
PROOF
<1> SUFFICES ASSUME Hashed, [MD5Next]_md5Vars
             PROVE  Hashed'
  OBVIOUS
<1>1. CASE UpdateText
  <2>1. /\ Taken(<<>>, digest, buffer, count) /\ Update(TextOf(length'))
        /\ stage' = "padding" /\ length' \in Nat
    BY <1>1, Sizes DEF UpdateText, Hashed
  <2>2. TextOf(length') \in Seq(Byte) /\ <<>> \in Seq(Byte)
    BY <2>1, Inputs
  <2>3. Taken(<<>> \o TextOf(length'), digest', buffer', count')
    BY <2>1, <2>2, UpdateTakes
  <2>4. <<>> \o TextOf(length') = TextOf(length')
    BY <2>2
  <2> QED
    BY <2>1, <2>3, <2>4 DEF Hashed
<1>2. CASE UpdatePadding
  <2> DEFINE pad == [i \in 1 .. PadLen |-> IF i = 1 THEN One ELSE Zero]
  <2>1. /\ Taken(TextOf(length), digest, buffer, count) /\ Update(pad)
        /\ stage' = "bits" /\ length' = length /\ length \in Nat
        /\ bits' = Encoded(count[1]) \o Encoded(count[2])
    BY <1>2 DEF UpdatePadding, Hashed
  <2>2. TextOf(length) \in Seq(Byte) /\ Len(TextOf(length)) = length
    BY <2>1, Inputs
  <2>3. Index = length % BlockSize
    BY <2>1, <2>2, PlaceOf
  <2>4. pad \in Seq(Byte)
    <3>1. PadLen \in Nat
      BY <2>1, <2>3, PadLenFits, Sizes
    <3> QED
      BY <3>1, Inputs
  <2>5. TextOf(length) \o pad = Ended(length)
    BY <2>1, <2>3, PaddingEnds
  <2> HIDE DEF pad
  <2>6. Taken(TextOf(length) \o pad, digest', buffer', count')
    BY <2>1, <2>2, <2>4, UpdateTakes
  <2>7. bits' = Words(length)
    BY <2>1, <2>2, WordsCounted DEF Taken
  <2> QED
    BY <2>1, <2>5, <2>6, <2>7 DEF Hashed
<1>3. CASE UpdateBits
  <2>1. /\ Taken(Ended(length), digest, buffer, count) /\ Update(bits)
        /\ stage' = "finalized" /\ length' = length /\ length \in Nat
        /\ bits = Words(length)
    BY <1>3 DEF UpdateBits, Hashed
  <2>2. Ended(length) \in Seq(Byte) /\ Words(length) \in Seq(Byte)
    BY <2>1, PaddedLength, WordsTypes
  <2>3. Taken(Ended(length) \o Words(length), digest', buffer', count')
    BY <2>1, <2>2, UpdateTakes
  <2> QED
    BY <2>1, <2>3 DEF Hashed
<1>4. CASE UNCHANGED md5Vars
  BY <1>4 DEF md5Vars, Hashed
<1> QED
  BY <1>1, <1>2, <1>3, <1>4 DEF MD5Next

\* The padded text fills its blocks, so no byte of it is left in the buffer.
LEMMA HashedPadded == Hashed => HashesThePaddedText
PROOF
<1> SUFFICES ASSUME Hashed, stage = "finalized"
             PROVE  /\ BlockSize * Len(digest) = Len(Padded)
                    /\ \A n \in DOMAIN digest : \A i \in 1 .. BlockSize :
                         digest[n][i] = Padded[(n - 1) * BlockSize + i]
  BY DEF HashesThePaddedText
<1> DEFINE padded == Padded
           k == Len(digest)
<1>1. padded \in Seq(Byte) /\ Len(padded) % BlockSize = 0
  BY PaddedParts, PaddedLength DEF Hashed
<1>2. Taken(padded, digest, buffer, count)
  BY PaddedParts DEF Hashed
<1> HIDE DEF padded
<1>3. BlocksOf(padded, digest) /\ Len(padded) - Row(k) \in 0 .. BlockSize - 1
  BY <1>2 DEF Taken
<1>4. BlockSize \in Nat \ {0} /\ k \in Nat /\ Len(padded) \in Nat
  BY <1>1, <1>3, Sizes, Joined DEF BlocksOf
<1>5. BlockSize * k = Len(padded)
  <2> DEFINE rest == Len(padded) - Row(k)
             size == Len(padded)
  <2>1. rest \in 0 .. BlockSize - 1
    BY <1>3
  <2>2. size = BlockSize * k + rest /\ Row(k) = BlockSize * k
    BY <1>4 DEF Row
  <2> HIDE DEF rest, size, k
  <2>3. size % BlockSize = rest
    BY <1>4, <2>1, <2>2, Quotient
  <2>4. rest = 0
    BY <1>1, <2>3 DEF size
  <2> QED
    BY <1>4, <2>2, <2>4 DEF size
<1>6. ASSUME NEW n \in DOMAIN digest, NEW i \in 1 .. BlockSize
      PROVE  digest[n][i] = padded[(n - 1) * BlockSize + i]
  <2>1. n \in 1 .. Len(digest)
    BY <1>3 DEF BlocksOf
  <2>2. Same(digest[n], padded, Row(n - 1), BlockSize)
    BY <1>3, <2>1 DEF BlocksOf
  <2> QED
    BY <2>2 DEF Same, Row
<1> QED
  BY <1>5, <1>6 DEF padded, k

\* Whatever the sizes and the length of the text, the blocks that transform is
\* called with are those of the padded text.
THEOREM PaddedTextHashed == MD5Spec => []HashesThePaddedText
PROOF
<1>1. MD5Spec => []Hashed
  BY MD5InitHashed, MD5NextHashed, PTL DEF MD5Spec
<1> QED
  BY <1>1, HashedPadded, PTL

-----------------------------------------------------------------------------
(* The transfer of a file.                                                 *)

\* What buffers and streams hold.
Item ==
  ({"file", "header", "request", "key", "STC_FILE"} \X Nat)
    \cup ({"cipher"} \X Nat \X Nat)
    \cup {<<"STC_UNABLE_TO_SEND_FILE">>, <<"noise">>}

FileBlock == [1 .. BLOCK_SIZE -> Item]

KeyAhead == IF keySent THEN KeyMessage ELSE <<>>

\* The bytes of the file that have been sent are at their places.
SentIsFile ==
  \A n \in 1 .. Len(sent) : \A i \in 1 .. BLOCK_SIZE :
    (n - 1) * BLOCK_SIZE + i <= position =>
      sent[n][i] = <<"file", (n - 1) * BLOCK_SIZE + i>>

\* The session, of a file that has a length and keeps it. Until the last turn
\* of the loop all blocks are full.
SenderOK ==
  /\ sender \in {"resolve", "send", "done", "aborted"}
  /\ fileLength \in Nat /\ position \in Nat
  /\ announced = fileLength % LengthLimit
  /\ transferBuffer \in [1 .. BufferSize -> Item]
  /\ sent \in Seq(FileBlock)
  /\ keySent \in BOOLEAN /\ (keySent => sender = "done")
  /\ sender = "resolve" => fileLength = 0 /\ sent = <<>>
  /\ position <= fileLength
  /\ sender # "done" => position = Len(sent) * BLOCK_SIZE
  /\ sender = "done" => position = fileLength /\ Len(sent) = BlockCount(fileLength)
  /\ SentIsFile

\* The stream before the client has read its first byte.
HeaderAhead ==
  \/ /\ sender \in {"resolve", "aborted"} /\ sent = <<>> /\ stream = <<>>
  \/ /\ sender # "resolve"
     /\ stream = (<<<<"STC_FILE", announced>>>> \o Ciphers(1, Len(sent))) \o KeyAhead
  \/ /\ sender = "done"
     /\ stream = <<<<"STC_UNABLE_TO_SEND_FILE">>>> \o KeyAhead

\* The client after so many blocks: the next ones are ahead of it.
HasRead(blocks) ==
  /\ blocks \in 0 .. Len(sent)
  /\ blocksLeft = BlockCount(announced) - blocks
  /\ initialBlock = Cipher(blocks)
  /\ stream = Ciphers(blocks + 1, Len(sent)) \o KeyAhead
  /\ text = FlattenSeq(SubSeq(sent, 1, blocks))

ReceiverOK ==
  /\ receiver \in {"header", "refused", "blocks", "done", "failed"}
  /\ blocksLeft \in Nat
  /\ receiver = "header" => text = <<>> /\ HeaderAhead
  /\ receiver = "refused" => sender = "done" /\ stream = KeyAhead
  /\ receiver \in {"blocks", "done"} =>
       /\ sender # "resolve"
       /\ \E blocks \in Nat : HasRead(blocks)
  /\ receiver = "done" => blocksLeft = 0
  /\ receiver = "failed" => sender = "aborted"

TransferInv ==
  /\ sender = "resolve" => fileLength = 0
  /\ ~ changed /\ fileLength # NoLength => SenderOK /\ ReceiverOK
-----------------------------------------------------------------------------
(* Blocks and bytes. *)

\* A number of bytes is so many whole blocks and less than another.
LEMMA WholeBlocks ==
  ASSUME NEW k \in Int
  PROVE  /\ k \div BLOCK_SIZE \in Int /\ k % BLOCK_SIZE \in 0 .. BLOCK_SIZE - 1
         /\ k = BLOCK_SIZE * (k \div BLOCK_SIZE) + (k % BLOCK_SIZE)
PROOF
  BY TransferAssumption

\* And in one way only.
LEMMA BlockAndPlace ==
  ASSUME NEW q \in Int, NEW i \in 1 .. BLOCK_SIZE, NEW k \in Int,
         k = q * BLOCK_SIZE + i
  PROVE  (k - 1) \div BLOCK_SIZE = q /\ (k - 1) % BLOCK_SIZE = i - 1
PROOF
<1> DEFINE p == (k - 1) \div BLOCK_SIZE
           j == (k - 1) % BLOCK_SIZE
<1>1. p \in Int /\ j \in 0 .. BLOCK_SIZE - 1 /\ k - 1 = BLOCK_SIZE * p + j
  BY WholeBlocks
<1> HIDE DEF p, j
<1>2. BLOCK_SIZE * (p - q) = (i - 1) - j
  BY <1>1, TransferAssumption
<1>3. p = q
  <2>1. CASE p > q
    <3>1. BLOCK_SIZE * (p - q) >= BLOCK_SIZE
      BY <1>1, <2>1, TransferAssumption
    <3> QED
      BY <1>1, <1>2, <3>1, TransferAssumption
  <2>2. CASE p < q
    <3>1. BLOCK_SIZE * (p - q) <= - BLOCK_SIZE
      BY <1>1, <2>2, TransferAssumption
    <3> QED
      BY <1>1, <1>2, <3>1, TransferAssumption
  <2> QED
    BY <1>1, <2>1, <2>2
<1>4. j = i - 1
  BY <1>1, <1>2, <1>3, TransferAssumption
<1> QED
  BY <1>3, <1>4 DEF p, j

\* The blocks of so many bytes are the least number that holds them.
LEMMA BlockCountHolds ==
  ASSUME NEW bytes \in Nat
  PROVE  /\ BlockCount(bytes) \in Nat
         /\ BlockCount(bytes) * BLOCK_SIZE >= bytes
         /\ BlockCount(bytes) * BLOCK_SIZE < bytes + BLOCK_SIZE
PROOF
<1> DEFINE q == bytes \div BLOCK_SIZE
           r == bytes % BLOCK_SIZE
<1>1. q \in Int /\ r \in 0 .. BLOCK_SIZE - 1 /\ bytes = BLOCK_SIZE * q + r
  BY WholeBlocks
<1>2. BlockCount(bytes) = q + (IF r > 0 THEN 1 ELSE 0)
  BY DEF BlockCount
<1> HIDE DEF q, r
<1>3. q \in Nat
  BY <1>1, TransferAssumption
<1> QED
  BY <1>1, <1>2, <1>3, TransferAssumption

\* More bytes take no fewer blocks.
LEMMA BlockCountGrows ==
  ASSUME NEW bytes \in Nat, NEW more \in Nat, bytes <= more
  PROVE  BlockCount(bytes) <= BlockCount(more)
PROOF
<1> DEFINE c == BlockCount(bytes)
           d == BlockCount(more)
<1>1. /\ c \in Nat /\ c * BLOCK_SIZE < bytes + BLOCK_SIZE
      /\ d \in Nat /\ d * BLOCK_SIZE >= more
  BY BlockCountHolds
<1> HIDE DEF c, d
<1>2. CASE c > d
  <2>1. (c - d) * BLOCK_SIZE >= BLOCK_SIZE
    BY <1>1, <1>2, TransferAssumption
  <2>2. c * BLOCK_SIZE = (c - d) * BLOCK_SIZE + d * BLOCK_SIZE
    BY <1>1, TransferAssumption
  <2>3. (c - d) * BLOCK_SIZE \in Int /\ d * BLOCK_SIZE \in Int
    BY <1>1, TransferAssumption
  <2> QED
    BY <1>1, <2>1, <2>2, <2>3, TransferAssumption
<1> QED
  BY <1>1, <1>2 DEF c, d

LEMMA BlockCountIs ==
  ASSUME NEW bytes \in Nat, NEW blocks \in Int,
         bytes <= blocks * BLOCK_SIZE, blocks * BLOCK_SIZE < bytes + BLOCK_SIZE
  PROVE  BlockCount(bytes) = blocks
PROOF
<1> DEFINE c == BlockCount(bytes)
<1>1. c \in Nat /\ c * BLOCK_SIZE >= bytes /\ c * BLOCK_SIZE < bytes + BLOCK_SIZE
  BY BlockCountHolds
<1> HIDE DEF c
<1>2. CASE c > blocks
  <2>1. (c - blocks) * BLOCK_SIZE >= BLOCK_SIZE
    BY <1>1, <1>2, TransferAssumption
  <2>2. c * BLOCK_SIZE = (c - blocks) * BLOCK_SIZE + blocks * BLOCK_SIZE
    BY <1>1, TransferAssumption
  <2> QED
    BY <1>1, <2>1, <2>2, TransferAssumption
<1>3. CASE c < blocks
  <2>1. (blocks - c) * BLOCK_SIZE >= BLOCK_SIZE
    BY <1>1, <1>3, TransferAssumption
  <2>2. blocks * BLOCK_SIZE = (blocks - c) * BLOCK_SIZE + c * BLOCK_SIZE
    BY <1>1, TransferAssumption
  <2> QED
    BY <1>1, <2>1, <2>2, TransferAssumption
<1> QED
  BY <1>1, <1>2, <1>3 DEF c

\* When a sequence is two others, one after the other.
LEMMA ConcatenationIs ==
  ASSUME NEW S, NEW x \in Seq(S), NEW y \in Seq(S), NEW z \in Seq(S),
         Len(z) = Len(x) + Len(y),
         \A k \in 1 .. Len(x) : z[k] = x[k],
         \A i \in 1 .. Len(y) : z[Len(x) + i] = y[i]
  PROVE  z = x \o y
PROOF
<1> DEFINE a == Len(x)
           b == Len(y)
           w == x \o y
<1>1. /\ w \in Seq(S) /\ Len(w) = a + b /\ a \in Nat /\ b \in Nat
      /\ \A k \in 1 .. a : w[k] = x[k]
      /\ \A k \in a + 1 .. a + b : w[k] = y[k - a]
  OBVIOUS
<1> HIDE DEF a, b, w
<1>2. Len(z) = a + b /\ \A k \in 1 .. a : z[k] = x[k]
  BY DEF a, b
<1>3. \A i \in 1 .. b : z[a + i] = y[i]
  BY DEF a, b
<1>4. ASSUME NEW k \in 1 .. a + b PROVE z[k] = w[k]
  <2>1. CASE k <= a
    BY <1>1, <1>2, <2>1
  <2>2. CASE k > a
    <3>1. k - a \in 1 .. b /\ a + (k - a) = k /\ k \in a + 1 .. a + b
      BY <1>1, <2>2
    <3>2. z[a + (k - a)] = y[k - a]
      BY <3>1, <1>3
    <3> QED
      BY <3>1, <3>2, <1>1
  <2> QED
    BY <2>1, <2>2, <1>1
<1>5. z = w
  BY <1>1, <1>2, <1>4
<1> QED
  BY <1>5 DEF w

LEMMA ConcatenationAt ==
  ASSUME NEW S \in {Item, FileBlock}, NEW x \in Seq(S), NEW y \in Seq(S)
  PROVE  /\ x \o y \in Seq(S) /\ Len(x \o y) = Len(x) + Len(y)
         /\ \A k \in 1 .. Len(x) : (x \o y)[k] = x[k]
         /\ \A k \in 1 .. Len(y) : (x \o y)[Len(x) + k] = y[k]
PROOF
  OBVIOUS

LEMMA ConcatenationAssociates ==
  ASSUME NEW one \in Seq(Item), NEW two \in Seq(Item), NEW three \in Seq(Item)
  PROVE  (one \o two) \o three = one \o (two \o three) /\ one \o <<>> = one
PROOF
  OBVIOUS

LEMMA NothingBefore ==
  ASSUME NEW S, NEW one \in Seq(S)
  PROVE  <<>> \o one = one
PROOF
  OBVIOUS

\* FlattenSeq of blocks, and where their bytes are in it.
LEMMA FlattenBlocks ==
  ASSUME NEW S, NEW blocks \in Seq([1 .. BLOCK_SIZE -> S])
  PROVE  FlattenSeq(blocks) =
           [k \in 1 .. Len(blocks) * BLOCK_SIZE |->
              blocks[((k - 1) \div BLOCK_SIZE) + 1][((k - 1) % BLOCK_SIZE) + 1]]
PROOF
<1> DEFINE B == BLOCK_SIZE
           c == Len(blocks)
           At(n) == [k \in 1 .. n * B |->
                       blocks[((k - 1) \div B) + 1][((k - 1) % B) + 1]]
           IsFlatten(f) ==
             f = [i \in 1 .. c |-> IF i = 1 THEN blocks[i] ELSE f[i - 1] \o blocks[i]]
           flatten == CHOOSE f : IsFlatten(f)
<1>1. c \in Nat /\ blocks \in [1 .. c -> [1 .. B -> S]] /\ B \in Nat \ {0}
  BY TransferAssumption
<1> HIDE DEF c
<1>2. ASSUME NEW n \in 0 .. c PROVE At(n) \in Seq(S) /\ Len(At(n)) = n * B
  <2>1. ASSUME NEW k \in 1 .. n * B
        PROVE  blocks[((k - 1) \div B) + 1][((k - 1) % B) + 1] \in S
    <3>1. /\ (k - 1) \div B \in Int /\ (k - 1) % B \in 0 .. B - 1
          /\ k - 1 = B * ((k - 1) \div B) + ((k - 1) % B)
      <4>1. k - 1 \in Int
        BY <1>1
      <4> QED
        BY <4>1, WholeBlocks
    <3> DEFINE q == (k - 1) \div B
               r == (k - 1) % B
    <3> HIDE DEF q, r
    <3>2. q + 1 \in 1 .. n
      <4>1. q \in Int /\ r \in 0 .. B - 1 /\ k - 1 = B * q + r /\ k \in 1 .. n * B
        BY <3>1 DEF q, r
      <4>2. q >= 0
        <5>1. q <= -1 => B * q <= - B
          BY <4>1, <1>1
        <5>2. B * q \in Int /\ n * B \in Int
          BY <4>1, <1>1
        <5> QED
          BY <4>1, <5>1, <5>2, <1>1
      <4>3. q < n
        <5>1. q >= n => B * q >= n * B
          BY <4>1, <1>1
        <5>2. n * B \in Int /\ B * q \in Int
          BY <4>1, <1>1
        <5> QED
          BY <4>1, <5>1, <5>2, <1>1
      <4> QED
        BY <4>1, <4>2, <4>3
    <3>3. r + 1 \in 1 .. B
      BY <3>1, <1>1 DEF r
    <3>4. blocks[q + 1][r + 1] \in S
      BY <3>2, <3>3, <1>1
    <3> QED
      BY <3>4 DEF q, r
  <2>2. n * B \in Nat
    BY <1>1
  <2> QED
    BY <2>1, <2>2
<1>3. ASSUME NEW n \in 1 .. c PROVE At(n) = At(n - 1) \o blocks[n]
  <2>1. /\ At(n - 1) \in Seq(S) /\ Len(At(n - 1)) = (n - 1) * B
        /\ At(n) \in Seq(S) /\ Len(At(n)) = n * B
    <3>1. n \in 0 .. c /\ n - 1 \in 0 .. c
      BY <1>1
    <3> QED
      BY <3>1, <1>2
  <2>2. blocks[n] \in Seq(S) /\ Len(blocks[n]) = B
    BY <1>1
  <2>3. n * B = (n - 1) * B + B /\ (n - 1) * B \in Nat
    BY <1>1
  <2>4. ASSUME NEW k \in 1 .. (n - 1) * B PROVE At(n)[k] = At(n - 1)[k]
    <3>1. k \in 1 .. n * B
      BY <2>3, <1>1
    <3> QED
      BY <3>1
  <2>5. ASSUME NEW i \in 1 .. B PROVE At(n)[(n - 1) * B + i] = blocks[n][i]
    <3> DEFINE k == (n - 1) * B + i
    <3>1. k \in 1 .. n * B /\ k \in Int
      <4> DEFINE p == (n - 1) * B
                 q == n * B
      <4>1. q = p + B /\ p \in Nat /\ i \in 1 .. B /\ B \in Nat
        BY <2>3, <1>1
      <4> HIDE DEF p, q
      <4>2. p + i \in 1 .. q /\ p + i \in Int
        BY <4>1
      <4> QED
        BY <4>2 DEF p, q
    <3>2. (k - 1) \div B = n - 1 /\ (k - 1) % B = i - 1
      <4>1. k \in Int /\ n - 1 \in Int /\ k = (n - 1) * B + i /\ i \in 1 .. B
        BY <3>1, <1>1
      <4> HIDE DEF k
      <4> QED
        BY <4>1, BlockAndPlace
    <3> HIDE DEF k
    <3>3. At(n)[k] = blocks[(n - 1) + 1][(i - 1) + 1]
      BY <3>1, <3>2
    <3>4. (n - 1) + 1 = n /\ (i - 1) + 1 = i
      BY <1>1
    <3> QED
      BY <3>3, <3>4 DEF k
  <2>6. Len(At(n)) = Len(At(n - 1)) + Len(blocks[n])
    <3> HIDE DEF At
    <3> QED
      BY <2>1, <2>2, <2>3
  <2>7. /\ \A k \in 1 .. Len(At(n - 1)) : At(n)[k] = At(n - 1)[k]
        /\ \A i \in 1 .. Len(blocks[n]) : At(n)[Len(At(n - 1)) + i] = blocks[n][i]
    <3> HIDE DEF At
    <3> QED
      BY <2>1, <2>2, <2>4, <2>5
  <2> HIDE DEF At
  <2> QED
    BY <2>1, <2>2, <2>6, <2>7, ConcatenationIs
<1>4. CASE c = 0
  <2>1. blocks = <<>> /\ At(0) = <<>>
    BY <1>4, <1>1 DEF c
  <2> QED
    BY <2>1, <1>4 DEF FlattenSeq, c
<1>5. CASE c # 0
  <2>1. FlattenSeq(blocks) = flatten[c]
    BY <1>5 DEF FlattenSeq, c
  <2>2. IsFlatten([i \in 1 .. c |-> At(i)])
    <3>1. ASSUME NEW i \in 1 .. c
          PROVE  At(i) = IF i = 1 THEN blocks[i]
                         ELSE [j \in 1 .. c |-> At(j)][i - 1] \o blocks[i]
      <4>1. At(i) = At(i - 1) \o blocks[i]
        BY <1>3
      <4>2. CASE i = 1
        <5>1. At(0) = <<>> /\ blocks[i] \in Seq(S)
          BY <1>1
        <5>2. At(i - 1) = At(0)
          BY <4>2
        <5> HIDE DEF At
        <5> QED
          BY <4>1, <4>2, <5>1, <5>2
      <4>3. CASE i # 1
        <5>1. [j \in 1 .. c |-> At(j)][i - 1] = At(i - 1)
          BY <4>3, <1>1
        <5> HIDE DEF At
        <5> QED
          BY <4>1, <4>3, <5>1
      <4> QED
        BY <4>2, <4>3
    <3> HIDE DEF At
    <3> QED
      BY <3>1
  <2>3. IsFlatten(flatten)
    <3> HIDE DEF IsFlatten, At
    <3> QED
      BY <2>2
  <2>4. \A i \in 1 .. c : flatten[i] = At(i)
    <3> DEFINE P == {n \in 0 .. c : n \in 1 .. c => flatten[n] = At(n)}
    <3> HIDE DEF At, flatten
    <3>4. \A i \in 1 .. c : flatten[i] = IF i = 1 THEN blocks[i]
                                         ELSE flatten[i - 1] \o blocks[i]
      BY <2>3
    <3>1. 0 \in P
      BY <1>1
    <3>2. ASSUME NEW n \in P, n \in 0 .. c - 1 PROVE n + 1 \in P
      <4>1. flatten[n + 1] = IF n + 1 = 1 THEN blocks[n + 1]
                             ELSE flatten[n] \o blocks[n + 1]
        <5>1. n + 1 \in 1 .. c /\ (n + 1) - 1 = n
          BY <3>2, <1>1
        <5> QED
          BY <3>4, <5>1
      <4>2. At(n + 1) = At(n) \o blocks[n + 1]
        <5>1. n + 1 \in 1 .. c /\ (n + 1) - 1 = n
          BY <3>2, <1>1
        <5> QED
          BY <1>3, <5>1
      <4>3. CASE n = 0
        <5>1. At(0) = <<>> /\ blocks[1] \in Seq(S)
          BY <1>1, <1>5 DEF At
        <5>2. <<>> \o blocks[1] = blocks[1]
          BY <5>1, NothingBefore, Zenon
        <5>3. n + 1 = 1 /\ n + 1 \in 0 .. c
          BY <1>1, <3>2, <4>3
        <5>4. flatten[n + 1] = blocks[1]
          BY <4>1, <5>3, Zenon
        <5>5. At(n + 1) = <<>> \o blocks[1]
          BY <4>2, <4>3, <5>1, <5>3, Zenon
        <5>6. flatten[n + 1] = At(n + 1)
          BY <5>2, <5>4, <5>5, Zenon
        <5> QED
          BY <5>3, <5>6
      <4>4. CASE n # 0
        <5>1. flatten[n] = At(n) /\ n + 1 # 1 /\ n + 1 \in 1 .. c
          BY <4>4, <3>2, <1>1
        <5>2. flatten[n + 1] = At(n + 1)
          BY <4>1, <4>2, <5>1
        <5> QED
          BY <5>1, <5>2, <1>1
      <4> QED
        BY <4>3, <4>4
    <3> HIDE DEF P
    <3>3. 0 .. c \subseteq P
      BY <3>1, <3>2, <1>1, BoundedInduction
    <3> QED
      BY <3>3, <1>1 DEF P
  <2>5. flatten[c] = At(c)
    <3>1. c \in 1 .. c
      BY <1>1, <1>5
    <3> HIDE DEF At, flatten
    <3> QED
      BY <2>4, <3>1
  <2> HIDE DEF flatten
  <2> QED
    BY <2>1, <2>5 DEF c
<1> QED
  BY <1>4, <1>5 DEF c

\* Every byte of so many blocks has a place in one of them.
LEMMA PlaceExists ==
  ASSUME NEW n \in Nat, NEW k \in 1 .. n * BLOCK_SIZE
  PROVE  \E q \in 1 .. n : \E i \in 1 .. BLOCK_SIZE : k = (q - 1) * BLOCK_SIZE + i
PROOF
<1> DEFINE B == BLOCK_SIZE
           p == (k - 1) \div B
           r == (k - 1) % B
<1>0. n * B \in Nat /\ B \in Nat \ {0}
  BY TransferAssumption
<1>1. k \in Int /\ k >= 1 /\ k <= n * B
  BY <1>0
<1>2. p \in Int /\ r \in 0 .. B - 1 /\ k - 1 = B * p + r
  <2>1. k - 1 \in Int
    BY <1>1
  <2> QED
    BY <2>1, WholeBlocks
<1> HIDE DEF p, r
<1>3. p >= 0
  <2>1. p <= -1 => B * p <= - B
    BY <1>2, <1>0
  <2>2. B * p \in Int
    BY <1>2, <1>0
  <2> QED
    BY <1>0, <1>1, <1>2, <2>1, <2>2
<1>4. p < n
  <2>1. p >= n => B * p >= n * B
    BY <1>2, <1>0
  <2>2. B * p \in Int
    BY <1>2, <1>0
  <2> QED
    BY <1>0, <1>1, <1>2, <2>1, <2>2
<1>5. p + 1 \in 1 .. n /\ r + 1 \in 1 .. B /\ k = ((p + 1) - 1) * B + (r + 1)
  BY <1>0, <1>1, <1>2, <1>3, <1>4
<1> QED
  BY <1>5

\* And is a byte of them.
LEMMA PlaceIsByte ==
  ASSUME NEW n \in Nat, NEW q \in 1 .. n, NEW i \in 1 .. BLOCK_SIZE
  PROVE  (q - 1) * BLOCK_SIZE + i \in 1 .. n * BLOCK_SIZE
PROOF
<1> DEFINE p == (q - 1) * BLOCK_SIZE
           l == (n - q) * BLOCK_SIZE
           t == n * BLOCK_SIZE
<1>1. p \in Nat /\ l \in Nat /\ t = p + BLOCK_SIZE + l
  BY TransferAssumption
<1> HIDE DEF p, l, t
<1>2. p + i \in 1 .. t
  BY <1>1, TransferAssumption
<1> QED
  BY <1>2 DEF p, t

\* Blocks one after the other, by their bytes.
LEMMA FlattenPlaces ==
  ASSUME NEW blocks \in Seq(FileBlock)
  PROVE  /\ FlattenSeq(blocks) \in Seq(Item)
         /\ Len(FlattenSeq(blocks)) = Len(blocks) * BLOCK_SIZE
         /\ \A q \in 1 .. Len(blocks) : \A i \in 1 .. BLOCK_SIZE :
              FlattenSeq(blocks)[(q - 1) * BLOCK_SIZE + i] = blocks[q][i]
PROOF
<1> DEFINE B == BLOCK_SIZE
           c == Len(blocks)
           flat == FlattenSeq(blocks)
<1>1. flat = [k \in 1 .. c * B |-> blocks[((k - 1) \div B) + 1][((k - 1) % B) + 1]]
  <2>1. blocks \in Seq([1 .. BLOCK_SIZE -> Item])
    BY DEF FileBlock
  <2> HIDE DEF flat
  <2> QED
    BY <2>1, FlattenBlocks DEF flat
<1>2. c \in Nat /\ blocks \in [1 .. c -> FileBlock] /\ B \in Nat \ {0} /\ c * B \in Nat
  BY TransferAssumption
<1> HIDE DEF c, flat
<1>3. ASSUME NEW q \in 1 .. c, NEW i \in 1 .. B
      PROVE  flat[(q - 1) * B + i] = blocks[q][i]
  <2> DEFINE k == (q - 1) * B + i
  <2>1. k \in 1 .. c * B
    BY <1>2, PlaceIsByte
  <2>2. (k - 1) \div B = q - 1 /\ (k - 1) % B = i - 1
    <3>1. k \in Int /\ q - 1 \in Int /\ k = (q - 1) * B + i
      BY <2>1, <1>2
    <3> HIDE DEF k
    <3> QED
      BY <3>1, BlockAndPlace
  <2> HIDE DEF k
  <2>3. flat[k] = blocks[(q - 1) + 1][(i - 1) + 1]
    BY <1>1, <2>1, <2>2
  <2>4. (q - 1) + 1 = q /\ (i - 1) + 1 = i
    BY <1>2
  <2> QED
    BY <2>3, <2>4 DEF k
<1>4. ASSUME NEW k \in 1 .. c * B PROVE flat[k] \in Item
  <2>1. PICK q \in 1 .. c, i \in 1 .. B : k = (q - 1) * B + i
    BY <1>2, PlaceExists
  <2>2. blocks[q] \in FileBlock
    BY <1>2
  <2> QED
    BY <1>3, <2>1, <2>2 DEF FileBlock
<1>5. flat \in Seq(Item) /\ Len(flat) = c * B
  <2>1. DOMAIN flat = 1 .. c * B
    BY <1>1
  <2>2. flat = [k \in 1 .. c * B |-> flat[k]]
    BY <1>1
  <2>3. flat \in [1 .. c * B -> Item]
    BY <1>4, <2>2
  <2> QED
    BY <2>3, <1>2
<1> QED
  BY <1>3, <1>5 DEF c, flat

\* A sequence with those bytes is FlattenSeq of the blocks.
LEMMA FlattenIs ==
  ASSUME NEW blocks \in Seq(FileBlock), NEW z \in Seq(Item),
         Len(z) = Len(blocks) * BLOCK_SIZE,
         \A q \in 1 .. Len(blocks) : \A i \in 1 .. BLOCK_SIZE :
           z[(q - 1) * BLOCK_SIZE + i] = blocks[q][i]
  PROVE  z = FlattenSeq(blocks)
PROOF
<1> DEFINE B == BLOCK_SIZE
           c == Len(blocks)
           flat == FlattenSeq(blocks)
<1>1. /\ flat \in Seq(Item) /\ Len(flat) = c * B
      /\ \A q \in 1 .. c : \A i \in 1 .. B : flat[(q - 1) * B + i] = blocks[q][i]
  BY FlattenPlaces
<1>2. c \in Nat
  OBVIOUS
<1>3. \A q \in 1 .. c : \A i \in 1 .. B : z[(q - 1) * B + i] = blocks[q][i]
  OBVIOUS
<1>4. Len(z) = c * B
  OBVIOUS
<1> HIDE DEF c, flat
<1>5. ASSUME NEW k \in 1 .. c * B PROVE z[k] = flat[k]
  <2>1. PICK q \in 1 .. c, i \in 1 .. B : k = (q - 1) * B + i
    BY <1>2, PlaceExists
  <2> QED
    BY <1>1, <1>3, <2>1
<1>6. z = flat
  BY <1>1, <1>4, <1>5
<1> QED
  BY <1>6 DEF flat

\* Blocks after blocks.
LEMMA FlattenAppends ==
  ASSUME NEW x \in Seq(FileBlock), NEW y \in Seq(FileBlock)
  PROVE  FlattenSeq(x \o y) = FlattenSeq(x) \o FlattenSeq(y)
PROOF
<1> DEFINE B == BLOCK_SIZE
           a == Len(x)
           b == Len(y)
           xs == FlattenSeq(x)
           ys == FlattenSeq(y)
           z == xs \o ys
           w == x \o y
<1>1. /\ xs \in Seq(Item) /\ Len(xs) = a * B
      /\ \A q \in 1 .. a : \A i \in 1 .. B : xs[(q - 1) * B + i] = x[q][i]
  BY FlattenPlaces
<1>2. /\ ys \in Seq(Item) /\ Len(ys) = b * B
      /\ \A q \in 1 .. b : \A i \in 1 .. B : ys[(q - 1) * B + i] = y[q][i]
  BY FlattenPlaces
<1>3. a \in Nat /\ b \in Nat /\ B \in Nat \ {0}
  BY TransferAssumption
<1>4. /\ w \in Seq(FileBlock) /\ Len(w) = a + b
      /\ \A q \in 1 .. a : w[q] = x[q]
      /\ \A q \in 1 .. b : w[a + q] = y[q]
  OBVIOUS
<1> HIDE DEF a, b, xs, ys, w
<1>5. /\ z \in Seq(Item) /\ Len(z) = a * B + b * B
      /\ \A k \in 1 .. a * B : z[k] = xs[k]
      /\ \A k \in 1 .. b * B : z[a * B + k] = ys[k]
  <2> DEFINE m == a * B
             n == b * B
  <2>1. m \in Nat /\ n \in Nat
    BY <1>3
  <2>2. Len(xs) = m /\ Len(ys) = n
    BY <1>1, <1>2
  <2> HIDE DEF m, n
  <2>3. /\ z \in Seq(Item) /\ Len(z) = Len(xs) + Len(ys)
        /\ \A k \in 1 .. Len(xs) : z[k] = xs[k]
        /\ \A k \in 1 .. Len(ys) : z[Len(xs) + k] = ys[k]
    <3>1. xs \in Seq(Item) /\ ys \in Seq(Item)
      BY <1>1, <1>2
    <3> QED
      BY <3>1, ConcatenationAt
  <2> HIDE DEF z
  <2> QED
    BY <2>2, <2>3 DEF m, n
<1> HIDE DEF z
<1>6. Len(z) = Len(w) * B
  BY <1>3, <1>4, <1>5
<1>7. ASSUME NEW q \in 1 .. Len(w), NEW i \in 1 .. B
      PROVE  z[(q - 1) * B + i] = w[q][i]
  <2>1. CASE q <= a
    <3>1. q \in 1 .. a
      BY <2>1, <1>3, <1>4
    <3>2. (q - 1) * B + i \in 1 .. a * B
      BY <3>1, <1>3, PlaceIsByte
    <3> QED
      BY <3>1, <3>2, <1>1, <1>4, <1>5
  <2>2. CASE q > a
    <3> DEFINE p == q - a
    <3>1. p \in 1 .. b /\ a + p = q
      BY <2>2, <1>3, <1>4
    <3>2. (p - 1) * B + i \in 1 .. b * B
      BY <3>1, <1>3, PlaceIsByte
    <3>3. (q - 1) * B + i = a * B + ((p - 1) * B + i)
      BY <3>1, <1>3
    <3> HIDE DEF p
    <3>4. z[a * B + ((p - 1) * B + i)] = y[p][i]
      BY <3>1, <3>2, <1>2, <1>5
    <3> QED
      BY <3>1, <3>3, <3>4, <1>4
  <2> QED
    BY <2>1, <2>2, <1>3, <1>4
<1>8. z = FlattenSeq(w)
  BY <1>4, <1>5, <1>6, <1>7, FlattenIs
<1> QED
  BY <1>8 DEF z, w, xs, ys

\* What is left when the first of two sequences has been read.
LEMMA RestOfConcatenation ==
  ASSUME NEW x \in Seq(Item), NEW y \in Seq(Item)
  PROVE  /\ SubSeq(x \o y, Len(x) + 1, Len(x \o y)) = y
         /\ \A m, n \in 1 .. Len(x) : SubSeq(x \o y, m, n) = SubSeq(x, m, n)
         /\ SubSeq(x \o y, 1, Len(x)) = x
PROOF
<1>1. SubSeq(x \o y, Len(x) + 1, Len(x \o y)) = y
  OBVIOUS
<1>2. ASSUME NEW m \in 1 .. Len(x), NEW n \in 1 .. Len(x)
      PROVE  SubSeq(x \o y, m, n) = SubSeq(x, m, n)
  OBVIOUS
<1>3. SubSeq(x \o y, 1, Len(x)) = x
  OBVIOUS
<1> QED
  BY <1>1, <1>2, <1>3

-----------------------------------------------------------------------------
(* What is on its way. *)

LEMMA CipherIsBlock ==
  ASSUME NEW n \in Nat
  PROVE  Cipher(n) \in FileBlock /\ Cipher(n)[1][2] = n
PROOF
  BY TransferAssumption DEF Cipher, FileBlock, Item

\* Encoded blocks follow each other in the stream, whoever wrote them in how
\* many turns.
LEMMA CiphersSplit ==
  ASSUME NEW first \in Nat, NEW mid \in Int, NEW last \in Int,
         first - 1 <= mid, mid <= last
  PROVE  /\ Ciphers(first, mid) \in Seq(Item)
         /\ Len(Ciphers(first, mid)) = (mid - first + 1) * BLOCK_SIZE
         /\ Ciphers(mid + 1, last) \in Seq(Item)
         /\ Ciphers(first, last) = Ciphers(first, mid) \o Ciphers(mid + 1, last)
PROOF
<1> DEFINE x == [i \in 1 .. mid - first + 1 |-> Cipher(first + i - 1)]
           y == [i \in 1 .. last - (mid + 1) + 1 |-> Cipher((mid + 1) + i - 1)]
           z == [i \in 1 .. last - first + 1 |-> Cipher(first + i - 1)]
<1>1. x \in Seq(FileBlock) /\ Len(x) = mid - first + 1
  <2>1. \A i \in 1 .. mid - first + 1 : first + i - 1 \in Nat
    OBVIOUS
  <2>2. mid - first + 1 \in Nat
    OBVIOUS
  <2> QED
    BY <2>1, <2>2, CipherIsBlock
<1>2. y \in Seq(FileBlock) /\ Len(y) = last - mid
  <2>1. \A i \in 1 .. last - (mid + 1) + 1 : (mid + 1) + i - 1 \in Nat
    OBVIOUS
  <2>2. last - (mid + 1) + 1 = last - mid /\ last - mid \in Nat
    OBVIOUS
  <2> QED
    BY <2>1, <2>2, CipherIsBlock
<1>3. z \in Seq(FileBlock) /\ Len(z) = last - first + 1
  <2>1. \A i \in 1 .. last - first + 1 : first + i - 1 \in Nat
    OBVIOUS
  <2>2. last - first + 1 \in Nat
    OBVIOUS
  <2> QED
    BY <2>1, <2>2, CipherIsBlock
<1>4. \A k \in 1 .. Len(x) : z[k] = x[k]
  BY <1>1
<1>5. ASSUME NEW i \in 1 .. Len(y) PROVE z[Len(x) + i] = y[i]
  <2>1. /\ Len(x) + i \in 1 .. last - first + 1
        /\ first + (Len(x) + i) - 1 = (mid + 1) + i - 1
        /\ i \in 1 .. last - (mid + 1) + 1
    <3> HIDE DEF x, y
    <3> QED
      BY <1>1, <1>2
  <2> QED
    BY <2>1
<1>6. Len(z) = Len(x) + Len(y)
  <2> HIDE DEF x, y, z
  <2> QED
    BY <1>1, <1>2, <1>3
<1> HIDE DEF x, y, z
<1>7. z = x \o y
  BY <1>1, <1>2, <1>3, <1>4, <1>5, <1>6, ConcatenationIs
<1>8. FlattenSeq(z) = FlattenSeq(x) \o FlattenSeq(y)
  BY <1>1, <1>2, <1>7, FlattenAppends
<1>9. /\ FlattenSeq(x) \in Seq(Item) /\ Len(FlattenSeq(x)) = Len(x) * BLOCK_SIZE
      /\ FlattenSeq(y) \in Seq(Item)
  BY <1>1, <1>2, FlattenPlaces
<1> QED
  BY <1>1, <1>8, <1>9 DEF Ciphers, x, y, z

\* No blocks.
LEMMA NoCiphers == \A n \in Nat : Ciphers(n + 1, n) = <<>>
PROOF
<1>1. \A n \in Nat : n - (n + 1) + 1 = 0
  OBVIOUS
<1> QED
  BY <1>1 DEF Ciphers, FlattenSeq

\* The blocks of a stream are those that were encoded.
LEMMA CipherAt ==
  ASSUME NEW first \in Nat, NEW last \in Int, NEW rest \in Seq(Item),
         NEW n \in 1 .. last - first + 1
  PROVE  SubSeq(Ciphers(first, last) \o rest, (n - 1) * BLOCK_SIZE + 1, n * BLOCK_SIZE)
           = Cipher(first + n - 1)
PROOF
<1> DEFINE B == BLOCK_SIZE
           x == [i \in 1 .. last - first + 1 |-> Cipher(first + i - 1)]
           s == Ciphers(first, last) \o rest
           p == (n - 1) * B
           l == Len(s)
<1>1. x \in Seq(FileBlock) /\ Len(x) = last - first + 1
  <2>1. \A i \in 1 .. last - first + 1 : first + i - 1 \in Nat
    OBVIOUS
  <2>2. last - first + 1 \in Nat
    OBVIOUS
  <2> QED
    BY <2>1, <2>2, CipherIsBlock
<1>2. x[n] = Cipher(first + n - 1) /\ first + n - 1 \in Nat
  OBVIOUS
<1> HIDE DEF x
<1>3. /\ FlattenSeq(x) \in Seq(Item) /\ Len(FlattenSeq(x)) = Len(x) * B
      /\ \A i \in 1 .. B : FlattenSeq(x)[(n - 1) * B + i] = x[n][i]
  <2>1. n \in 1 .. Len(x)
    BY <1>1
  <2> QED
    BY <1>1, <2>1, FlattenPlaces
<1>4. Ciphers(first, last) = FlattenSeq(x)
  BY DEF Ciphers, x
<1>5. /\ s \in Seq(Item) /\ Len(s) >= Len(x) * B
      /\ \A k \in 1 .. Len(x) * B : s[k] = FlattenSeq(x)[k]
  <2>1. rest \in Seq(Item) /\ FlattenSeq(x) \in Seq(Item)
    BY <1>3
  <2>2. /\ s \in Seq(Item) /\ Len(s) = Len(FlattenSeq(x)) + Len(rest)
        /\ \A k \in 1 .. Len(FlattenSeq(x)) : s[k] = FlattenSeq(x)[k]
    BY <2>1, <1>4, ConcatenationAt
  <2>3. Len(rest) \in Nat /\ Len(x) * B \in Nat
    BY <1>1, TransferAssumption
  <2> HIDE DEF s
  <2> QED
    BY <2>2, <2>3, <1>3
<1> HIDE DEF s, l
<1>6. ASSUME NEW i \in 1 .. B
      PROVE  p + i \in 1 .. l /\ s[p + i] = Cipher(first + n - 1)[i]
  <2>1. p + i \in 1 .. Len(x) * B
    <3>1. n \in 1 .. Len(x) /\ Len(x) \in Nat
      BY <1>1
    <3> QED
      BY <3>1, PlaceIsByte
  <2>2. l >= Len(x) * B /\ Len(x) * B \in Int /\ l \in Nat
    BY <1>5, <1>1, TransferAssumption DEF l
  <2> QED
    BY <1>2, <1>3, <1>5, <2>1, <2>2
<1>7. n * B = p + B /\ p \in Nat /\ B \in Nat \ {0}
  BY TransferAssumption
<1>8. Cipher(first + n - 1) \in [1 .. B -> Item]
  BY <1>2, CipherIsBlock DEF FileBlock
<1> HIDE DEF p
<1>9. SubSeq(s, p + 1, p + B) = Cipher(first + n - 1)
  <2> DEFINE c == Cipher(first + n - 1)
  <2> HIDE DEF c
  <2>1. p + B <= l
    BY <1>6, <1>7 DEF l
  <2> DEFINE t == SubSeq(s, p + 1, p + B)
  <2>2. t \in Seq(Item) /\ Len(t) = B /\ \A i \in 1 .. B : t[i] = s[p + i]
    <3>1. s \in Seq(Item) /\ p + 1 \in 1 .. Len(s) + 1 /\ p + B \in 0 .. Len(s)
      BY <1>5, <1>7, <2>1 DEF l
    <3>2. t \in Seq(Item) /\ Len(t) = B
      BY <3>1, <1>7
    <3>3. \A i \in 1 .. B : t[i] = s[p + i]
      BY <3>1, <1>7
    <3> QED
      BY <3>2, <3>3
  <2>3. c \in Seq(Item) /\ Len(c) = B /\ \A i \in 1 .. B : s[p + i] = c[i]
    BY <1>6, <1>7, <1>8 DEF c
  <2>4. t = c
    <3> HIDE DEF t
    <3>1. \A i \in 1 .. B : t[i] = c[i]
      BY <2>2, <2>3
    <3>2. t \in Seq(Item) /\ c \in Seq(Item) /\ Len(t) = B /\ Len(c) = B
      BY <2>2, <2>3
    <3> QED
      BY <3>1, <3>2
  <2> QED
    BY <2>4 DEF c
<1> QED
  BY <1>7, <1>9 DEF s, p

LEMMA KeyMessageLength ==
  /\ KeyMessage \in Seq(Item) /\ Len(KeyMessage) = 2 * BLOCK_SIZE + 1
  /\ Len(KeyMessage) \in Nat /\ BufferSize \in Nat \ {0}
PROOF
<1>1. KeyMessage \in Seq(Item) /\ Len(KeyMessage) = 2 * BLOCK_SIZE + 1
  BY TransferAssumption DEF KeyMessage, Item
<1>2. BufferSize \in Nat \ {0}
  BY TransferAssumption DEF BufferSize
<1> QED
  BY <1>1, <1>2, TransferAssumption

\* No more is announced than there is, and all of it if it fits.
LEMMA AnnouncedIs ==
  ASSUME SenderOK
  PROVE  /\ announced \in Nat /\ fileLength \in Nat /\ announced <= fileLength
         /\ fileLength < LengthLimit => announced = fileLength
PROOF
<1> DEFINE q == fileLength \div LengthLimit
<1>1. fileLength \in Nat /\ LengthLimit \in Nat \ {0} /\ announced = fileLength % LengthLimit
  BY TransferAssumption DEF SenderOK
<1>2. announced \in 0 .. LengthLimit - 1 /\ q \in Int /\ fileLength = LengthLimit * q + announced
  BY <1>1
<1> HIDE DEF q
<1>3. q >= 0 /\ LengthLimit * q >= 0 /\ LengthLimit * q \in Int
  BY <1>1, <1>2
<1>4. fileLength < LengthLimit => q = 0
  BY <1>1, <1>2, <1>3
<1> QED
  BY <1>1, <1>2, <1>3, <1>4

LEMMA KeyAheadType ==
  ASSUME SenderOK
  PROVE  KeyAhead \in Seq(Item)
PROOF
  BY KeyMessageLength DEF KeyAhead

-----------------------------------------------------------------------------
(* The steps. *)

LEMMA InitTransfer == TransferInit => TransferInv
PROOF
<1> SUFFICES ASSUME TransferInit PROVE SenderOK /\ ReceiverOK
  BY DEF TransferInv, TransferInit
<1>1. BufferSize \in Nat /\ LengthLimit \in Nat \ {0}
  BY KeyMessageLength, TransferAssumption
<1>2. transferBuffer \in [1 .. BufferSize -> Item]
  BY <1>1 DEF TransferInit, Item
<1>3. SenderOK
  <2>1. /\ sender = "resolve" /\ announced = 0 /\ position = 0 /\ sent = <<>>
        /\ keySent = FALSE /\ fileLength = 0
    BY DEF TransferInit
  <2>2. SentIsFile
    BY <2>1 DEF SentIsFile
  <2> QED
    <3>1. sent \in Seq(FileBlock) /\ Len(sent) = 0 /\ 0 * BLOCK_SIZE = 0
      BY <2>1, TransferAssumption
    <3>2. position = Len(sent) * BLOCK_SIZE
      BY <1>1, <2>1, <3>1
    <3>3. /\ position \in Nat /\ fileLength \in Nat /\ position <= fileLength
          /\ announced = fileLength % LengthLimit
      BY <1>1, <2>1
    <3>4. keySent \in BOOLEAN /\ ~ keySent /\ sender # "done" /\ sender # "send"
      BY <2>1
    <3> QED
      BY <1>2, <2>1, <2>2, <3>1, <3>2, <3>3, <3>4 DEF SenderOK
<1>4. ReceiverOK
  BY DEF TransferInit, ReceiverOK, HeaderAhead
<1> QED
  BY <1>3, <1>4

\* Before there is an answer nothing is on its way.
LEMMA BeforeAnswer ==
  ASSUME SenderOK, ReceiverOK, sender = "resolve"
  PROVE  /\ receiver = "header" /\ text = <<>> /\ stream = <<>> /\ sent = <<>>
         /\ fileLength = 0 /\ position = 0 /\ keySent = FALSE
PROOF
<1>1. sent = <<>> /\ fileLength = 0 /\ keySent = FALSE
  BY DEF SenderOK
<1>2. position = 0
  BY <1>1, TransferAssumption DEF SenderOK
<1>3. receiver = "header"
  BY DEF ReceiverOK
<1>4. text = <<>> /\ stream = <<>>
  BY <1>3 DEF ReceiverOK, HeaderAhead
<1> QED
  BY <1>1, <1>2, <1>3, <1>4

LEMMA ResolveKeeps ==
  SenderOK /\ ReceiverOK /\ Resolve /\ fileLength' # NoLength => SenderOK' /\ ReceiverOK'
PROOF
<1> SUFFICES ASSUME SenderOK, ReceiverOK, Resolve, fileLength' # NoLength
             PROVE  SenderOK' /\ ReceiverOK'
  OBVIOUS
<1>1. sender = "resolve"
  BY DEF Resolve
<1>2. /\ receiver = "header" /\ text = <<>> /\ stream = <<>> /\ sent = <<>>
      /\ fileLength = 0 /\ position = 0 /\ keySent = FALSE
  BY <1>1, BeforeAnswer
<1>3. /\ UNCHANGED <<position, sent, keySent, receiver, blocksLeft, initialBlock, text>>
      /\ KeyAhead' = <<>>
  BY <1>2 DEF Resolve, receiverVars, KeyAhead
<1>4. SentIsFile'
  BY <1>2, <1>3 DEF SentIsFile
<1>5. CASE sender' = "done" /\ stream' = Append(stream, <<"STC_UNABLE_TO_SEND_FILE">>)
           /\ UNCHANGED <<fileLength, announced, transferBuffer>>
  <2>1. BlockCount(0) = 0
    BY BlockCountIs, TransferAssumption
  <2>2. SenderOK'
    BY <1>2, <1>3, <1>4, <1>5, <2>1 DEF SenderOK
  <2>3. stream' = <<<<"STC_UNABLE_TO_SEND_FILE">>>> \o <<>>
    BY <1>2, <1>5
  <2>4. ReceiverOK'
    BY <1>2, <1>3, <1>5, <2>3 DEF ReceiverOK, HeaderAhead
  <2> QED
    BY <2>2, <2>4
<1>6. CASE /\ fileLength' \in {NoLength} \cup (0 .. MaxFile)
           /\ sender' = "send"
           /\ announced' = fileLength' % LengthLimit
           /\ transferBuffer' = Overwrite(transferBuffer,
                                          [i \in 1 .. HeaderSize |-> <<"header", i>>])
           /\ stream' = Append(stream, <<"STC_FILE", announced'>>)
  <2>1. fileLength' \in Nat
    BY <1>6, TransferAssumption
  <2>2. transferBuffer' \in [1 .. BufferSize -> Item]
    <3> DEFINE header == [i \in 1 .. HeaderSize |-> <<"header", i>>]
    <3>1. transferBuffer \in [1 .. BufferSize -> Item]
      BY DEF SenderOK
    <3>2. header \in Seq(Item)
      BY TransferAssumption DEF HeaderSize, Item
    <3>3. \A i \in 1 .. BufferSize : i <= Len(header) => header[i] \in Item
      <4> HIDE DEF header
      <4>1. BufferSize \in Nat
        BY KeyMessageLength
      <4> QED
        BY <3>2, <4>1
    <3> HIDE DEF header
    <3>4. Overwrite(transferBuffer, header) \in [1 .. BufferSize -> Item]
      BY <3>1, <3>3 DEF Overwrite
    <3> QED
      BY <1>6, <3>4 DEF header
  <2>3. SenderOK'
    BY <1>2, <1>3, <1>4, <1>6, <2>1, <2>2, TransferAssumption DEF SenderOK
  <2>4. Ciphers(1, Len(sent')) = <<>>
    <3>1. Len(sent') = 0
      BY <1>2, <1>3
    <3>2. Ciphers(0 + 1, 0) = <<>>
      BY NoCiphers
    <3> QED
      BY <3>1, <3>2
  <2>5. stream' = (<<<<"STC_FILE", announced'>>>> \o Ciphers(1, Len(sent'))) \o KeyAhead'
    BY <1>2, <1>3, <1>6, <2>4
  <2>6. HeaderAhead'
    BY <1>6, <2>5 DEF HeaderAhead
  <2>7. ReceiverOK'
    BY <1>2, <1>3, <2>6 DEF ReceiverOK
  <2> QED
    BY <2>3, <2>7
<1> QED
  BY <1>5, <1>6 DEF Resolve

LEMMA WriteFailsKeeps ==
  SenderOK /\ ReceiverOK /\ WriteFails => SenderOK' /\ ReceiverOK'
PROOF
<1> SUFFICES ASSUME SenderOK, ReceiverOK, WriteFails PROVE SenderOK' /\ ReceiverOK'
  OBVIOUS
<1>1. /\ sender \in {"resolve", "send"} /\ sender' = "aborted"
      /\ UNCHANGED <<fileLength, announced, position, transferBuffer, sent, keySent,
                     stream, receiver, blocksLeft, initialBlock, text>>
  BY DEF WriteFails, receiverVars
<1>2. SenderOK'
  BY <1>1 DEF SenderOK, SentIsFile
<1>3. HeaderAhead => HeaderAhead'
  BY <1>1 DEF HeaderAhead, KeyAhead
<1>4. \A blocks : HasRead(blocks) => HasRead(blocks)'
  BY <1>1 DEF HasRead, KeyAhead
<1>5. ReceiverOK'
  BY <1>1, <1>3, <1>4 DEF ReceiverOK
<1> QED
  BY <1>2, <1>5

LEMMA UpdateKeyKeeps ==
  SenderOK /\ ReceiverOK /\ UpdateKey => SenderOK' /\ ReceiverOK'
PROOF
<1> SUFFICES ASSUME SenderOK, ReceiverOK, UpdateKey PROVE SenderOK' /\ ReceiverOK'
  OBVIOUS
<1>1. /\ sender = "done" /\ keySent = FALSE /\ keySent' = TRUE
      /\ stream' = stream \o KeyMessage
      /\ UNCHANGED <<fileLength, announced, sender, position, transferBuffer, sent,
                     receiver, blocksLeft, initialBlock, text>>
  BY DEF UpdateKey, receiverVars, SenderOK
<1>2. SenderOK'
  BY <1>1 DEF SenderOK, SentIsFile
<1>3. KeyAhead = <<>> /\ KeyAhead' = KeyMessage /\ KeyMessage \in Seq(Item)
  BY <1>1, KeyMessageLength DEF KeyAhead, KeyMessage
<1>4. ASSUME NEW x \in Seq(Item), stream = x \o KeyAhead
      PROVE  stream' = x \o KeyAhead'
  BY <1>1, <1>3, <1>4
<1>5. Len(sent) \in Nat
  BY DEF SenderOK
<1>6. HeaderAhead => HeaderAhead'
  <2>1. <<<<"STC_UNABLE_TO_SEND_FILE">>>> \in Seq(Item)
    BY DEF Item
  <2>2. <<<<"STC_FILE", announced>>>> \o Ciphers(1, Len(sent)) \in Seq(Item)
    <3>1. <<<<"STC_FILE", announced>>>> \in Seq(Item)
      BY AnnouncedIs DEF Item
    <3>2. Ciphers(1, Len(sent)) \in Seq(Item)
      BY <1>5, CiphersSplit
    <3> QED
      BY <3>1, <3>2, ConcatenationAt
  <2> QED
    BY <1>1, <1>4, <2>1, <2>2 DEF HeaderAhead
<1>7. ASSUME NEW blocks \in Nat, HasRead(blocks) PROVE HasRead(blocks)'
  <2>1. Ciphers(blocks + 1, Len(sent)) \in Seq(Item)
    <3>1. blocks \in 0 .. Len(sent)
      BY <1>7 DEF HasRead
    <3> QED
      BY <1>5, <3>1, CiphersSplit
  <2>2. stream' = Ciphers(blocks + 1, Len(sent)) \o KeyAhead'
    BY <1>4, <1>7, <2>1 DEF HasRead
  <2> QED
    BY <1>1, <1>7, <2>2 DEF HasRead
<1>8. receiver = "refused" => stream' = KeyAhead'
  BY <1>1, <1>3 DEF ReceiverOK
<1>9. ReceiverOK'
  <2>1. receiver = "header" => text' = <<>> /\ HeaderAhead'
    BY <1>1, <1>6 DEF ReceiverOK
  <2>2. receiver \in {"blocks", "done"} => \E blocks \in Nat : HasRead(blocks)'
    BY <1>7 DEF ReceiverOK
  <2> QED
    BY <1>1, <1>8, <2>1, <2>2 DEF ReceiverOK
<1> QED
  BY <1>2, <1>9

\* Some bytes put at the beginning of a buffer.
LEMMA OverwriteType ==
  ASSUME NEW before \in [1 .. BufferSize -> Item], NEW bytes \in Seq(Item)
  PROVE  /\ Overwrite(before, bytes) \in [1 .. BufferSize -> Item]
         /\ \A i \in 1 .. BufferSize :
              i <= Len(bytes) => Overwrite(before, bytes)[i] = bytes[i]
PROOF
<1>1. BufferSize \in Nat
  BY KeyMessageLength
<1>2. \A i \in 1 .. BufferSize : i <= Len(bytes) => bytes[i] \in Item
  BY <1>1
<1> QED
  BY <1>2 DEF Overwrite

\* What a turn of the loop reads and how many blocks it takes.
LEMMA ChunkFits ==
  ASSUME SenderOK, sender = "send"
  PROVE  /\ Available \in 0 .. BufferSize
         /\ BlocksToSend(Available) \in 0 .. BufferBlocks
         /\ position + Available <= fileLength
         /\ Available # BufferSize => position + Available = fileLength
         /\ Available = BufferSize => BlocksToSend(Available) = BufferBlocks
PROOF
<1>1. /\ BufferSize \in Nat \ {0} /\ fileLength \in Nat /\ position \in Nat
      /\ position <= fileLength
  BY KeyMessageLength DEF SenderOK
<1>2. /\ Available \in 0 .. BufferSize
      /\ position + Available <= fileLength
      /\ Available # BufferSize => position + Available = fileLength
  BY <1>1 DEF Available, NoLength
<1>4. BlockCount(BufferSize) = BufferBlocks
  BY BlockCountIs, TransferAssumption, <1>1 DEF BufferSize
<1>5. BlockCount(Available) \in 0 .. BufferBlocks
  <2> DEFINE c == BlockCount(Available)
             s == c * BLOCK_SIZE
             t == BufferBlocks * BLOCK_SIZE
  <2>1. c \in Nat /\ s < Available + BLOCK_SIZE /\ Available <= t /\ Available \in Nat
    BY <1>1, <1>2, BlockCountHolds, TransferAssumption DEF BufferSize
  <2>2. c > BufferBlocks => s >= t + BLOCK_SIZE
    <3> HIDE DEF c
    <3>1. c > BufferBlocks => (c - BufferBlocks) * BLOCK_SIZE >= BLOCK_SIZE
      BY <2>1, TransferAssumption
    <3>2. s = (c - BufferBlocks) * BLOCK_SIZE + t
      BY <2>1, TransferAssumption
    <3> QED
      BY <2>1, <3>1, <3>2, TransferAssumption
  <2>3. s \in Int /\ t \in Int
    BY <2>1, TransferAssumption
  <2> HIDE DEF c, s, t
  <2>4. c \in 0 .. BufferBlocks
    BY <2>1, <2>2, <2>3, TransferAssumption
  <2> QED
    BY <2>4 DEF c
<1> QED
  BY <1>2, <1>4, <1>5 DEF BlocksToSend

Chunk(filled) ==
  [n \in 1 .. BlocksToSend(Available) |->
     SubSeq(filled, (n - 1) * BLOCK_SIZE + 1, n * BLOCK_SIZE)]

\* The blocks of a turn: as many as it sends, with the bytes of the file that
\* it has read.
LEMMA ChunkIsFile ==
  ASSUME SenderOK, sender = "send",
         NEW filled \in [1 .. BufferSize -> Item],
         \A i \in 1 .. Available : filled[i] = <<"file", position + i>>
  PROVE  /\ Chunk(filled) \in Seq(FileBlock)
         /\ Len(Chunk(filled)) = BlocksToSend(Available)
         /\ \A n \in 1 .. Len(Chunk(filled)) : \A i \in 1 .. BLOCK_SIZE :
              (n - 1) * BLOCK_SIZE + i <= Available =>
                Chunk(filled)[n][i] = <<"file", position + ((n - 1) * BLOCK_SIZE + i)>>
PROOF
<1> DEFINE B == BLOCK_SIZE
           c == BlocksToSend(Available)
           chunk == Chunk(filled)
<1>1. c \in 0 .. BufferBlocks /\ Available \in 0 .. BufferSize /\ BufferSize \in Nat
  BY ChunkFits, KeyMessageLength
<1>2. B \in Nat \ {0} /\ BufferSize = BufferBlocks * B /\ BufferBlocks \in Nat
  BY TransferAssumption DEF BufferSize
<1>0. chunk = [n \in 1 .. c |->
                 SubSeq(filled, (n - 1) * BLOCK_SIZE + 1, n * BLOCK_SIZE)]
  BY DEF Chunk
<1> HIDE DEF c, chunk
<1>3. ASSUME NEW n \in 1 .. c
      PROVE  /\ chunk[n] \in FileBlock
             /\ \A i \in 1 .. B : chunk[n][i] = filled[(n - 1) * B + i]
  <2> DEFINE p == (n - 1) * B
             t == SubSeq(filled, p + 1, p + B)
  <2>1. p \in Nat /\ n * B = p + B /\ p + B <= BufferSize
    <3>1. n \in Nat /\ n >= 1 /\ n <= BufferBlocks
      BY <1>1, <1>2
    <3> DEFINE l == (BufferBlocks - n) * B
    <3>2. l >= 0 /\ l \in Int
      BY <3>1, <1>2
    <3>3. p \in Nat /\ n * B = p + B /\ BufferBlocks * B = (p + B) + l
      BY <3>1, <1>2
    <3> HIDE DEF p, l
    <3>4. BufferSize = (p + B) + l
      BY <3>3, <1>2
    <3> QED
      BY <3>2, <3>3, <3>4, <1>2
  <2>2. chunk[n] = SubSeq(filled, p + 1, n * B)
    BY <1>0
  <2>3. chunk[n] = t
    BY <2>1, <2>2
  <2> HIDE DEF p
  <2>4. /\ filled \in Seq(Item) /\ Len(filled) = BufferSize
        /\ p + 1 \in 1 .. Len(filled) + 1 /\ p + B \in 0 .. Len(filled)
    BY <1>1, <1>2, <2>1
  <2>5. t \in Seq(Item) /\ Len(t) = B
    BY <2>4, <1>2, <2>1
  <2>6. \A i \in 1 .. B : t[i] = filled[p + i]
    BY <2>4, <1>2, <2>1
  <2> HIDE DEF t
  <2>7. t \in FileBlock
    BY <2>5, <1>2 DEF FileBlock
  <2> QED
    BY <2>3, <2>6, <2>7 DEF p
<1>4. chunk \in Seq(FileBlock) /\ Len(chunk) = c
  <2>1. DOMAIN chunk = 1 .. c /\ chunk = [n \in 1 .. c |-> chunk[n]]
    BY <1>0
  <2>2. chunk \in [1 .. c -> FileBlock]
    BY <2>1, <1>3
  <2>3. c \in Nat
    BY <1>1, <1>2
  <2> QED
    BY <2>2, <2>3
<1>5. ASSUME NEW n \in 1 .. c, NEW i \in 1 .. B, (n - 1) * B + i <= Available
      PROVE  chunk[n][i] = <<"file", position + ((n - 1) * B + i)>>
  <2>1. (n - 1) * B + i \in 1 .. Available
    <3>1. (n - 1) * B \in Nat
      BY <1>1, <1>2
    <3> QED
      BY <3>1, <1>5, <1>1, <1>2
  <2> QED
    BY <2>1, <1>3
<1> QED
  BY <1>4, <1>5 DEF c, chunk

LEMMA SendChunkKeeps ==
  SenderOK /\ ReceiverOK /\ SendChunk => SenderOK' /\ ReceiverOK'
PROOF
<1> SUFFICES ASSUME SenderOK, ReceiverOK, SendChunk PROVE SenderOK' /\ ReceiverOK'
  OBVIOUS
<1> DEFINE bytes == [i \in 1 .. Available |-> <<"file", position + i>>]
           filled == Overwrite(transferBuffer, bytes)
           blocks == BlocksToSend(Available)
           first == Len(sent) + 1
           encoded == Ciphers(first, first + blocks - 1)
           chunk == Chunk(filled)
<1>1. /\ sender = "send"
      /\ sent' = sent \o chunk
      /\ transferBuffer' = Overwrite(filled, encoded)
      /\ stream' = stream \o encoded
      /\ position' = position + Available
      /\ sender' = IF Available = BufferSize THEN "send" ELSE "done"
      /\ UNCHANGED <<fileLength, announced, keySent, receiver, blocksLeft,
                     initialBlock, text>>
  BY DEF SendChunk, receiverVars, Chunk
<1>2. /\ Available \in 0 .. BufferSize /\ blocks \in 0 .. BufferBlocks
      /\ position + Available <= fileLength
      /\ Available # BufferSize => position + Available = fileLength
      /\ Available = BufferSize => blocks = BufferBlocks
  BY <1>1, ChunkFits
<1>3. /\ BufferSize \in Nat \ {0} /\ BufferSize = BLOCK_SIZE * BufferBlocks
      /\ BLOCK_SIZE \in Nat \ {0} /\ BufferBlocks \in Nat /\ Available \in Nat
      /\ blocks \in Nat
  BY <1>2, KeyMessageLength, TransferAssumption DEF BufferSize
<1>4. /\ announced \in Nat /\ position \in Nat /\ keySent = FALSE
      /\ fileLength \in Nat /\ announced = fileLength % LengthLimit
      /\ transferBuffer \in [1 .. BufferSize -> Item] /\ sent \in Seq(FileBlock)
      /\ position = Len(sent) * BLOCK_SIZE
  BY <1>1, AnnouncedIs DEF SenderOK
<1>5. bytes \in Seq(Item) /\ Len(bytes) = Available
  BY <1>3, <1>4 DEF Item
<1>6. /\ filled \in [1 .. BufferSize -> Item]
      /\ \A i \in 1 .. Available : filled[i] = <<"file", position + i>>
  <2>1. \A i \in 1 .. Available : bytes[i] = <<"file", position + i>>
    OBVIOUS
  <2> HIDE DEF bytes
  <2>2. \A i \in 1 .. Available : i \in 1 .. BufferSize /\ i <= Len(bytes)
    BY <1>2, <1>3, <1>5
  <2> QED
    BY <1>4, <1>5, <2>1, <2>2, OverwriteType
<1> HIDE DEF filled, bytes
<1>7. /\ chunk \in Seq(FileBlock) /\ Len(chunk) = blocks
      /\ \A n \in 1 .. Len(chunk) : \A i \in 1 .. BLOCK_SIZE :
           (n - 1) * BLOCK_SIZE + i <= Available =>
             chunk[n][i] = <<"file", position + ((n - 1) * BLOCK_SIZE + i)>>
  BY <1>1, <1>6, ChunkIsFile
<1> HIDE DEF chunk, blocks
<1>8. /\ sent' \in Seq(FileBlock) /\ Len(sent') = Len(sent) + blocks
      /\ \A n \in 1 .. Len(sent) : sent'[n] = sent[n]
      /\ \A n \in 1 .. blocks : sent'[Len(sent) + n] = chunk[n]
  <2>1. sent' = sent \o chunk
    BY <1>1
  <2>2. sent \in Seq(FileBlock) /\ chunk \in Seq(FileBlock) /\ Len(chunk) = blocks
    BY <1>4, <1>7
  <2> QED
    BY <2>1, <2>2, ConcatenationAt
<1>9. Len(sent) \in Nat /\ first \in Nat
  BY <1>4
<1>10. /\ encoded \in Seq(Item)
       /\ \A from \in 0 .. Len(sent) :
            Ciphers(from + 1, Len(sent')) = Ciphers(from + 1, Len(sent)) \o encoded
       /\ \A from \in 0 .. Len(sent) : Ciphers(from + 1, Len(sent)) \in Seq(Item)
  <2> DEFINE l == Len(sent)
             m == Len(sent')
  <2>1. l \in Nat /\ m = l + blocks /\ encoded = Ciphers(l + 1, m)
    <3>1. first + blocks - 1 = Len(sent) + blocks
      BY <1>3, <1>9
    <3> QED
      BY <1>8, <1>9, <3>1
  <2> HIDE DEF l, m, encoded
  <2>2. ASSUME NEW from \in 0 .. l
        PROVE  /\ Ciphers(from + 1, l) \in Seq(Item)
               /\ Ciphers(l + 1, m) \in Seq(Item)
               /\ Ciphers(from + 1, m) = Ciphers(from + 1, l) \o Ciphers(l + 1, m)
    <3>1. /\ from + 1 \in Nat /\ l \in Int /\ m \in Int
          /\ (from + 1) - 1 <= l /\ l <= m
      BY <2>1, <1>3
    <3> QED
      BY <3>1, CiphersSplit
  <2>3. l \in 0 .. l
    BY <2>1
  <2> QED
    BY <2>1, <2>2, <2>3 DEF l, m
<1>11. transferBuffer' \in [1 .. BufferSize -> Item]
  BY <1>1, <1>6, <1>10, OverwriteType
<1>12. SentIsFile'
  <2> SUFFICES ASSUME NEW n \in 1 .. Len(sent'), NEW i \in 1 .. BLOCK_SIZE,
                      (n - 1) * BLOCK_SIZE + i <= position'
               PROVE  sent'[n][i] = <<"file", (n - 1) * BLOCK_SIZE + i>>
    BY DEF SentIsFile
  <2>1. CASE n <= Len(sent)
    <3>1. n \in 1 .. Len(sent)
      BY <2>1, <1>8, <1>9
    <3>2. (n - 1) * BLOCK_SIZE + i <= position
      <4>1. (n - 1) * BLOCK_SIZE + i \in 1 .. Len(sent) * BLOCK_SIZE
        BY <3>1, <1>9, PlaceIsByte
      <4> QED
        BY <4>1, <1>4
    <3>3. sent[n][i] = <<"file", (n - 1) * BLOCK_SIZE + i>>
      BY <3>1, <3>2 DEF SenderOK, SentIsFile
    <3> QED
      BY <3>1, <3>3, <1>8
  <2>2. CASE n > Len(sent)
    <3> DEFINE k == n - Len(sent)
    <3>1. k \in 1 .. blocks /\ n = Len(sent) + k /\ k \in Int
      BY <2>2, <1>8, <1>9, <1>3
    <3> HIDE DEF k
    <3>2. (n - 1) * BLOCK_SIZE + i = position + ((k - 1) * BLOCK_SIZE + i)
      BY <3>1, <1>3, <1>4, <1>9
    <3>3. (k - 1) * BLOCK_SIZE + i <= Available
      <4>1. (k - 1) * BLOCK_SIZE + i \in Int
        BY <3>1, <1>3
      <4> QED
        <5> DEFINE t == (k - 1) * BLOCK_SIZE + i
        <5>1. position + t <= position + Available
          BY <3>2, <1>1
        <5>2. t \in Int /\ position \in Int /\ Available \in Int
          BY <4>1, <1>3, <1>4
        <5> HIDE DEF t
        <5>3. t <= Available
          BY <5>1, <5>2
        <5> QED
          BY <5>3 DEF t
    <3>4. sent'[n] = chunk[k]
      BY <3>1, <1>8
    <3>5. chunk[k][i] = <<"file", position + ((k - 1) * BLOCK_SIZE + i)>>
      BY <3>1, <3>3, <1>7
    <3> QED
      BY <3>2, <3>4, <3>5
  <2> QED
    BY <2>1, <2>2, <1>8, <1>9, <1>3
<1>13. Len(sent') * BLOCK_SIZE = position + blocks * BLOCK_SIZE
  BY <1>8, <1>4, <1>9, <1>3
<1>14. SenderOK'
  <2>1. sender' # "done" => position' = Len(sent') * BLOCK_SIZE
    <3> SUFFICES ASSUME sender' # "done" PROVE position' = Len(sent') * BLOCK_SIZE
      OBVIOUS
    <3>1. Available = BufferSize /\ blocks = BufferBlocks
      BY <1>1, <1>2
    <3>2. blocks * BLOCK_SIZE = BufferSize
      BY <3>1, <1>3
    <3> QED
      BY <3>1, <3>2, <1>1, <1>13
  <2>3. sender' = "done" =>
          position' = fileLength /\ Len(sent') = BlockCount(fileLength)
    <3> SUFFICES ASSUME sender' = "done"
                 PROVE  position' = fileLength /\ Len(sent') = BlockCount(fileLength)
      OBVIOUS
    <3>1. position' = fileLength /\ fileLength = position + Available
      BY <1>1, <1>2
    <3>2. /\ blocks * BLOCK_SIZE >= Available
          /\ blocks * BLOCK_SIZE < Available + BLOCK_SIZE
      BY <1>3, BlockCountHolds DEF blocks, BlocksToSend
    <3>3. blocks * BLOCK_SIZE \in Int
      BY <1>3
    <3>4. /\ fileLength <= Len(sent') * BLOCK_SIZE
          /\ Len(sent') * BLOCK_SIZE < fileLength + BLOCK_SIZE
      BY <3>1, <3>2, <3>3, <1>3, <1>4, <1>13
    <3>5. Len(sent') \in Int
      BY <1>8
    <3> QED
      BY <3>1, <3>4, <3>5, <1>4, BlockCountIs
  <2>4. /\ position' \in Nat /\ position' <= fileLength
        /\ sender' \in {"send", "done"}
    BY <1>1, <1>2, <1>3, <1>4
  <2> QED
    BY <1>1, <1>4, <1>8, <1>11, <1>12, <2>1, <2>3, <2>4 DEF SenderOK
<1>15. KeyAhead = <<>> /\ KeyAhead' = <<>>
  BY <1>1, <1>4 DEF KeyAhead
<1> HIDE DEF encoded, first
<1>16. receiver = "header" => HeaderAhead'
  <2> SUFFICES ASSUME receiver = "header" PROVE HeaderAhead'
    OBVIOUS
  <2> DEFINE header == <<<<"STC_FILE", announced>>>>
  <2>1. stream = (header \o Ciphers(1, Len(sent))) \o <<>>
    BY <1>1, <1>15 DEF ReceiverOK, HeaderAhead
  <2>2. header \in Seq(Item)
    BY <1>4 DEF Item
  <2>3. /\ Ciphers(1, Len(sent)) \in Seq(Item)
        /\ Ciphers(1, Len(sent')) = Ciphers(1, Len(sent)) \o encoded
    <3>1. 0 \in 0 .. Len(sent) /\ 0 + 1 = 1
      BY <1>9
    <3> QED
      BY <3>1, <1>10
  <2> HIDE DEF header
  <2>4. stream' = (header \o Ciphers(1, Len(sent'))) \o <<>>
    <3> DEFINE x == Ciphers(1, Len(sent))
               y == Ciphers(1, Len(sent'))
    <3>1. x \in Seq(Item) /\ y = x \o encoded /\ encoded \in Seq(Item)
      BY <1>10, <2>3
    <3>2. stream = (header \o x) \o <<>>
      BY <2>1
    <3> HIDE DEF x, y
    <3>3. header \o x \in Seq(Item) /\ y \in Seq(Item)
      BY <2>2, <3>1, ConcatenationAt
    <3>4. header \o y \in Seq(Item)
      BY <2>2, <3>3, ConcatenationAt
    <3>5. stream = header \o x
      BY <3>2, <3>3, ConcatenationAssociates
    <3>6. stream' = header \o y
      <4>1. stream' = (header \o x) \o encoded
        BY <1>1, <3>5
      <4>2. (header \o x) \o encoded = header \o (x \o encoded)
        BY <2>2, <3>1, ConcatenationAssociates
      <4> QED
        BY <3>1, <4>1, <4>2
    <3>7. stream' = (header \o y) \o <<>>
      BY <3>4, <3>6, ConcatenationAssociates
    <3> QED
      BY <3>7 DEF y
  <2> QED
    BY <1>1, <1>15, <2>4 DEF HeaderAhead, header
<1>17. ASSUME NEW r \in Nat, HasRead(r) PROVE HasRead(r)'
  <2>1. /\ r \in 0 .. Len(sent) /\ stream = Ciphers(r + 1, Len(sent)) \o <<>>
        /\ text = FlattenSeq(SubSeq(sent, 1, r)) /\ initialBlock = Cipher(r)
        /\ blocksLeft = BlockCount(announced) - r
    BY <1>15, <1>17 DEF HasRead
  <2>2. stream' = Ciphers(r + 1, Len(sent')) \o <<>>
    <3> DEFINE x == Ciphers(r + 1, Len(sent))
               y == Ciphers(r + 1, Len(sent'))
    <3>1. x \in Seq(Item) /\ y = x \o encoded /\ encoded \in Seq(Item)
      BY <1>10, <2>1
    <3>2. stream = x \o <<>>
      BY <2>1
    <3> HIDE DEF x, y
    <3>3. y \in Seq(Item)
      BY <3>1, ConcatenationAt
    <3>4. stream' = y /\ y = y \o <<>>
      BY <1>1, <3>1, <3>2, <3>3, ConcatenationAssociates
    <3> QED
      BY <3>4 DEF y
  <2>3. SubSeq(sent', 1, r) = SubSeq(sent, 1, r)
    BY <1>4, <1>8, <2>1, <1>3
  <2>4. r \in 0 .. Len(sent')
    BY <1>3, <1>8, <1>9, <2>1
  <2> QED
    BY <1>1, <1>15, <2>1, <2>2, <2>3, <2>4 DEF HasRead
<1>18. ReceiverOK'
  <2>1. receiver = "header" => text' = <<>> /\ HeaderAhead'
    BY <1>1, <1>16 DEF ReceiverOK
  <2>2. receiver \in {"blocks", "done"} => \E r \in Nat : HasRead(r)'
    BY <1>17 DEF ReceiverOK
  <2>3. receiver \notin {"refused", "failed"} /\ sender' # "resolve"
    BY <1>1 DEF ReceiverOK
  <2> QED
    BY <1>1, <2>1, <2>2, <2>3 DEF ReceiverOK
<1> QED
  BY <1>14, <1>18

LEMMA ReadHeaderKeeps ==
  SenderOK /\ ReceiverOK /\ ReadHeader => SenderOK' /\ ReceiverOK'
PROOF
<1> SUFFICES ASSUME SenderOK, ReceiverOK, ReadHeader PROVE SenderOK' /\ ReceiverOK'
  OBVIOUS
<1>1. /\ receiver = "header" /\ stream # <<>> /\ stream' = Tail(stream)
      /\ UNCHANGED <<fileLength, announced, sender, position, transferBuffer, sent,
                     keySent, text>>
  BY DEF ReadHeader, senderVars
<1>2. SenderOK' /\ KeyAhead' = KeyAhead
  BY <1>1 DEF SenderOK, SentIsFile, KeyAhead
<1>3. text = <<>> /\ HeaderAhead
  BY <1>1 DEF ReceiverOK
<1>4. KeyAhead \in Seq(Item) /\ Len(sent) \in Nat /\ announced \in Nat
  BY KeyAheadType, AnnouncedIs DEF SenderOK
<1>5. CASE /\ sender # "resolve"
           /\ stream = (<<<<"STC_FILE", announced>>>> \o Ciphers(1, Len(sent))) \o KeyAhead
  <2> DEFINE header == <<"STC_FILE", announced>>
             x == Ciphers(1, Len(sent))
  <2>1. x \in Seq(Item) /\ header \in Item
    BY <1>4, CiphersSplit DEF Item
  <2> HIDE DEF x
  <2>2. stream = <<header>> \o (x \o KeyAhead)
    <3>1. <<header>> \in Seq(Item)
      BY <2>1
    <3> HIDE DEF header
    <3> QED
      BY <1>4, <1>5, <2>1, <3>1, ConcatenationAssociates DEF x, header
  <2>3. Head(stream) = header /\ stream' = x \o KeyAhead
    <3>1. x \o KeyAhead \in Seq(Item)
      BY <1>4, <2>1, ConcatenationAt
    <3> HIDE DEF header
    <3> QED
      BY <1>1, <2>1, <2>2, <3>1
  <2>4. /\ blocksLeft' = BlockCount(announced) /\ receiver' = "blocks"
        /\ initialBlock' = Cipher(0)
    BY <2>3 DEF ReadHeader
  <2>5. BlockCount(announced) \in Nat
    BY <1>4, BlockCountHolds
  <2>6. HasRead(0)'
    <3>1. FlattenSeq(SubSeq(sent, 1, 0)) = <<>>
      <4>1. SubSeq(sent, 1, 0) = <<>>
        BY DEF SenderOK
      <4> QED
        BY <4>1 DEF FlattenSeq
    <3>2. 0 \in 0 .. Len(sent) /\ 0 + 1 = 1
      BY <1>4
    <3>3. BlockCount(announced) - 0 = BlockCount(announced)
      BY <2>5
    <3> QED
      BY <1>1, <1>2, <1>3, <2>3, <2>4, <3>1, <3>2, <3>3 DEF HasRead, x
  <2> QED
    BY <1>1, <1>2, <1>5, <2>4, <2>5, <2>6 DEF ReceiverOK
<1>6. CASE /\ sender = "done"
           /\ stream = <<<<"STC_UNABLE_TO_SEND_FILE">>>> \o KeyAhead
  <2> DEFINE header == <<"STC_UNABLE_TO_SEND_FILE">>
  <2>1. header \in Item
    BY DEF Item
  <2>2. Head(stream) = header /\ stream' = KeyAhead
    <3>1. stream = <<header>> \o KeyAhead
      BY <1>6
    <3> HIDE DEF header
    <3> QED
      BY <1>1, <1>4, <2>1, <3>1
  <2>3. receiver' = "refused" /\ UNCHANGED <<blocksLeft, initialBlock>>
    BY <2>2 DEF ReadHeader
  <2> QED
    BY <1>1, <1>2, <1>6, <2>2, <2>3 DEF ReceiverOK
<1> QED
  BY <1>1, <1>3, <1>5, <1>6 DEF HeaderAhead

\* What is ahead of a client after so many blocks.
Ahead(blocks, rest) == Ciphers(blocks + 1, Len(sent)) \o rest

\* When it has read some more.
LEMMA ChunkAhead ==
  ASSUME NEW from \in Nat, NEW rest \in Seq(Item), NEW blocks \in Nat,
         Len(sent) \in Nat, from + blocks <= Len(sent)
  PROVE  /\ Ahead(from, rest) \in Seq(Item)
         /\ blocks * BLOCK_SIZE \in 0 .. Len(Ahead(from, rest))
         /\ Len(SubSeq(Ahead(from, rest), 1, blocks * BLOCK_SIZE)) = blocks * BLOCK_SIZE
         /\ SubSeq(Ahead(from, rest), blocks * BLOCK_SIZE + 1, Len(Ahead(from, rest)))
              = Ahead(from + blocks, rest)
         /\ \A n \in 1 .. blocks :
              SubSeq(SubSeq(Ahead(from, rest), 1, blocks * BLOCK_SIZE),
                     (n - 1) * BLOCK_SIZE + 1, n * BLOCK_SIZE) = Cipher(from + n)
PROOF
<1> DEFINE last == Len(sent)
           ahead == Ahead(from, rest)
           x == Ciphers(from + 1, from + blocks)
           y == Ciphers(from + blocks + 1, last)
           l == blocks * BLOCK_SIZE
<1>0. last \in Nat /\ from + blocks <= last
  OBVIOUS
<1> HIDE DEF last
<1>1. /\ x \in Seq(Item) /\ Len(x) = l /\ y \in Seq(Item)
      /\ Ciphers(from + 1, last) = x \o y
  <2>1. /\ from + 1 \in Nat /\ from + blocks \in Int /\ last \in Int
        /\ (from + 1) - 1 <= from + blocks /\ from + blocks <= last
        /\ (from + blocks) - (from + 1) + 1 = blocks
    BY <1>0
  <2> QED
    BY <2>1, CiphersSplit
<1>2. ASSUME NEW n \in 1 .. blocks
      PROVE  SubSeq(x, (n - 1) * BLOCK_SIZE + 1, n * BLOCK_SIZE) = Cipher(from + n)
  <2>1. /\ from + 1 \in Nat /\ from + blocks \in Int /\ <<>> \in Seq(Item)
        /\ n \in 1 .. (from + blocks) - (from + 1) + 1 /\ (from + 1) + n - 1 = from + n
    OBVIOUS
  <2>2. SubSeq(x \o <<>>, (n - 1) * BLOCK_SIZE + 1, n * BLOCK_SIZE)
          = Cipher((from + 1) + n - 1)
    BY <2>1, CipherAt
  <2>3. x \o <<>> = x
    BY <1>1, ConcatenationAssociates
  <2> QED
    BY <2>1, <2>2, <2>3
<1> HIDE DEF x, y, ahead
<1>3. y \o rest \in Seq(Item)
  BY <1>1, ConcatenationAt
<1>4. ahead = x \o (y \o rest)
  <2>1. (x \o y) \o rest = x \o (y \o rest)
    <3>1. x \in Seq(Item) /\ y \in Seq(Item) /\ rest \in Seq(Item)
      BY <1>1
    <3> HIDE DEF l
    <3> QED
      BY <3>1, ConcatenationAssociates, SMTT(20)
  <2>2. ahead = (x \o y) \o rest
    BY <1>1 DEF ahead, Ahead, last
  <2> QED
    BY <2>1, <2>2
<1>5. /\ ahead \in Seq(Item) /\ Len(ahead) = Len(x) + Len(y \o rest)
  BY <1>1, <1>3, <1>4, ConcatenationAt
<1>6. l \in 0 .. Len(ahead)
  <2>1. l \in Nat /\ Len(y \o rest) \in Nat
    BY <1>3, TransferAssumption
  <2> HIDE DEF l
  <2> QED
    BY <1>1, <1>5, <2>1
<1>7. SubSeq(ahead, l + 1, Len(ahead)) = y \o rest /\ SubSeq(ahead, 1, l) = x
  <2> DEFINE z == y \o rest
  <2>1. ahead = x \o z /\ z \in Seq(Item)
    BY <1>3, <1>4
  <2> HIDE DEF l, z
  <2>2. /\ SubSeq(x \o z, Len(x) + 1, Len(x \o z)) = z
        /\ SubSeq(x \o z, 1, Len(x)) = x
    BY <1>1, <2>1, RestOfConcatenation
  <2> QED
    BY <1>1, <2>1, <2>2 DEF z
<1> QED
  <2>1. SubSeq(ahead, l + 1, Len(ahead)) = Ahead(from + blocks, rest)
    BY <1>7 DEF Ahead, y, last
  <2> HIDE DEF l
  <2>2. SubSeq(ahead, 1, l) = x /\ Len(x) = l
    BY <1>1, <1>7
  <2> QED
    BY <1>2, <1>5, <1>6, <2>1, <2>2 DEF ahead, l

\* Blocks decoded one after the other are the blocks that were encoded.
LEMMA DecodesSent ==
  ASSUME SenderOK, NEW n \in 1 .. Len(sent)
  PROVE  DecodeCipher(Cipher(n), Cipher(n - 1)) = sent[n]
PROOF
<1>1. n \in DOMAIN sent /\ n \in Nat
  BY DEF SenderOK
<1>2. \E k \in DOMAIN sent : Cipher(n) = Cipher(k) /\ Cipher(n - 1) = Cipher(k - 1)
  BY <1>1
<1>3. Cipher(n)[1][2] = n
  BY <1>1, CipherIsBlock
<1> QED
  BY <1>2, <1>3 DEF DecodeCipher

LEMMA ReadChunkKeeps ==
  SenderOK /\ ReceiverOK /\ ReadChunk => SenderOK' /\ ReceiverOK'
PROOF
<1> SUFFICES ASSUME SenderOK, ReceiverOK, ReadChunk PROVE SenderOK' /\ ReceiverOK'
  OBVIOUS
<1> DEFINE m == BlocksToRead
           bytes == SubSeq(stream, 1, m * BLOCK_SIZE)
           block(n) == IF n = 0 THEN initialBlock
                       ELSE SubSeq(bytes, (n - 1) * BLOCK_SIZE + 1, n * BLOCK_SIZE)
           chunk == [n \in 1 .. m |-> DecodeCipher(block(n), block(n - 1))]
<1>1. /\ receiver = "blocks" /\ blocksLeft > 0
      /\ Len(stream) >= m * BLOCK_SIZE
      /\ text' = text \o FlattenSeq(chunk)
      /\ initialBlock' = SubSeq(bytes, Len(bytes) - BLOCK_SIZE + 1, Len(bytes))
      /\ stream' = SubSeq(stream, Len(bytes) + 1, Len(stream))
      /\ blocksLeft' = blocksLeft - m
      /\ UNCHANGED <<fileLength, announced, sender, position, transferBuffer, sent,
                     keySent, receiver>>
  BY DEF ReadChunk, NextInitial, senderVars
<1>2. SenderOK' /\ KeyAhead' = KeyAhead
  BY <1>1 DEF SenderOK, SentIsFile, KeyAhead
<1>3. /\ blocksLeft \in Nat /\ m \in Nat /\ m >= 1 /\ m <= blocksLeft
      /\ BLOCK_SIZE \in Nat \ {0} /\ blocksLeft' \in Nat /\ sender # "resolve"
  BY <1>1, TransferAssumption DEF BlocksToRead, ReceiverOK
<1> HIDE DEF m
<1>4. PICK r \in Nat : HasRead(r)
  BY <1>1 DEF ReceiverOK
<1>5. /\ r \in 0 .. Len(sent) /\ blocksLeft = BlockCount(announced) - r
      /\ initialBlock = Cipher(r)
      /\ stream = Ciphers(r + 1, Len(sent)) \o KeyAhead
      /\ text = FlattenSeq(SubSeq(sent, 1, r))
  BY <1>4 DEF HasRead
<1>6. /\ KeyAhead \in Seq(Item) /\ sent \in Seq(FileBlock) /\ Len(sent) \in Nat
      /\ BlockCount(announced) \in Nat
  <2>1. announced \in Nat /\ sent \in Seq(FileBlock)
    BY AnnouncedIs DEF SenderOK
  <2>2. KeyAhead \in Seq(Item)
    BY KeyAheadType
  <2>3. BlockCount(announced) \in Nat
    BY <2>1, BlockCountHolds
  <2> QED
    BY <2>1, <2>2, <2>3
<1>7. r + m <= Len(sent)
  <2>1. CASE keySent
    <3>1. Len(sent) >= BlockCount(announced)
      <4>1. Len(sent) = BlockCount(fileLength)
        BY <2>1 DEF SenderOK
      <4> QED
        BY <4>1, AnnouncedIs, BlockCountGrows
    <3> QED
      BY <1>3, <1>5, <1>6, <3>1
  <2>2. CASE ~ keySent
    <3> DEFINE k == Len(sent) - r
               p == m * BLOCK_SIZE
               q == k * BLOCK_SIZE
    <3>1. KeyAhead = <<>>
      BY <2>2 DEF KeyAhead
    <3>2. Ciphers(r + 1, Len(sent)) \in Seq(Item) /\ Len(Ciphers(r + 1, Len(sent))) = q
      <4>1. /\ r + 1 \in Nat /\ Len(sent) \in Int /\ (r + 1) - 1 <= Len(sent)
            /\ Len(sent) - (r + 1) + 1 = k
        BY <1>5, <1>6
      <4> QED
        BY <4>1, CiphersSplit
    <3>3. Len(stream) = q
      BY <1>5, <3>1, <3>2
    <3>4. q >= p
      BY <1>1, <3>3
    <3>5. k >= m
      <4> HIDE DEF k
      <4>1. k \in Int
        BY <1>5, <1>6 DEF k
      <4>2. k < m => (m - k) * BLOCK_SIZE >= BLOCK_SIZE
        BY <4>1, <1>3
      <4>3. p = (m - k) * BLOCK_SIZE + q
        BY <4>1, <1>3
      <4>4. q \in Int /\ (m - k) * BLOCK_SIZE \in Int
        BY <4>1, <1>3
      <4> HIDE DEF p, q
      <4> QED
        BY <4>1, <4>2, <4>3, <4>4, <3>4, <1>3
    <3> QED
      BY <3>5, <1>3, <1>5, <1>6
  <2> QED
    BY <2>1, <2>2
<1> DEFINE l == m * BLOCK_SIZE
<1>8. stream = Ahead(r, KeyAhead)
  BY <1>5 DEF Ahead
<1>9. /\ l \in 0 .. Len(stream)
      /\ Len(bytes) = l
      /\ SubSeq(stream, l + 1, Len(stream)) = Ciphers(r + m + 1, Len(sent)) \o KeyAhead
      /\ \A n \in 1 .. m :
           SubSeq(bytes, (n - 1) * BLOCK_SIZE + 1, n * BLOCK_SIZE) = Cipher(r + n)
  <2>1. r \in Nat /\ m \in Nat
    BY <1>3
  <2>2. /\ Ahead(r, KeyAhead) \in Seq(Item)
        /\ l \in 0 .. Len(Ahead(r, KeyAhead))
        /\ Len(SubSeq(Ahead(r, KeyAhead), 1, l)) = l
        /\ SubSeq(Ahead(r, KeyAhead), l + 1, Len(Ahead(r, KeyAhead)))
             = Ahead(r + m, KeyAhead)
        /\ \A n \in 1 .. m :
             SubSeq(SubSeq(Ahead(r, KeyAhead), 1, l),
                    (n - 1) * BLOCK_SIZE + 1, n * BLOCK_SIZE) = Cipher(r + n)
    <3>1. Len(sent) \in Nat /\ KeyAhead \in Seq(Item) /\ r + m <= Len(sent)
      BY <1>6, <1>7
    <3> HIDE DEF bytes, block, chunk
    <3> QED
      BY <2>1, <3>1, ChunkAhead
  <2>3. Ahead(r + m, KeyAhead) = Ciphers(r + m + 1, Len(sent)) \o KeyAhead
    BY DEF Ahead
  <2> QED
    BY <1>8, <2>2, <2>3
<1> HIDE DEF bytes
<1>10. stream' = Ciphers((r + m) + 1, Len(sent)) \o KeyAhead
  BY <1>1, <1>9
<1>11. initialBlock' = Cipher(r + m)
  <2>1. l - BLOCK_SIZE = (m - 1) * BLOCK_SIZE /\ m \in 1 .. m
    BY <1>3
  <2> QED
    BY <1>1, <1>9, <2>1
<1>12. ASSUME NEW n \in 0 .. m PROVE block(n) = Cipher(r + n)
  <2>1. CASE n = 0
    BY <1>5, <2>1
  <2>2. CASE n # 0
    <3>1. n \in 1 .. m
      BY <1>3, <2>2
    <3>2. SubSeq(bytes, (n - 1) * BLOCK_SIZE + 1, n * BLOCK_SIZE) = Cipher(r + n)
      BY <1>9, <3>1
    <3> QED
      BY <2>2, <3>2
  <2> QED
    BY <2>1, <2>2
<1> HIDE DEF block
<1>13. ASSUME NEW n \in 1 .. m PROVE chunk[n] = sent[r + n]
  <2>1. n \in 0 .. m /\ n - 1 \in 0 .. m /\ r + (n - 1) = (r + n) - 1
    BY <1>3
  <2>2. block(n) = Cipher(r + n) /\ block(n - 1) = Cipher((r + n) - 1)
    BY <1>12, <2>1
  <2>3. r + n \in 1 .. Len(sent)
    BY <1>3, <1>6, <1>7
  <2> QED
    BY <2>2, <2>3, DecodesSent
<1>14. text' = FlattenSeq(SubSeq(sent, 1, r + m))
  <2> DEFINE x == SubSeq(sent, 1, r)
             z == SubSeq(sent, 1, r + m)
  <2>1. /\ x \in Seq(FileBlock) /\ Len(x) = r /\ z \in Seq(FileBlock) /\ Len(z) = r + m
        /\ \A n \in 1 .. r : x[n] = sent[n]
        /\ \A n \in 1 .. r + m : z[n] = sent[n]
    BY <1>3, <1>5, <1>6, <1>7
  <2>2. chunk \in Seq(FileBlock) /\ Len(chunk) = m
    <3>1. chunk = [n \in 1 .. m |-> chunk[n]]
      OBVIOUS
    <3>2. \A n \in 1 .. m : r + n \in 1 .. Len(sent)
      BY <1>3, <1>6, <1>7
    <3>3. \A n \in 1 .. m : sent[r + n] \in FileBlock
      BY <3>2, <1>6
    <3>4. \A n \in 1 .. m : chunk[n] \in FileBlock
      BY <3>3, <1>13
    <3> HIDE DEF chunk
    <3>5. chunk \in [1 .. m -> FileBlock]
      BY <3>1, <3>4
    <3> QED
      BY <3>5, <1>3
  <2> HIDE DEF x, z, chunk
  <2>3. z = x \o chunk
    <3>1. \A n \in 1 .. Len(x) : z[n] = x[n]
      BY <2>1, <1>3
    <3>2. \A n \in 1 .. Len(chunk) : z[Len(x) + n] = chunk[n]
      <4>1. \A n \in 1 .. m : r + n \in 1 .. r + m
        BY <1>3
      <4> QED
        BY <2>1, <2>2, <1>13, <4>1
    <3>3. Len(z) = Len(x) + Len(chunk)
      BY <2>1, <2>2
    <3> QED
      BY <2>1, <2>2, <3>1, <3>2, <3>3, ConcatenationIs
  <2>4. FlattenSeq(z) = FlattenSeq(x) \o FlattenSeq(chunk)
    BY <2>1, <2>2, <2>3, FlattenAppends
  <2> QED
    BY <1>1, <1>5, <2>4 DEF x, z
<1>15. /\ r + m \in 0 .. Len(sent) /\ r + m \in Nat
       /\ blocksLeft' = BlockCount(announced) - (r + m)
  <2>1. blocksLeft' = (BlockCount(announced) - r) - m
    BY <1>1, <1>5
  <2>2. /\ r \in Nat /\ m \in Nat /\ Len(sent) \in Nat
        /\ BlockCount(announced) \in Nat /\ r + m <= Len(sent)
    BY <1>3, <1>6, <1>7
  <2> QED
    BY <2>1, <2>2
<1>16. PICK k \in Nat : k = r + m
  BY <1>15
<1>17. HasRead(k)'
  <2>1. sent' = sent /\ announced' = announced
    BY <1>1
  <2> QED
    BY <1>2, <1>10, <1>11, <1>14, <1>15, <1>16, <2>1 DEF HasRead
<1>18. /\ receiver' = "blocks" /\ sender' # "resolve"
       /\ blocksLeft' \in Nat
  BY <1>1, <1>3
<1> QED
  BY <1>2, <1>17, <1>18 DEF ReceiverOK

LEMMA ReturnsKeep ==
  SenderOK /\ ReceiverOK /\ (ReturnFile \/ ReadThrows) => SenderOK' /\ ReceiverOK'
PROOF
<1> SUFFICES ASSUME SenderOK, ReceiverOK, ReturnFile \/ ReadThrows
             PROVE  SenderOK' /\ ReceiverOK'
  OBVIOUS
<1>1. UNCHANGED <<fileLength, announced, sender, position, transferBuffer, sent,
                  keySent, stream, blocksLeft, initialBlock, text>>
  BY DEF ReturnFile, ReadThrows, senderVars
<1>2. SenderOK' /\ KeyAhead' = KeyAhead
  BY <1>1 DEF SenderOK, SentIsFile, KeyAhead
<1>3. CASE ReadThrows
  BY <1>1, <1>2, <1>3 DEF ReadThrows, ReceiverOK
<1>4. CASE ReturnFile
  <2>1. receiver = "blocks" /\ blocksLeft = 0 /\ receiver' = "done" /\ sender # "resolve"
    BY <1>4 DEF ReturnFile, ReceiverOK
  <2>2. PICK r \in Nat : HasRead(r)
    BY <2>1 DEF ReceiverOK
  <2>3. HasRead(r)'
    BY <1>1, <1>2, <2>2 DEF HasRead
  <2> QED
    BY <1>1, <1>2, <2>1, <2>3 DEF ReceiverOK
<1> QED
  BY <1>3, <1>4

LEMMA TransferStep == TransferInv /\ [TransferNext]_transferVars => TransferInv'
PROOF
<1> SUFFICES ASSUME TransferInv, [TransferNext]_transferVars PROVE TransferInv'
  OBVIOUS
<1>0. sender' = "resolve" => sender = "resolve" /\ fileLength' = fileLength
  <2>1. CASE Resolve \/ WriteFails \/ UpdateKey \/ FileChanges
    BY <2>1 DEF Resolve, WriteFails, UpdateKey, FileChanges, senderVars
  <2>2. CASE SendChunk
    <3>1. sender' \in {"send", "done"}
      BY <2>2 DEF SendChunk
    <3> QED
      BY <3>1
  <2>3. CASE \/ ReadHeader \/ ReadChunk \/ ReturnFile \/ ReadThrows
             \/ UNCHANGED transferVars
    <3>1. UNCHANGED <<sender, fileLength>>
      BY <2>3 DEF ReadHeader, ReadChunk, ReturnFile, ReadThrows, transferVars, senderVars
    <3> QED
      BY <3>1
  <2> QED
    BY <2>1, <2>2, <2>3 DEF TransferNext
<1> SUFFICES ASSUME ~ changed', fileLength' # NoLength PROVE SenderOK' /\ ReceiverOK'
  BY <1>0 DEF TransferInv
<1>1. ~ changed /\ fileLength # NoLength => SenderOK /\ ReceiverOK
  BY DEF TransferInv
<1>2. CASE Resolve
  BY <1>1, <1>2, ResolveKeeps DEF Resolve, TransferInv, NoLength
<1>3. CASE SendChunk
  BY <1>1, <1>3, SendChunkKeeps DEF SendChunk
<1>4. CASE WriteFails
  BY <1>1, <1>4, WriteFailsKeeps DEF WriteFails
<1>5. CASE UpdateKey
  BY <1>1, <1>5, UpdateKeyKeeps DEF UpdateKey
<1>6. CASE FileChanges
  BY <1>6 DEF FileChanges
<1>7. CASE ReadHeader
  BY <1>1, <1>7, ReadHeaderKeeps DEF ReadHeader
<1>8. CASE ReadChunk
  BY <1>1, <1>8, ReadChunkKeeps DEF ReadChunk
<1>9. CASE ReturnFile \/ ReadThrows
  BY <1>1, <1>9, ReturnsKeep DEF ReturnFile, ReadThrows
<1>10. CASE UNCHANGED transferVars
  <2>1. UNCHANGED <<changed, fileLength, announced, sender, position, transferBuffer,
                    sent, keySent, stream, receiver, blocksLeft, initialBlock, text>>
    BY <1>10 DEF transferVars, senderVars, receiverVars
  <2>2. SenderOK /\ ReceiverOK
    BY <1>1, <2>1
  <2>3. SenderOK' /\ KeyAhead' = KeyAhead
    BY <2>1, <2>2 DEF SenderOK, SentIsFile, KeyAhead
  <2>4. HeaderAhead => HeaderAhead'
    BY <2>1, <2>3 DEF HeaderAhead
  <2>5. \A r : HasRead(r) => HasRead(r)'
    BY <2>1, <2>3 DEF HasRead
  <2> QED
    BY <2>1, <2>2, <2>3, <2>4, <2>5 DEF ReceiverOK
<1> QED
  BY <1>2, <1>3, <1>4, <1>5, <1>6, <1>7, <1>8, <1>9, <1>10 DEF TransferNext

LEMMA TransferInvariant == TransferSpec => []TransferInv
PROOF
  BY InitTransfer, TransferStep, PTL DEF TransferSpec

-----------------------------------------------------------------------------
(* What that means for the client. *)

\* What a client has when its loop ends is the file, in its order, and less
\* than a block more: the whole of a file shorter than LengthLimit, and of a
\* longer one the remainder; unless it has no length or was written to while
\* it was sent.
THEOREM FileCorrect == TransferSpec => []FileArrives
PROOF
<1>1. TransferInv => FileArrives
  <2> SUFFICES ASSUME TransferInv, receiver = "done", ~ changed, fileLength # NoLength
               PROVE  /\ SubSeq(text, 1, announced) = File(announced)
                      /\ Len(text) - announced < BLOCK_SIZE
    BY DEF FileArrives, TransferInv, SenderOK
  <2>1. SenderOK /\ ReceiverOK
    BY DEF TransferInv
  <2>2. blocksLeft = 0 /\ announced <= fileLength
    BY <2>1, AnnouncedIs DEF ReceiverOK
  <2>3. PICK r \in Nat : HasRead(r)
    BY <2>1 DEF ReceiverOK
  <2>4. /\ r \in 0 .. Len(sent) /\ r = BlockCount(announced)
        /\ text = FlattenSeq(SubSeq(sent, 1, r))
        /\ announced \in Nat /\ position \in Nat /\ sent \in Seq(FileBlock)
        /\ Len(sent) \in Nat
    <3>1. announced \in Nat /\ sent \in Seq(FileBlock) /\ position \in Nat
      BY <2>1, AnnouncedIs DEF SenderOK
    <3>2. BlockCount(announced) \in Nat
      BY <3>1, BlockCountHolds
    <3> QED
      BY <2>2, <2>3, <3>1, <3>2 DEF HasRead
  <2>5. /\ r * BLOCK_SIZE >= announced /\ r * BLOCK_SIZE < announced + BLOCK_SIZE
        /\ r * BLOCK_SIZE \in Nat /\ BLOCK_SIZE \in Nat \ {0}
    <3>1. r \in Nat /\ r = BlockCount(announced) /\ announced \in Nat
      BY <2>4
    <3>2. /\ BlockCount(announced) * BLOCK_SIZE >= announced
          /\ BlockCount(announced) * BLOCK_SIZE < announced + BLOCK_SIZE
      BY <3>1, BlockCountHolds
    <3> QED
      BY <3>1, <3>2, TransferAssumption
  <2>6. position >= announced
    <3>1. CASE sender = "done"
      <4>1. position = fileLength /\ fileLength \in Nat
        BY <3>1, <2>1 DEF SenderOK
      <4> QED
        BY <4>1, <2>2, <2>4
    <3>2. CASE sender # "done"
      <4> DEFINE p == Len(sent) * BLOCK_SIZE
                 q == r * BLOCK_SIZE
      <4>1. position = p
        BY <3>2, <2>1 DEF SenderOK
      <4>2. /\ (Len(sent) - r) * BLOCK_SIZE >= 0
            /\ p = (Len(sent) - r) * BLOCK_SIZE + q
            /\ (Len(sent) - r) * BLOCK_SIZE \in Int
        <5>1. (Len(sent) - r) * BLOCK_SIZE >= 0
          BY <2>4, <2>5
        <5>2. p = (Len(sent) - r) * BLOCK_SIZE + q
          BY <2>4, <2>5
        <5>3. (Len(sent) - r) * BLOCK_SIZE \in Int
          BY <2>4, <2>5
        <5> QED
          BY <5>1, <5>2, <5>3
      <4>3. q \in Nat /\ q >= announced
        BY <2>5
      <4> HIDE DEF p, q
      <4> QED
        BY <2>4, <4>1, <4>2, <4>3
    <3> QED
      BY <3>1, <3>2
  <2> DEFINE read == SubSeq(sent, 1, r)
  <2>7. /\ read \in Seq(FileBlock) /\ Len(read) = r
        /\ \A q \in 1 .. r : read[q] = sent[q]
    BY <2>4
  <2> HIDE DEF read
  <2>8. /\ text \in Seq(Item) /\ Len(text) = r * BLOCK_SIZE
        /\ \A q \in 1 .. r : \A i \in 1 .. BLOCK_SIZE :
             text[(q - 1) * BLOCK_SIZE + i] = sent[q][i]
    <3>1. text = FlattenSeq(read)
      BY <2>4 DEF read
    <3>2. /\ FlattenSeq(read) \in Seq(Item)
          /\ Len(FlattenSeq(read)) = Len(read) * BLOCK_SIZE
          /\ \A q \in 1 .. Len(read) : \A i \in 1 .. BLOCK_SIZE :
               FlattenSeq(read)[(q - 1) * BLOCK_SIZE + i] = read[q][i]
      BY <2>7, FlattenPlaces
    <3> QED
      BY <2>7, <3>1, <3>2
  <2>9. ASSUME NEW k \in 1 .. announced PROVE text[k] = <<"file", k>>
    <3>1. k \in 1 .. r * BLOCK_SIZE
      BY <2>4, <2>5
    <3>2. PICK q \in 1 .. r, i \in 1 .. BLOCK_SIZE : k = (q - 1) * BLOCK_SIZE + i
      BY <3>1, <2>4, PlaceExists
    <3>3. sent[q][i] = <<"file", (q - 1) * BLOCK_SIZE + i>>
      <4>1. q \in 1 .. Len(sent) /\ (q - 1) * BLOCK_SIZE + i <= position
        BY <2>4, <2>6, <3>2
      <4> QED
        BY <4>1, <2>1 DEF SenderOK, SentIsFile
    <3> QED
      BY <2>8, <3>2, <3>3
  <2>10. SubSeq(text, 1, announced) = File(announced)
    <3> DEFINE t == SubSeq(text, 1, announced)
               f == File(announced)
    <3>1. announced \in 0 .. Len(text)
      BY <2>4, <2>5, <2>8
    <3>2. t \in Seq(Item) /\ Len(t) = announced /\ \A k \in 1 .. announced : t[k] = text[k]
      BY <2>4, <2>8, <3>1
    <3>3. /\ f \in Seq(Item) /\ Len(f) = announced
          /\ \A k \in 1 .. announced : f[k] = <<"file", k>>
      BY <2>4 DEF File, Item
    <3> HIDE DEF t, f
    <3>4. \A k \in 1 .. announced : t[k] = f[k]
      BY <2>9, <3>2, <3>3
    <3>5. t = f
      BY <3>2, <3>3, <3>4
    <3> QED
      BY <3>5 DEF t, f
  <2> QED
    BY <2>4, <2>5, <2>8, <2>10
<1> QED
  BY <1>1, TransferInvariant, PTL

\* A client never waits for a block of the file that does not come and leaves
\* nothing of the file in the stream, in front of the next message; if the
\* file has a length below LengthLimit and keeps it.
THEOREM StreamCorrect == TransferSpec => []StreamStaysInStep
PROOF
<1>1. TransferInv => StreamStaysInStep
  <2> SUFFICES ASSUME TransferInv, sender = "done", ~ changed,
                      fileLength \in 0 .. LengthLimit - 1
               PROVE  /\ receiver = "blocks" => Len(stream) >= BLOCK_SIZE * blocksLeft
                      /\ receiver \in {"done", "refused"} => stream = KeyAhead
    BY DEF StreamStaysInStep, KeyAhead
  <2>1. SenderOK /\ ReceiverOK
    BY TransferAssumption DEF TransferInv, NoLength
  <2>2. /\ Len(sent) = BlockCount(announced) /\ Len(sent) \in Nat
        /\ KeyAhead \in Seq(Item)
    <3>1. announced = fileLength
      BY <2>1, AnnouncedIs, TransferAssumption
    <3> QED
      BY <2>1, <3>1, KeyAheadType DEF SenderOK
  <2>3. ASSUME receiver \in {"blocks", "done"}
        PROVE  /\ Len(stream) >= BLOCK_SIZE * blocksLeft
               /\ blocksLeft = 0 => stream = KeyAhead
    <3>1. PICK r \in Nat : HasRead(r)
      BY <2>1, <2>3 DEF ReceiverOK
    <3>2. /\ r \in 0 .. Len(sent) /\ blocksLeft = Len(sent) - r
          /\ stream = Ciphers(r + 1, Len(sent)) \o KeyAhead
      BY <2>2, <3>1 DEF HasRead
    <3>3. /\ Ciphers(r + 1, Len(sent)) \in Seq(Item)
          /\ Len(Ciphers(r + 1, Len(sent))) = blocksLeft * BLOCK_SIZE
      <4>1. /\ r + 1 \in Nat /\ Len(sent) \in Int /\ (r + 1) - 1 <= Len(sent)
            /\ Len(sent) - (r + 1) + 1 = blocksLeft
        BY <2>2, <3>2
      <4> QED
        BY <4>1, CiphersSplit
    <3>4. Len(stream) >= BLOCK_SIZE * blocksLeft
      <4>1. Len(stream) = blocksLeft * BLOCK_SIZE + Len(KeyAhead) /\ Len(KeyAhead) \in Nat
        <5> DEFINE c == Ciphers(r + 1, Len(sent))
        <5>1. c \in Seq(Item) /\ Len(c) = blocksLeft * BLOCK_SIZE /\ stream = c \o KeyAhead
          BY <3>2, <3>3
        <5> HIDE DEF c
        <5>2. Len(c \o KeyAhead) = Len(c) + Len(KeyAhead)
          BY <2>2, <5>1, ConcatenationAt
        <5> QED
          BY <2>2, <5>1, <5>2
      <4>2. blocksLeft * BLOCK_SIZE = BLOCK_SIZE * blocksLeft
            /\ BLOCK_SIZE * blocksLeft \in Int
        BY <2>2, <3>2, TransferAssumption
      <4> QED
        BY <4>1, <4>2
    <3>5. blocksLeft = 0 => stream = KeyAhead
      <4> SUFFICES ASSUME blocksLeft = 0 PROVE stream = KeyAhead
        OBVIOUS
      <4>1. r = Len(sent)
        BY <2>2, <3>2
      <4>2. Ciphers(r + 1, Len(sent)) = <<>>
        BY <4>1, NoCiphers
      <4> QED
        BY <2>2, <3>2, <4>2
    <3> QED
      BY <3>4, <3>5
  <2> QED
    BY <2>1, <2>3 DEF ReceiverOK
<1> QED
  BY <1>1, TransferInvariant, PTL
===============================================================================
