-------------------------- MODULE FileSystemProofs --------------------------
(***************************************************************************)
(* The file table implements the map of FileStore, for every set of names  *)
(* and all limits.  The step from vector to map rests on the names being   *)
(* unique: Table.                                                          *)
(***************************************************************************)
EXTENDS FileSystem, DataLemmas, SequenceTheorems

Entries == [name : ValidNames, contents : Seq(Chars)]

\* A vector of entries with distinct names.
Table(F) ==
  /\ F \in Seq(Entries)
  /\ \A i, j \in DOMAIN F : F[i].name = F[j].name => i = j

-----------------------------------------------------------------------------
(* Vectors with distinct names are maps *)

\* Looking a name up finds its entry.
LEMMA Lookup ==
  ASSUME NEW F, Table(F), NEW i \in DOMAIN F
  PROVE  /\ F[i].name \in Names(F)
         /\ Contents(F)[F[i].name] = F[i].contents
<1> DEFINE n == F[i].name
           j == CHOOSE k \in DOMAIN F : F[k].name = n
<1>1. n \in Names(F)
  BY DEF Names
<1>2. j \in DOMAIN F /\ F[j].name = n
  BY Zenon
<1>3. j = i
  BY <1>2 DEF Table
<1>4. Contents(F)[n] = F[j].contents
  BY <1>1, Zenon DEF Contents
<1> QED BY <1>1, <1>3, <1>4

\* The map has the names of the vector as its domain.
LEMMA IsMap ==
  ASSUME NEW F
  PROVE  DOMAIN Contents(F) = Names(F) /\ Contents(F) = [m \in Names(F) |-> Contents(F)[m]]
<1> DEFINE C(m) == F[CHOOSE i \in DOMAIN F : F[i].name = m].contents
<1>1. Contents(F) = [m \in Names(F) |-> C(m)]
  BY DEF Contents
<1> HIDE DEF C
<1> QED BY <1>1

\* Position finds it too.
LEMMA PositionFound ==
  ASSUME Table(FILES), NEW n \in Names(FILES)
  PROVE  /\ Position(n) \in DOMAIN FILES /\ FILES[Position(n)].name = n
         /\ Contents(FILES)[n] = FILES[Position(n)].contents
<1>1. PICK i \in DOMAIN FILES : FILES[i].name = n
  BY DEF Names
<1>2. \A j \in DOMAIN FILES : FILES[j].name = n => i <= j
  <2>1. \A j \in DOMAIN FILES : FILES[j].name = n => i = j
    BY <1>1 DEF Table
  <2>2. i \in Nat
    BY DEF Table
  <2> QED BY <2>1, <2>2
<1>3. Position(n) \in DOMAIN FILES /\ FILES[Position(n)].name = n
  BY <1>1, <1>2, Zenon DEF Position
<1> QED BY <1>3, Lookup

\* As many names as entries.
LEMMA CountNames ==
  ASSUME NEW F, Table(F)
  PROVE  IsFiniteSet(Names(F)) /\ Cardinality(Names(F)) = Len(F)
<1> DEFINE f == [i \in DOMAIN F |-> F[i].name]
<1>1. DOMAIN F = 1..Len(F) /\ Len(F) \in Nat
  BY DEF Table
<1>2. f \in Bijection(1..Len(F), Names(F))
  BY <1>1 DEF Bijection, Injection, IsInjective, Surjection, Names, Table
<1>3. ExistsBijection(1..Len(F), Names(F))
  BY <1>2 DEF ExistsBijection
<1>4. IsFiniteSet(1..Len(F)) /\ Cardinality(1..Len(F)) = Len(F)
  <2>1. 1 \in Int /\ Len(F) \in Int
    BY <1>1
  <2>2. IsFiniteSet(1..Len(F)) /\ Cardinality(1..Len(F)) = IF 1 > Len(F) THEN 0 ELSE Len(F) - 1 + 1
    BY <2>1, FS_Interval
  <2> QED BY <1>1, <2>2
<1> QED BY <1>3, <1>4, FS_Bijection, Zenon

\* The three changes of the vector, and what they do to names and map.
Pushed(F, n) == Append(F, [name |-> n, contents |-> <<>>])
Removed(F, p) == RemoveAt(F, p)
Written(F, p, t) == [F EXCEPT ![p].contents = t]

IsPush(F, n, G) ==
  /\ Table(G) /\ Len(G) = Len(F) + 1
  /\ Names(G) = Names(F) \cup {n}
  /\ Contents(G) = [m \in Names(F) \cup {n} |-> IF m = n THEN <<>> ELSE Contents(F)[m]]
  /\ \A i \in DOMAIN G : (i \in DOMAIN F /\ G[i] = F[i]) \/ G[i].contents = <<>>

IsRemoval(F, n, G) ==
  /\ Table(G) /\ Len(G) = Len(F) - 1
  /\ Names(G) = Names(F) \ {n}
  /\ Contents(G) = [m \in Names(F) \ {n} |-> Contents(F)[m]]
  /\ \A i \in DOMAIN G : \E j \in DOMAIN F : G[i] = F[j]

IsWrite(F, n, t, G) ==
  /\ Table(G) /\ Len(G) = Len(F)
  /\ Names(G) = Names(F)
  /\ Contents(G) = [Contents(F) EXCEPT ![n] = t]
  /\ \A i \in DOMAIN G : i \in DOMAIN F /\ (G[i] = F[i] \/ G[i].contents = t)

\* Vec::push of a new name.
LEMMA PushTable ==
  ASSUME NEW F, Table(F), NEW n \in ValidNames, n \notin Names(F), NEW G,
         G = Pushed(F, n)
  PROVE  IsPush(F, n, G)
<1> DEFINE e == [name |-> n, contents |-> <<>>]
<1>1. F \in Seq(Entries) /\ Len(F) \in Nat /\ DOMAIN F = 1..Len(F)
  BY DEF Table
<1>2. e \in Entries
  BY DEF Entries
<1>3. /\ G \in Seq(Entries) /\ Len(G) = Len(F) + 1 /\ DOMAIN G = 1..(Len(F) + 1)
      /\ \A i \in 1..Len(F) : G[i] = F[i]
      /\ G[Len(F) + 1] = e
  BY <1>1, <1>2 DEF Pushed
<1>4. \A i \in DOMAIN F : F[i].name # n
  BY DEF Names
<1>5. Table(G)
  <2> SUFFICES ASSUME NEW i \in DOMAIN G, NEW j \in DOMAIN G, G[i].name = G[j].name
               PROVE  i = j
    BY <1>3 DEF Table
  <2>1. CASE i \in DOMAIN F /\ j \in DOMAIN F
    BY <2>1, <1>1, <1>3 DEF Table
  <2>2. CASE i = Len(F) + 1 /\ j \in DOMAIN F
    BY <2>2, <1>1, <1>3, <1>4
  <2>3. CASE i \in DOMAIN F /\ j = Len(F) + 1
    BY <2>3, <1>1, <1>3, <1>4
  <2> QED BY <2>1, <2>2, <2>3, <1>1, <1>3
<1>6. Names(G) = Names(F) \cup {n}
  <2>1. ASSUME NEW m \in Names(G) PROVE m \in Names(F) \cup {n}
    <3>1. PICK i \in DOMAIN G : G[i].name = m
      BY <2>1 DEF Names
    <3>2. CASE i \in DOMAIN F
      BY <3>1, <3>2, <1>1, <1>3 DEF Names
    <3>3. CASE i = Len(F) + 1
      BY <3>1, <3>3, <1>3
    <3> QED BY <3>2, <3>3, <1>1, <1>3
  <2>2. n \in Names(G)
    <3>1. Len(F) + 1 \in DOMAIN G /\ G[Len(F) + 1].name = n
      BY <1>1, <1>3
    <3> QED BY <3>1 DEF Names
  <2>3. ASSUME NEW m \in Names(F) PROVE m \in Names(G)
    <3>1. PICK i \in DOMAIN F : F[i].name = m
      BY <2>3 DEF Names
    <3>2. i \in DOMAIN G /\ G[i].name = m
      BY <3>1, <1>1, <1>3
    <3> QED BY <3>2 DEF Names
  <2> QED BY <2>1, <2>2, <2>3
<1> DEFINE g == [m \in Names(F) \cup {n} |-> IF m = n THEN <<>> ELSE Contents(F)[m]]
<1>7. ASSUME NEW m \in Names(F) \cup {n} PROVE Contents(G)[m] = g[m]
  <2>1. CASE m = n
    <3>1. Len(F) + 1 \in DOMAIN G /\ G[Len(F) + 1].name = n /\ G[Len(F) + 1].contents = <<>>
      BY <1>1, <1>3
    <3>2. Contents(G)[n] = <<>>
      BY <3>1, <1>5, Lookup
    <3> QED BY <2>1, <3>2
  <2>2. CASE m \in Names(F)
    <3>1. PICK i \in DOMAIN F : F[i].name = m
      BY <2>2 DEF Names
    <3>2. m # n
      BY <2>2
    <3>3. i \in DOMAIN G /\ G[i] = F[i]
      BY <3>1, <1>1, <1>3
    <3>4. Contents(G)[m] = G[i].contents
      BY <3>1, <3>3, <1>5, Lookup
    <3>5. Contents(F)[m] = F[i].contents
      BY <3>1, Lookup
    <3> QED BY <3>2, <3>3, <3>4, <3>5
  <2> QED BY <2>1, <2>2
<1>8. Contents(G) = g
  <2>1. Contents(G) = [m \in Names(F) \cup {n} |-> Contents(G)[m]]
    BY <1>6, IsMap
  <2> QED BY <2>1, <1>7
<1>9. \A i \in DOMAIN G : (i \in DOMAIN F /\ G[i] = F[i]) \/ G[i].contents = <<>>
  BY <1>1, <1>3
<1> QED BY <1>3, <1>5, <1>6, <1>8, <1>9 DEF IsPush

\* Vec::remove: the elements after the removed one move down by one place.
LEMMA RemoveAtElements ==
  ASSUME NEW S, NEW ts \in Seq(S), NEW i \in 1 .. Len(ts)
  PROVE  /\ RemoveAt(ts, i) \in Seq(S)
         /\ Len(RemoveAt(ts, i)) = Len(ts) - 1
         /\ \A j \in 1 .. Len(ts) - 1 :
              RemoveAt(ts, i)[j] = IF j < i THEN ts[j] ELSE ts[j + 1]
<1> DEFINE a == SubSeq(ts, 1, i - 1)
           b == SubSeq(ts, i + 1, Len(ts))
<1>1. a \in Seq(S) /\ Len(a) = i - 1 /\ \A j \in 1 .. i - 1 : a[j] = ts[j]
  OBVIOUS
<1>2. /\ b \in Seq(S) /\ Len(b) = Len(ts) - i
      /\ \A j \in 1 .. Len(ts) - i : b[j] = ts[j + i]
  OBVIOUS
<1>3. RemoveAt(ts, i) = a \o b
  BY DEF RemoveAt
<1> HIDE DEF a, b
<1>4. /\ a \o b \in Seq(S)
      /\ Len(a \o b) = Len(a) + Len(b)
      /\ \A j \in 1 .. Len(a) + Len(b) :
           (a \o b)[j] = IF j <= Len(a) THEN a[j] ELSE b[j - Len(a)]
  BY <1>1, <1>2, ConcatProperties, Zenon
<1>5. Len(a \o b) = Len(ts) - 1
  BY <1>1, <1>2, <1>4
<1>6. ASSUME NEW j \in 1 .. Len(ts) - 1
      PROVE  (a \o b)[j] = IF j < i THEN ts[j] ELSE ts[j + 1]
  <2>1. CASE j < i
    <3>1. j \in 1 .. Len(a) + Len(b) /\ j <= Len(a) /\ j \in 1 .. i - 1
      BY <1>1, <1>2, <2>1
    <3> QED BY <3>1, <1>1, <1>4, <2>1
  <2>2. CASE ~(j < i)
    <3>1. /\ j \in 1 .. Len(a) + Len(b) /\ ~(j <= Len(a))
          /\ j - Len(a) \in 1 .. Len(ts) - i /\ j - Len(a) + i = j + 1
      BY <1>1, <1>2, <2>2
    <3>2. (a \o b)[j] = b[j - Len(a)]
      BY <3>1, <1>4
    <3> QED BY <3>1, <3>2, <1>2, <2>2, Zenon
  <2> QED BY <2>1, <2>2, Zenon
<1> QED BY <1>3, <1>4, <1>5, <1>6

\* Vec::remove of the entry of a name.
LEMMA RemoveTable ==
  ASSUME NEW F, Table(F), NEW p \in DOMAIN F, NEW G, G = Removed(F, p)
  PROVE  IsRemoval(F, F[p].name, G)
<1> DEFINE n == F[p].name
           From(i) == IF i < p THEN i ELSE i + 1
<1>1. F \in Seq(Entries) /\ Len(F) \in Nat /\ DOMAIN F = 1..Len(F) /\ p \in 1..Len(F)
  BY DEF Table
<1>2. /\ G \in Seq(Entries) /\ Len(G) = Len(F) - 1 /\ DOMAIN G = 1..(Len(F) - 1)
      /\ \A i \in 1..(Len(F) - 1) : G[i] = IF i < p THEN F[i] ELSE F[i + 1]
  <2>1. /\ RemoveAt(F, p) \in Seq(Entries) /\ Len(RemoveAt(F, p)) = Len(F) - 1
        /\ \A i \in 1..(Len(F) - 1) : RemoveAt(F, p)[i] = IF i < p THEN F[i] ELSE F[i + 1]
    BY <1>1, RemoveAtElements
  <2> QED BY <2>1 DEF Removed
<1>3. \A i \in DOMAIN G : From(i) \in DOMAIN F /\ From(i) # p /\ G[i] = F[From(i)]
  BY <1>1, <1>2
<1>4. \A k \in DOMAIN F : k # p => \E i \in DOMAIN G : From(i) = k
  <2> SUFFICES ASSUME NEW k \in DOMAIN F, k # p PROVE \E i \in DOMAIN G : From(i) = k
    OBVIOUS
  <2>1. CASE k < p
    <3>1. k \in DOMAIN G /\ From(k) = k
      BY <2>1, <1>1, <1>2
    <3> QED BY <3>1
  <2>2. CASE k > p
    <3>1. k - 1 \in DOMAIN G /\ From(k - 1) = k
      BY <2>2, <1>1, <1>2
    <3> QED BY <3>1
  <2> QED BY <2>1, <2>2, <1>1
<1>5. \A i, j \in DOMAIN G : From(i) = From(j) => i = j
  BY <1>1, <1>2
<1> HIDE DEF From
<1>6. Table(G)
  <2> SUFFICES ASSUME NEW i \in DOMAIN G, NEW j \in DOMAIN G, G[i].name = G[j].name
               PROVE  i = j
    BY <1>2 DEF Table
  <2>1. From(i) = From(j)
    BY <1>3 DEF Table
  <2> QED BY <2>1, <1>5
<1>7. Names(G) = Names(F) \ {n}
  <2>1. ASSUME NEW m \in Names(G) PROVE m \in Names(F) \ {n}
    <3>1. PICK i \in DOMAIN G : G[i].name = m
      BY <2>1 DEF Names
    <3>2. From(i) \in DOMAIN F /\ F[From(i)].name = m /\ From(i) # p
      BY <3>1, <1>3
    <3>3. m # n
      BY <3>2 DEF Table
    <3> QED BY <3>2, <3>3 DEF Names
  <2>2. ASSUME NEW m \in Names(F), m # n PROVE m \in Names(G)
    <3>1. PICK k \in DOMAIN F : F[k].name = m
      BY <2>2 DEF Names
    <3>2. PICK i \in DOMAIN G : From(i) = k
      BY <3>1, <2>2, <1>4
    <3>3. G[i].name = m
      BY <3>1, <3>2, <1>3
    <3> QED BY <3>3 DEF Names
  <2> QED BY <2>1, <2>2
<1>8. ASSUME NEW m \in Names(F) \ {n} PROVE Contents(G)[m] = Contents(F)[m]
  <2>1. PICK i \in DOMAIN G : G[i].name = m
    BY <1>7, <1>8 DEF Names
  <2>2. Contents(G)[m] = G[i].contents
    BY <2>1, <1>6, Lookup
  <2>3. From(i) \in DOMAIN F /\ G[i] = F[From(i)]
    BY <2>1, <1>3
  <2>4. Contents(F)[m] = F[From(i)].contents
    BY <2>1, <2>3, Lookup
  <2> QED BY <2>2, <2>3, <2>4
<1>9. Contents(G) = [m \in Names(F) \ {n} |-> Contents(F)[m]]
  <2>1. Contents(G) = [m \in Names(F) \ {n} |-> Contents(G)[m]]
    BY <1>7, IsMap
  <2> QED BY <2>1, <1>8
<1>10. \A i \in DOMAIN G : \E j \in DOMAIN F : G[i] = F[j]
  BY <1>3
<1> QED BY <1>2, <1>6, <1>7, <1>9, <1>10 DEF IsRemoval

\* Replacing the text of one entry.
LEMMA WriteTable ==
  ASSUME NEW F, Table(F), NEW p \in DOMAIN F, NEW t \in Seq(Chars), NEW G,
         G = Written(F, p, t)
  PROVE  IsWrite(F, F[p].name, t, G)
<1> DEFINE n == F[p].name
<1>1. F \in Seq(Entries) /\ Len(F) \in Nat /\ DOMAIN F = 1..Len(F)
  BY DEF Table
<1>2. /\ G \in Seq(Entries) /\ Len(G) = Len(F) /\ DOMAIN G = DOMAIN F
      /\ \A i \in DOMAIN F : G[i].name = F[i].name
      /\ \A i \in DOMAIN F : i # p => G[i] = F[i]
      /\ G[p].contents = t
  <2> DEFINE e == [F[p] EXCEPT !.contents = t]
  <2>1. F[p] \in Entries
    BY <1>1
  <2>2. e \in Entries /\ e.name = F[p].name /\ e.contents = t
    BY <2>1 DEF Entries
  <2>3. G = [F EXCEPT ![p] = e]
    BY DEF Written
  <2> HIDE DEF e
  <2> QED BY <1>1, <2>2, <2>3
<1>3. Table(G)
  BY <1>2 DEF Table
<1>4. Names(G) = Names(F)
  BY <1>2 DEF Names
<1>5. ASSUME NEW m \in Names(F)
      PROVE  Contents(G)[m] = IF m = n THEN t ELSE Contents(F)[m]
  <2>1. PICK i \in DOMAIN F : F[i].name = m
    BY <1>5 DEF Names
  <2>2. Contents(G)[m] = G[i].contents
    <3>1. i \in DOMAIN G /\ G[i].name = m
      BY <2>1, <1>2
    <3> QED BY <3>1, <1>3, Lookup
  <2>3. Contents(F)[m] = F[i].contents
    BY <2>1, Lookup
  <2>4. m = n <=> i = p
    BY <2>1 DEF Table
  <2> QED BY <2>2, <2>3, <2>4, <1>2
<1>6. Contents(G) = [Contents(F) EXCEPT ![n] = t]
  <2>1. Contents(G) = [m \in Names(F) |-> Contents(G)[m]]
    BY <1>4, IsMap
  <2>2. [Contents(F) EXCEPT ![n] = t] = [m \in Names(F) |-> IF m = n THEN t ELSE Contents(F)[m]]
    BY IsMap
  <2> QED BY <2>1, <2>2, <1>5
<1>7. \A i \in DOMAIN G : i \in DOMAIN F /\ (G[i] = F[i] \/ G[i].contents = t)
  BY <1>2
<1> QED BY <1>2, <1>3, <1>4, <1>6, <1>7 DEF IsWrite

-----------------------------------------------------------------------------
(* The invariant *)

IInv == TypeOK /\ TableInvariant

\* The table is empty at boot.
LEMMA InitIInv == Init => IInv
BY FileAssumption DEF Init, IInv, TypeOK, TableInvariant

\* What the invariant says of the table.
LEMMA TableOf == IInv => Table(FILES) /\ Len(FILES) \in Nat
BY DEF IInv, TypeOK, TableInvariant, Table, Entries

\* touch, when create_file accepts.
LEMMA Touched ==
  ASSUME IInv, NEW name, create_file(name) = "Ok",
         FILES' = Append(FILES, [name |-> name, contents |-> <<>>])
  PROVE  /\ IsPush(FILES, name, FILES')
         /\ name \in ValidNames /\ name \notin Names(FILES) /\ Len(FILES) < MAX_FILES
<1>1. name \in ValidNames /\ name \notin Names(FILES) /\ Len(FILES) < MAX_FILES
  BY TableOf, FileAssumption DEF create_file, is_valid_name
<1>2. PICK F, G : F = FILES /\ G = FILES'
  OBVIOUS
<1>3. Table(F) /\ name \in ValidNames /\ name \notin Names(F) /\ G = Pushed(F, name)
  BY <1>1, <1>2, TableOf DEF Pushed
<1>4. IsPush(F, name, G)
  BY <1>3, PushTable
<1> QED BY <1>1, <1>2, <1>4

\* rm, when the file is there.
LEMMA Dropped ==
  ASSUME IInv, NEW name, name \in Names(FILES), FILES' = RemoveAt(FILES, Position(name))
  PROVE  IsRemoval(FILES, name, FILES')
<1>1. PICK F, G, p : F = FILES /\ G = FILES' /\ p = Position(name)
  OBVIOUS
<1>2. Table(F) /\ p \in DOMAIN F /\ F[p].name = name /\ G = Removed(F, p)
  BY <1>1, TableOf, PositionFound DEF Removed
<1>3. IsRemoval(F, F[p].name, G)
  BY <1>2, RemoveTable
<1> QED BY <1>1, <1>2, <1>3

\* write, when write_file accepts.
LEMMA Rewritten ==
  ASSUME IInv, NEW name, NEW text \in Texts, write_file(name, text) = "Ok",
         FILES' = [FILES EXCEPT ![Position(name)].contents = text]
  PROVE  /\ IsWrite(FILES, name, text, FILES')
         /\ name \in Names(FILES) /\ Len(text) \in Nat /\ Len(text) <= MAX_FILE_SIZE
<1>1. text \in Seq(Chars) /\ Len(text) \in Nat
  BY DEF Texts, BoundedSeq, SeqOf
<1>2. name \in Names(FILES) /\ Len(text) <= MAX_FILE_SIZE
  BY <1>1, FileAssumption DEF write_file
<1>3. PICK F, G, p : F = FILES /\ G = FILES' /\ p = Position(name)
  OBVIOUS
<1>4. Table(F) /\ p \in DOMAIN F /\ F[p].name = name /\ G = Written(F, p, text)
  BY <1>2, <1>3, TableOf, PositionFound DEF Written
<1>5. IsWrite(F, F[p].name, text, G)
  BY <1>1, <1>4, WriteTable
<1> QED BY <1>1, <1>2, <1>3, <1>4, <1>5

\* Every command keeps names unique and the limits.
LEMMA NextKeepsIInv == IInv /\ [Next]_vars => IInv'
<1> SUFFICES ASSUME IInv, [Next]_vars PROVE IInv'
  OBVIOUS
<1>1. Table(FILES) /\ Len(FILES) \in Nat /\ MAX_FILES \in Nat /\ MAX_FILE_SIZE \in Nat
  BY TableOf, FileAssumption
<1>2. /\ user \in {"Enos", "Guest"} /\ Len(FILES) <= MAX_FILES
      /\ \A i \in DOMAIN FILES : Len(FILES[i].contents) <= MAX_FILE_SIZE
  BY DEF IInv, TypeOK, TableInvariant
<1>3. ASSUME Table(FILES'), user' \in {"Enos", "Guest"}, Len(FILES') <= MAX_FILES,
             \A i \in DOMAIN FILES' : Len(FILES'[i].contents) <= MAX_FILE_SIZE
      PROVE  IInv'
  BY <1>3 DEF IInv, TypeOK, TableInvariant, Table, Entries
<1>4. CASE UNCHANGED FILES /\ user' \in {"Enos", "Guest"}
  BY <1>1, <1>2, <1>3, <1>4
<1>5. ASSUME NEW name \in Operands, command_touch(name) PROVE IInv'
  <2>1. CASE UNCHANGED <<FILES, user>>
    BY <2>1, <1>2, <1>4
  <2>2. CASE create_file(name) = "Ok" /\ FILES' = Append(FILES, [name |-> name, contents |-> <<>>])
             /\ UNCHANGED user
    <3>1. IsPush(FILES, name, FILES') /\ Len(FILES) < MAX_FILES
      BY <2>2, Touched
    <3>2. Table(FILES') /\ Len(FILES') <= MAX_FILES
      BY <3>1, <1>1 DEF IsPush
    <3>3. \A i \in DOMAIN FILES' : Len(FILES'[i].contents) <= MAX_FILE_SIZE
      BY <3>1, <1>1, <1>2 DEF IsPush
    <3> QED BY <2>2, <3>2, <3>3, <1>2, <1>3
  <2> QED BY <1>5, <2>1, <2>2 DEF command_touch, Say
<1>6. ASSUME NEW name \in Operands, command_rm(name) PROVE IInv'
  <2>1. CASE UNCHANGED <<FILES, user>>
    BY <2>1, <1>2, <1>4
  <2>2. CASE name \in Names(FILES) /\ FILES' = RemoveAt(FILES, Position(name)) /\ UNCHANGED user
    <3>1. IsRemoval(FILES, name, FILES')
      BY <2>2, Dropped
    <3>2. Table(FILES') /\ Len(FILES') <= MAX_FILES
      BY <3>1, <1>1, <1>2 DEF IsRemoval
    <3>3. \A i \in DOMAIN FILES' : Len(FILES'[i].contents) <= MAX_FILE_SIZE
      BY <3>1, <1>2 DEF IsRemoval
    <3> QED BY <2>2, <3>2, <3>3, <1>2, <1>3
  <2> QED BY <1>6, <2>1, <2>2 DEF command_rm, Say
<1>7. ASSUME NEW name \in Operands, NEW text \in Texts, command_write(name, text) PROVE IInv'
  <2>1. CASE UNCHANGED <<FILES, user>>
    BY <2>1, <1>2, <1>4
  <2>2. CASE write_file(name, text) = "Ok"
             /\ FILES' = [FILES EXCEPT ![Position(name)].contents = text] /\ UNCHANGED user
    <3>1. IsWrite(FILES, name, text, FILES') /\ Len(text) <= MAX_FILE_SIZE
      BY <2>2, Rewritten
    <3>2. Table(FILES') /\ Len(FILES') <= MAX_FILES
      BY <3>1, <1>2 DEF IsWrite
    <3>3. \A i \in DOMAIN FILES' : Len(FILES'[i].contents) <= MAX_FILE_SIZE
      BY <3>1, <1>2 DEF IsWrite
    <3> QED BY <2>2, <3>2, <3>3, <1>2, <1>3
  <2> QED BY <1>7, <2>1, <2>2 DEF command_write, Say
<1>8. ASSUME NEW name \in Operands, command_cat(name) PROVE IInv'
  BY <1>8, <1>2, <1>4 DEF command_cat, Say
<1>9. CASE Usage \/ command_ls \/ command_fsinfo \/ command_login \/ command_logout
  BY <1>9, <1>2, <1>4 DEF Usage, command_ls, command_fsinfo, command_login, command_logout, Say
<1>10. CASE UNCHANGED vars
  BY <1>10, <1>2, <1>4 DEF vars
<1> QED BY <1>5, <1>6, <1>7, <1>8, <1>9, <1>10 DEF Next

\* Names are unique and all limits hold, whatever commands are typed.
THEOREM Inductive == Spec => []IInv
BY InitIInv, NextKeepsIInv, PTL DEF Spec

\* The table never holds two files of one name, too many files or too long ones.
THEOREM TableIsSound == Spec => []TableInvariant
<1>1. IInv => TableInvariant
  BY DEF IInv
<1> QED BY <1>1, Inductive, PTL

-----------------------------------------------------------------------------
(* Refinement *)

\* FileStore's Cardinality is the Cardinality of this module.
LEMMA SameCardinality == \A S : Store!Cardinality(S) = Cardinality(S)
BY DEF Cardinality, Store!Cardinality

\* Both specifications see the same names, and count them alike.
LEMMA SameNames ==
  IInv => /\ DOMAIN Contents(FILES) = Names(FILES)
          /\ Cardinality(DOMAIN Contents(FILES)) = Len(FILES)
BY TableOf, IsMap, CountNames

\* ls prints the names and sizes of the map.
LEMMA SameListing ==
  IInv => list_files = {<<n, Len(Contents(FILES)[n])>> : n \in DOMAIN Contents(FILES)}
<1> SUFFICES ASSUME IInv
             PROVE  list_files = {<<n, Len(Contents(FILES)[n])>> : n \in Names(FILES)}
  BY SameNames
<1>1. \A i \in DOMAIN FILES :
        FILES[i].name \in Names(FILES) /\ Contents(FILES)[FILES[i].name] = FILES[i].contents
  BY TableOf, Lookup
<1>2. \A n \in Names(FILES) : \E i \in DOMAIN FILES : n = FILES[i].name
  BY DEF Names
<1> QED BY <1>1, <1>2 DEF list_files

\* The empty vector is the empty map.
LEMMA InitImplements == Init => Store!Init
<1> SUFFICES ASSUME Init PROVE Contents(FILES) = [n \in {} |-> <<>>]
  BY DEF Init, Store!Init
<1>1. Names(FILES) = {}
  BY DEF Init, Names
<1>2. Contents(FILES) = [n \in {} |-> Contents(FILES)[n]]
  BY <1>1, IsMap
<1> QED BY <1>2

\* Every command is the step of the map that gives the same answer.
LEMMA NextImplements == IInv /\ [Next]_vars => [Store!Next]_Store!vars
<1> SUFFICES ASSUME IInv, [Next]_vars PROVE [Store!Next]_Store!vars
  OBVIOUS
<1>1. /\ DOMAIN Contents(FILES) = Names(FILES)
      /\ Cardinality(DOMAIN Contents(FILES)) = Len(FILES)
      /\ Len(FILES) \in Nat /\ MAX_FILES \in Nat /\ MAX_FILE_SIZE \in Nat
  BY SameNames, TableOf, FileAssumption
<1>2. ASSUME NEW r, Say(r) PROVE Store!Answer(r)
  BY <1>2 DEF Say, Store!Answer
<1>3. ASSUME NEW name \in Operands, command_touch(name) PROVE Store!touch(name)
  <2>1. CASE create_file(name) # "Ok" /\ Say(<<create_file(name)>>)
    <3>1. Store!Answer(<<create_file(name)>>)
      BY <2>1, <1>2
    <3>2. CASE name \notin ValidNames
      BY <3>1, <3>2 DEF Store!touch, create_file, is_valid_name
    <3>3. CASE name \in ValidNames /\ name \in Names(FILES)
      BY <3>1, <3>3, <1>1 DEF Store!touch, create_file, is_valid_name
    <3>4. CASE name \in ValidNames /\ name \notin Names(FILES)
      <4>1. Len(FILES) >= MAX_FILES /\ create_file(name) = "file table is full"
        BY <2>1, <3>4 DEF create_file, is_valid_name
      <4>2. Cardinality(DOMAIN Contents(FILES)) >= MAX_FILES
        BY <4>1, <1>1, Zenon
      <4> QED BY <3>1, <3>4, <4>1, <4>2, <1>1, SameCardinality, Zenon DEF Store!touch
    <3> QED BY <3>2, <3>3, <3>4
  <2>2. CASE /\ create_file(name) = "Ok"
             /\ FILES' = Append(FILES, [name |-> name, contents |-> <<>>])
             /\ reply' = <<"Created", name>> /\ UNCHANGED user
    <3>1. /\ IsPush(FILES, name, FILES')
          /\ name \in ValidNames /\ name \notin Names(FILES) /\ Len(FILES) < MAX_FILES
      BY <2>2, Touched
    <3>2. Contents(FILES') = [m \in DOMAIN Contents(FILES) \cup {name} |->
                                IF m = name THEN <<>> ELSE Contents(FILES)[m]]
      BY <3>1, <1>1 DEF IsPush
    <3>3. Cardinality(DOMAIN Contents(FILES)) < MAX_FILES
      BY <3>1, <1>1, Zenon
    <3>4. name \in ValidNames \ DOMAIN Contents(FILES)
      BY <3>1, <1>1
    <3> QED BY <2>2, <3>2, <3>3, <3>4, SameCardinality, Zenon DEF Store!touch
  <2> QED BY <1>3, <2>1, <2>2 DEF command_touch
<1>4. ASSUME NEW name \in Operands, command_rm(name) PROVE Store!rm(name)
  <2>1. CASE ~is_root /\ Say(<<"Permission denied">>)
    BY <2>1, <1>2 DEF Store!rm, is_root
  <2>2. CASE is_root /\ name \notin Names(FILES) /\ Say(<<"file not found">>)
    BY <2>2, <1>1, <1>2 DEF Store!rm, is_root
  <2>3. CASE /\ is_root /\ name \in Names(FILES)
             /\ FILES' = RemoveAt(FILES, Position(name))
             /\ reply' = <<"Deleted", name>> /\ UNCHANGED user
    <3>1. IsRemoval(FILES, name, FILES')
      BY <2>3, Dropped
    <3>2. Contents(FILES') = [m \in DOMAIN Contents(FILES) \ {name} |-> Contents(FILES)[m]]
      BY <3>1, <1>1 DEF IsRemoval
    <3> QED BY <2>3, <3>2, <1>1 DEF Store!rm, is_root
  <2> QED BY <1>4, <2>1, <2>2, <2>3 DEF command_rm
<1>5. ASSUME NEW name \in Operands, NEW text \in Texts, command_write(name, text)
      PROVE  Store!write(name, text)
  <2>1. Len(text) \in Nat
    BY DEF Texts, BoundedSeq, SeqOf
  <2>2. CASE write_file(name, text) # "Ok" /\ Say(<<write_file(name, text)>>)
    <3>1. Store!Answer(<<write_file(name, text)>>)
      BY <2>2, <1>2
    <3>2. CASE Len(text) > MAX_FILE_SIZE
      BY <3>1, <3>2 DEF Store!write, write_file
    <3>3. CASE ~(Len(text) > MAX_FILE_SIZE)
      <4>1. Len(text) <= MAX_FILE_SIZE
        BY <2>1, <3>3, <1>1
      <4>2. name \notin Names(FILES) /\ write_file(name, text) = "file not found"
        BY <2>2, <3>3 DEF write_file
      <4> QED BY <3>1, <4>1, <4>2, <1>1, Zenon DEF Store!write
    <3> QED BY <3>2, <3>3
  <2>3. CASE /\ write_file(name, text) = "Ok"
             /\ FILES' = [FILES EXCEPT ![Position(name)].contents = text]
             /\ reply' = <<"Written", name>> /\ UNCHANGED user
    <3>1. /\ IsWrite(FILES, name, text, FILES')
          /\ name \in Names(FILES) /\ Len(text) <= MAX_FILE_SIZE
      BY <2>3, Rewritten
    <3>2. Contents(FILES') = [Contents(FILES) EXCEPT ![name] = text]
      BY <3>1 DEF IsWrite
    <3> QED BY <2>3, <3>1, <3>2, <1>1 DEF Store!write
  <2> QED BY <1>5, <2>2, <2>3 DEF command_write
<1>6. ASSUME NEW name \in Operands, command_cat(name) PROVE Store!cat(name)
  <2>1. CASE name \notin Names(FILES) /\ Say(<<"file not found">>)
    BY <2>1, <1>1, <1>2 DEF Store!cat
  <2>2. CASE name \in Names(FILES) /\ Say(<<"text", FILES[Position(name)].contents>>)
    <3>1. Contents(FILES)[name] = FILES[Position(name)].contents
      BY <2>2, TableOf, PositionFound
    <3>2. Store!Answer(<<"text", Contents(FILES)[name]>>)
      BY <2>2, <3>1 DEF Say, Store!Answer
    <3> QED BY <2>2, <3>2, <1>1 DEF Store!cat
  <2> QED BY <1>6, <2>1, <2>2 DEF command_cat
<1>7. ASSUME command_ls PROVE Store!ls
  <2>1. Say(<<"files", {<<n, Len(Contents(FILES)[n])>> : n \in DOMAIN Contents(FILES)}>>)
    BY <1>7, SameListing DEF command_ls
  <2> QED BY <2>1 DEF Say, Store!ls, Store!Answer
<1>8. ASSUME command_fsinfo PROVE Store!fsinfo
  <2>1. Say(<<"count", Cardinality(DOMAIN Contents(FILES))>>)
    BY <1>8, <1>1, Zenon DEF command_fsinfo
  <2>2. Store!Answer(<<"count", Cardinality(DOMAIN Contents(FILES))>>)
    BY <2>1, Zenon DEF Say, Store!Answer
  <2> QED BY <2>2, SameCardinality, Zenon DEF Store!fsinfo
<1>9. ASSUME command_logout PROVE Store!logout
  BY <1>9 DEF command_logout, Store!logout
<1>10. ASSUME command_login PROVE Store!login \/ Store!Answer(<<"unknown user">>)
  BY <1>10, <1>2 DEF command_login, Store!login
<1>11. ASSUME Usage PROVE Store!Answer(<<"Usage">>)
  BY <1>11, <1>2 DEF Usage
<1>12. ASSUME UNCHANGED vars PROVE UNCHANGED Store!vars
  BY <1>12 DEF vars, Store!vars
<1>13. Store!Operands = Operands
  BY DEF Operands, Store!Operands
<1> QED
  BY <1>3, <1>4, <1>5, <1>6, <1>7, <1>8, <1>9, <1>10, <1>11, <1>12, <1>13
  DEF Next, Store!Next

\* The vector, its linear searches and the shell's root check behave as a map
\* from names to texts that answers every command the same way.
THEOREM Refinement == Spec => ImplementsStore
BY Inductive, InitImplements, NextImplements, PTL DEF Spec, ImplementsStore, Store!Spec

-----------------------------------------------------------------------------
(* Persistence *)

\* The step fact behind FilesPersist.
LEMMA NextPersists ==
  ASSUME IInv, [Next]_vars, NEW n \in Names(FILES)
  PROVE  \/ n \in Names(FILES') /\ Contents(FILES')[n] = Contents(FILES)[n]
         \/ n \in Names(FILES') /\ reply' = <<"Written", n>>
         \/ user = "Enos" /\ reply' = <<"Deleted", n>>
<1>1. CASE UNCHANGED FILES
  BY <1>1
<1>2. ASSUME NEW name \in Operands, command_touch(name), FILES' # FILES
      PROVE  n \in Names(FILES') /\ Contents(FILES')[n] = Contents(FILES)[n]
  <2>1. IsPush(FILES, name, FILES') /\ name \notin Names(FILES)
    BY <1>2, Touched DEF command_touch, Say
  <2> QED BY <2>1 DEF IsPush
<1>3. ASSUME NEW name \in Operands, command_rm(name), FILES' # FILES
      PROVE  \/ n \in Names(FILES') /\ Contents(FILES')[n] = Contents(FILES)[n]
             \/ user = "Enos" /\ reply' = <<"Deleted", n>>
  <2>1. IsRemoval(FILES, name, FILES') /\ user = "Enos" /\ reply' = <<"Deleted", name>>
    BY <1>3, Dropped DEF command_rm, Say, is_root
  <2> QED BY <2>1 DEF IsRemoval
<1>4. ASSUME NEW name \in Operands, NEW text \in Texts, command_write(name, text), FILES' # FILES
      PROVE  \/ n \in Names(FILES') /\ Contents(FILES')[n] = Contents(FILES)[n]
             \/ n \in Names(FILES') /\ reply' = <<"Written", n>>
  <2>1. IsWrite(FILES, name, text, FILES') /\ reply' = <<"Written", name>>
    BY <1>4, Rewritten DEF command_write, Say
  <2>2. DOMAIN Contents(FILES) = Names(FILES)
    BY SameNames
  <2> QED BY <2>1, <2>2 DEF IsWrite
<1>5. CASE \E name \in Operands : command_cat(name)
  BY <1>5, <1>1 DEF command_cat, Say
<1>6. CASE Usage \/ command_ls \/ command_fsinfo \/ command_login \/ command_logout \/ UNCHANGED vars
  BY <1>6, <1>1 DEF Usage, command_ls, command_fsinfo, command_login, command_logout, Say, vars
<1> QED BY <1>1, <1>2, <1>3, <1>4, <1>5, <1>6 DEF Next

\* No command loses or changes a file it does not report on.
THEOREM Persistence == Spec => FilesPersist
<1>1. IInv /\ [Next]_vars =>
        [\A n \in Names(FILES) :
           \/ n \in Names(FILES') /\ Contents(FILES')[n] = Contents(FILES)[n]
           \/ n \in Names(FILES') /\ reply' = <<"Written", n>>
           \/ user = "Enos" /\ reply' = <<"Deleted", n>>]_vars
  BY NextPersists
<1> QED BY <1>1, Inductive, PTL DEF Spec, FilesPersist

-----------------------------------------------------------------------------
(* fsinfo's total *)

\* How many bytes the entries of F hold, by place and by name.
SizesAt(F) == [i \in DOMAIN F |-> Len(F[i].contents)]
SizesOf(F) == [n \in Names(F) |-> Len(Contents(F)[n])]

\* The entries of a table are finitely many, and so are its names.
LEMMA Sizes ==
  ASSUME NEW F, Table(F)
  PROVE  /\ IsFiniteSet(DOMAIN F) /\ IsFiniteSet(Names(F))
         /\ \A i \in DOMAIN F : SizesAt(F)[i] = Len(F[i].contents) /\ SizesAt(F)[i] \in Int
         /\ \A n \in Names(F) : SizesOf(F)[n] \in Int
<1>1. F \in Seq(Entries) /\ Len(F) \in Nat /\ DOMAIN F = 1 .. Len(F)
  BY DEF Table
<1>2. IsFiniteSet(DOMAIN F)
  BY <1>1, FS_Interval
<1>3. IsFiniteSet(Names(F))
  BY CountNames
<1>4. \A i \in DOMAIN F : Len(F[i].contents) \in Int
  BY <1>1 DEF Entries
<1>5. \A n \in Names(F) : Len(Contents(F)[n]) \in Int
  BY <1>4, Lookup DEF Names
<1> QED BY <1>2, <1>3, <1>4, <1>5 DEF SizesAt, SizesOf

\* The loop of stats adds up the sizes by place.
LEMMA LoopIsSum ==
  ASSUME Table(FILES)
  PROVE  total_bytes = SumFunctionOnSet(SizesAt(FILES), DOMAIN FILES)
<1> DEFINE S == DOMAIN FILES
           v == SizesAt(FILES)
           Body(g) == [s \in SUBSET S |->
                         IF s = {} THEN 0 ELSE g[s \ {Max(s)}] + Len(FILES[Max(s)].contents)]
           iter == CHOOSE g : g = Body(g)
           c == [s \in SUBSET S |-> Max(s)]
           Ordered(g) == [s \in SUBSET S |->
                            IF s = {} THEN 0 ELSE g[s \ {c[s]}] + v[c[s]]]
<1>1. total_bytes = iter[S]
  BY Zenon DEF total_bytes, FoldLeft, MapThenFoldSet
<1>2. IsFiniteSet(S) /\ \A i \in S : v[i] \in Int /\ v[i] = Len(FILES[i].contents)
  BY Sizes
<1>3. \A s \in SUBSET S : s # {} => Max(s) \in s
  <2> SUFFICES ASSUME NEW s \in SUBSET S, s # {} PROVE Max(s) \in s
    OBVIOUS
  <2>1. s \in SUBSET (0 .. Len(FILES)) /\ Len(FILES) \in Nat
    BY DEF Table
  <2> QED BY <2>1, MaxIsGreatest, Zenon
<1>4. \A s \in SUBSET S : c[s] = Max(s)
  BY Zenon
<1> HIDE DEF c, v
<1>5. Order(c, S)
  BY <1>3, <1>4, Zenon DEF Order
<1>6. ASSUME NEW g PROVE Body(g) = Ordered(g)
  <2>1. \A s \in SUBSET S :
          (IF s = {} THEN 0 ELSE g[s \ {Max(s)}] + Len(FILES[Max(s)].contents))
          = IF s = {} THEN 0 ELSE g[s \ {c[s]}] + v[c[s]]
    <3> SUFFICES ASSUME NEW s \in SUBSET S, s # {}
                 PROVE  g[s \ {Max(s)}] + Len(FILES[Max(s)].contents)
                        = g[s \ {c[s]}] + v[c[s]]
      BY Zenon
    <3>1. c[s] = Max(s) /\ Max(s) \in S
      BY <1>3, <1>4, Zenon
    <3>2. v[c[s]] = Len(FILES[Max(s)].contents)
      BY <3>1, <1>2, Zenon
    <3> QED BY <3>1, <3>2, Zenon
  <2> QED BY <2>1, Zenon
<1>7. PICK g : AddsLeft(g, v, c, S)
  <2> HIDE DEF S
  <2> QED BY <1>2, <1>5, FoldExists
<1>8. g = Body(g)
  BY <1>6, <1>7, Zenon DEF AddsLeft
<1>9. iter = Body(iter)
  BY <1>8, Zenon
<1> HIDE DEF iter
<1>10. AddsLeft(iter, v, c, S)
  BY <1>6, <1>9, Zenon DEF AddsLeft
<1> HIDE DEF S
<1>11. iter[S] = SumFunctionOnSet(v, S)
  BY <1>2, <1>5, <1>10, FoldIsSum
<1> QED BY <1>1, <1>11 DEF S, v

\* The reference adds up the sizes by name.
LEMMA ReferenceIsSum ==
  ASSUME Table(FILES)
  PROVE  MapThenSumSet(LAMBDA n : Len(Contents(FILES)[n]), Names(FILES))
           = SumFunctionOnSet(SizesOf(FILES), Names(FILES))
<1> DEFINE S == Names(FILES)
           v == SizesOf(FILES)
           pick(s) == CHOOSE x \in s : TRUE
           Body(g) == [s \in SUBSET S |->
                         IF s = {} THEN 0
                         ELSE Len(Contents(FILES)[pick(s)]) + g[s \ {pick(s)}]]
           iter == CHOOSE g : g = Body(g)
           c == Chosen(S)
           Ordered(g) == [s \in SUBSET S |->
                            IF s = {} THEN 0 ELSE v[c[s]] + g[s \ {c[s]}]]
<1>1. MapThenSumSet(LAMBDA n : Len(Contents(FILES)[n]), Names(FILES)) = iter[S]
  BY Zenon DEF MapThenSumSet, MapThenFoldSet
<1>2. IsFiniteSet(S) /\ \A n \in S : v[n] \in Int
  BY Sizes
<1>3. \A n \in S : v[n] = Len(Contents(FILES)[n])
  BY Zenon DEF SizesOf
<1>4. \A s \in SUBSET S : c[s] = pick(s)
  BY ChosenOf, Zenon
<1>5. \A s \in SUBSET S : s # {} => pick(s) \in s
  BY Zenon
<1> HIDE DEF c, v, pick
<1>6. Order(c, S)
  BY <1>4, <1>5, Zenon DEF Order
<1>7. ASSUME NEW g PROVE Body(g) = Ordered(g)
  <2>1. \A s \in SUBSET S :
          (IF s = {} THEN 0 ELSE Len(Contents(FILES)[pick(s)]) + g[s \ {pick(s)}])
          = IF s = {} THEN 0 ELSE v[c[s]] + g[s \ {c[s]}]
    <3> SUFFICES ASSUME NEW s \in SUBSET S, s # {}
                 PROVE  Len(Contents(FILES)[pick(s)]) + g[s \ {pick(s)}]
                        = v[c[s]] + g[s \ {c[s]}]
      BY Zenon
    <3>1. c[s] = pick(s) /\ pick(s) \in S
      BY <1>4, <1>5, Zenon
    <3>2. v[c[s]] = Len(Contents(FILES)[pick(s)])
      BY <3>1, <1>3, Zenon
    <3> QED BY <3>1, <3>2, Zenon
  <2> QED BY <2>1, Zenon
<1>8. PICK g : AddsUp(g, v, c, S)
  <2> HIDE DEF S
  <2> QED BY <1>2, <1>6, FoldExists
<1>9. g = Body(g)
  BY <1>7, <1>8, Zenon DEF AddsUp
<1>10. iter = Body(iter)
  BY <1>9, Zenon
<1> HIDE DEF iter
<1>11. AddsUp(iter, v, c, S)
  BY <1>7, <1>10, Zenon DEF AddsUp
<1> HIDE DEF S
<1>12. iter[S] = SumFunctionOnSet(v, S)
  BY <1>2, <1>6, <1>11, FoldIsSum
<1> QED BY <1>1, <1>12, Zenon DEF S, v

\* fsinfo's total is the size of the map the table stands for: for any files,
\* created, rewritten and removed in any order.
THEOREM TotalIsRight == Spec => []TotalIsSum
<1>1. ASSUME IInv PROVE TotalIsSum
  <2> DEFINE S == DOMAIN FILES
             T == Names(FILES)
             v == SizesAt(FILES)
             w == SizesOf(FILES)
             b == [i \in S |-> FILES[i].name]
  <2>1. Table(FILES)
    BY <1>1, TableOf
  <2>2. IsFiniteSet(S) /\ IsFiniteSet(T) /\ \A i \in S : v[i] \in Int
    BY <2>1, Sizes
  <2>3. Reindexes(b, v, S, w, T)
    <3>1. \A i \in S : b[i] = FILES[i].name
      BY Zenon
    <3>2. \A i \in S : b[i] \in T /\ Contents(FILES)[b[i]] = FILES[i].contents
      BY <3>1, <2>1, Lookup
    <3>3. \A i \in S : w[b[i]] = Len(Contents(FILES)[b[i]])
      BY <3>2, Zenon DEF SizesOf
    <3>4. \A i \in S : v[i] = Len(FILES[i].contents)
      BY <2>1, Sizes
    <3>5. \A i \in S : b[i] \in T /\ w[b[i]] = v[i]
      BY <3>2, <3>3, <3>4, Zenon
    <3>6. \A i, j \in S : b[i] = b[j] => i = j
      BY <3>1, <2>1, Zenon DEF Table
    <3>7. \A n \in T : \E i \in S : b[i] = n
      BY <3>1, Zenon DEF Names
    <3> QED BY <3>5, <3>6, <3>7, Zenon DEF Reindexes
  <2> HIDE DEF S, T, v, w, b
  <2>4. SumFunctionOnSet(v, S) = SumFunctionOnSet(w, T)
    BY <2>2, <2>3, SumReindexed
  <2> QED BY <2>1, <2>4, LoopIsSum, ReferenceIsSum, Zenon DEF TotalIsSum, S, T, v, w
<1> QED BY <1>1, Inductive, PTL
=============================================================================
