------------------------------ MODULE StoreProofs ------------------------------
(***************************************************************************)
(* Proofs about MemoryStore and Persistence for any models, keys, tags,     *)
(* threads, bound, and order of registration.                               *)
(*                                                                         *)
(* The store: however saves, deletes and refused inserts interleave, an     *)
(* index never answers with a row that does not match, and no insert        *)
(* overwrites a row.  The lemmas about Write carry the argument; the steps  *)
(* only check that its assumptions hold where they call it.                 *)
(*                                                                         *)
(* The files: what a save that has returned promises under any interleaving *)
(* (SaveInv); and what restarts and restores find when no two changes of    *)
(* rows overlap (SerialInv): every table and every file is sound, which     *)
(* inserting, updating, deleting and loading each preserve.                 *)
(***************************************************************************)
EXTENDS Persistence, SequenceTheorems, TLAPS

USE DEF Pks

\* What Write needs: the row is not a ghost to its own indexes, and a row that
\* is already there changes its key only where keys change.
WriteAllowed(m, p, old, row) ==
    /\ m \in Models /\ p \in Pks /\ row \in Rows
    /\ old = table[m][p]
    /\ KeysChange \/ old = NoRow \/ old.key = row.key

LEMMA RowTypes ==
    /\ NoRow \notin Rows
    /\ \A r \in Rows : r.key \in Keys /\ r.tag \in Tags
    /\ \A r \in Rows, k \in Keys : [r EXCEPT !.key = k] \in Rows
                                   /\ [r EXCEPT !.key = k].key = k
    /\ \A r \in Rows, g \in Tags : [r EXCEPT !.tag = g] \in Rows
                                   /\ [r EXCEPT !.tag = g].key = r.key
BY StoreAssumption DEF Rows

\* Tables and indexes keep their types when a row is written.
LEMMA WriteTypes ==
    ASSUME TypeOK, NEW m, NEW p, NEW old, NEW row,
           WriteAllowed(m, p, old, row), Write(m, p, old, row)
    PROVE  /\ table' \in [Models -> [Pks -> Rows \cup {NoRow}]]
           /\ holder' \in [Models -> [Keys -> 0 .. MaxPk]]
           /\ tagged' \in [Models -> [Tags -> SUBSET Pks]]
<1> USE StoreAssumption
<1>1. m \in Models /\ p \in Pks /\ row \in Rows /\ row.key \in Keys
  BY RowTypes DEF WriteAllowed
<1>2. table' \in [Models -> [Pks -> Rows \cup {NoRow}]]
  BY <1>1 DEF TypeOK, Write
<1>3. Freed(m, p, old, row) \in [Keys -> 0 .. MaxPk]
  BY <1>1 DEF TypeOK, Freed
<1>4. holder' \in [Models -> [Keys -> 0 .. MaxPk]]
  BY <1>1, <1>3 DEF TypeOK, Write
<1>5. Retagged(tagged[m], p, old, row) \in [Tags -> SUBSET Pks]
  BY <1>1 DEF TypeOK, Retagged
<1>6. tagged' \in [Models -> [Tags -> SUBSET Pks]]
  BY <1>1, <1>5 DEF TypeOK, Write
<1> QED
  BY <1>2, <1>4, <1>6

\* Only row p of model m is written.
LEMMA WriteOneRow ==
    ASSUME TypeOK, NEW m, NEW p, NEW old, NEW row,
           WriteAllowed(m, p, old, row), Write(m, p, old, row)
    PROVE  /\ table'[m][p] = row
           /\ \A n \in Models, q \in Pks :
                 n # m \/ q # p => table'[n][q] = table[n][q]
BY DEF TypeOK, WriteAllowed, Write

\* The unique index stays sound: the entry of the key a row gives up goes, and
\* the new entry, if it is made, names the row just written.
LEMMA WriteKeepsHolderSound ==
    ASSUME TypeOK, IndexesAreSound, NEW m, NEW p, NEW old, NEW row,
           WriteAllowed(m, p, old, row), Write(m, p, old, row)
    PROVE  \A n \in Models, k \in Keys :
               holder'[n][k] # 0 =>
                   /\ holder'[n][k] \in Pks
                   /\ table'[n][holder'[n][k]] # NoRow
                   /\ table'[n][holder'[n][k]].key = k
<1> USE StoreAssumption
<1>1. m \in Models /\ p \in Pks /\ row \in Rows /\ row.key \in Keys /\ row # NoRow
  BY RowTypes DEF WriteAllowed
<1>2. SUFFICES ASSUME NEW n \in Models, NEW k \in Keys, holder'[n][k] # 0
               PROVE  /\ holder'[n][k] \in Pks
                      /\ table'[n][holder'[n][k]] # NoRow
                      /\ table'[n][holder'[n][k]].key = k
  OBVIOUS
<1>3. holder[n][k] # 0 => /\ holder[n][k] \in Pks
                          /\ table[n][holder[n][k]] # NoRow
                          /\ table[n][holder[n][k]].key = k
  BY DEF IndexesAreSound, ScanKey
<1>4. CASE n # m
  <2>1. holder'[n][k] = holder[n][k]
    BY <1>1, <1>4 DEF TypeOK, Write
  <2> QED
    BY <1>2, <1>3, <1>4, <2>1, WriteOneRow
<1>5. CASE n = m
  <2> DEFINE freed == Freed(m, p, old, row)
  <2>1. holder'[m] = IF Refused(m, p, old, row) \/ ~ Moved(old, row) THEN freed
                     ELSE [freed EXCEPT ![row.key] = p]
    BY <1>1 DEF TypeOK, Write
  <2>2. freed[k] = IF old # NoRow /\ k = old.key /\ old.key # row.key
                      /\ holder[m][k] = p
                   THEN 0 ELSE holder[m][k]
    BY DEF Freed
  <2>3. CASE holder'[m][k] = freed[k]
    <3>1. freed[k] # 0 /\ freed[k] = holder[m][k]
      BY <1>2, <1>5, <2>2, <2>3
    <3>2. CASE holder[m][k] = p
      <4>1. old # NoRow /\ old.key = k
        BY <1>3, <1>5, <3>1, <3>2 DEF WriteAllowed
      <4>2. row.key = k
        BY <2>2, <3>1, <3>2, <4>1
      <4> QED
        BY <1>1, <1>5, <2>3, <3>1, <3>2, <4>2, WriteOneRow
    <3>3. CASE holder[m][k] # p
      BY <1>3, <1>5, <2>3, <3>1, <3>3, WriteOneRow
    <3> QED
      BY <3>2, <3>3
  <2>4. CASE holder'[m][k] # freed[k]
    <3>1. freed \in [Keys -> 0 .. MaxPk]
      BY <1>1 DEF TypeOK, Freed
    <3>2. k = row.key /\ holder'[m][k] = p
      BY <1>1, <2>1, <2>4, <3>1
    <3> QED
      BY <1>1, <1>5, <3>2, WriteOneRow
  <2> QED
    BY <2>3, <2>4
<1> QED
  BY <1>4, <1>5

\* The tag index stays sound: a refused write leaves it alone, and then the row
\* was in no entry before, or tags do not vary.
LEMMA WriteKeepsTaggedSound ==
    ASSUME TypeOK, IndexesAreSound, NEW m, NEW p, NEW old, NEW row,
           WriteAllowed(m, p, old, row), Write(m, p, old, row)
    PROVE  \A n \in Models, g \in Tags : \A q \in tagged'[n][g] :
               /\ q \in Pks
               /\ table'[n][q] # NoRow
               /\ table'[n][q].tag = g
<1> USE StoreAssumption
<1>1. m \in Models /\ p \in Pks /\ row \in Rows /\ row # NoRow /\ row.tag \in Tags
  BY RowTypes DEF WriteAllowed
<1>2. SUFFICES ASSUME NEW n \in Models, NEW g \in Tags, NEW q \in tagged'[n][g]
               PROVE  q \in Pks /\ table'[n][q] # NoRow /\ table'[n][q].tag = g
  OBVIOUS
<1>3. \A x \in tagged[n][g] : x \in Pks /\ table[n][x] # NoRow /\ table[n][x].tag = g
  BY DEF IndexesAreSound, ScanTag
<1>4. table'[n][q] = row \/ table'[n][q] = table[n][q] \/ q \notin Pks
  BY WriteOneRow
<1>5. CASE n # m
  <2>1. tagged'[n][g] = tagged[n][g]
    BY <1>1, <1>5 DEF TypeOK, Write
  <2> QED
    BY <1>3, <1>5, <2>1, WriteOneRow
<1>6. CASE n = m /\ q # p
  <2>1. q \in tagged[n][g]
    BY <1>1, <1>6 DEF TypeOK, Write, Retagged
  <2> QED
    BY <1>3, <1>6, <2>1, WriteOneRow
<1>7. CASE n = m /\ q = p
  <2>1. table'[n][q] = row
    BY <1>7, WriteOneRow
  <2>2. row.tag = g
    <3>1. CASE Refused(m, p, old, row)
      <4>1. p \in tagged[m][g]
        BY <1>7, <3>1 DEF Write
      <4>2. old # NoRow /\ old.tag = g
        BY <1>3, <1>7, <4>1 DEF WriteAllowed
      <4>3. KeysChange
        BY <3>1, <4>2 DEF Refused, Moved, WriteAllowed
      <4> QED
        BY <1>1, <4>3
    <3>2. CASE ~ Refused(m, p, old, row)
      <4>1. tagged'[m] = Retagged(tagged[m], p, old, row)
        BY <1>1, <3>2 DEF TypeOK, Write
      <4>2. SUFFICES ASSUME g # row.tag PROVE FALSE
        OBVIOUS
      <4>3. p \in tagged[m][g] /\ ~ (old # NoRow /\ old.tag = g)
        BY <1>7, <4>1, <4>2 DEF Retagged
      <4> QED
        BY <1>3, <1>7, <4>3 DEF WriteAllowed
    <3> QED
      BY <3>1, <3>2
  <2> QED
    BY <1>1, <1>7, <2>1, <2>2
<1> QED
  BY <1>5, <1>6, <1>7

\* The three lemmas, as IndexesAreSound states it.
LEMMA WriteKeepsIndexesSound ==
    ASSUME TypeOK, IndexesAreSound, NEW m, NEW p, NEW old, NEW row,
           WriteAllowed(m, p, old, row), Write(m, p, old, row)
    PROVE  IndexesAreSound'
BY WriteKeepsHolderSound, WriteKeepsTaggedSound DEF IndexesAreSound, ScanKey, ScanTag

-------------------------------------------------------------------------------
(* The operations. *)

LEMMA NoObjectTyped == NoObject \in Objects
<1>1. \E r : r \in Rows
  <2>1. PICK k \in Keys, g \in Tags : TRUE
    BY StoreAssumption
  <2>2. [key |-> k, tag |-> g] \in Rows
    BY DEF Rows
  <2> QED
    BY <2>2
<1>2. /\ (CHOOSE m \in Models : TRUE) \in Models
      /\ (CHOOSE r \in Rows : TRUE) \in Rows
  BY <1>1, StoreAssumption
<1> QED
  BY <1>2, StoreAssumption DEF NoObject, Objects

LEMMA InitInv == Init => IInv
<1> SUFFICES ASSUME Init PROVE IInv
  OBVIOUS
<1> USE StoreAssumption DEF Init
<1>1. TypeOK
  BY NoObjectTyped DEF TypeOK
<1>2. IndexesAreSound
  BY DEF IndexesAreSound
<1>3. InsertsAreFresh /\ PksAreIssued /\ CopiesShareKeys
  BY DEF InsertsAreFresh, PksAreIssued, CopiesShareKeys
<1> QED
  BY <1>1, <1>2, <1>3 DEF IInv

\* The thread that has let its object go leaves the others as they were.
LEMMA ReleaseEffect ==
    ASSUME TypeOK, NEW t \in Threads, Release(t)
    PROVE  /\ pc' \in [Threads -> {"idle", "insert", "held"}]
           /\ object' \in [Threads -> Objects]
           /\ pc'[t] = "idle"
           /\ \A u \in Threads \ {t} : pc'[u] = pc[u] /\ object'[u] = object[u]
BY NoObjectTyped DEF TypeOK, Release

\* create: the new id is above every row and every id handed out so far.
LEMMA CreatePreserves ==
    ASSUME IInv, NEW t \in Threads, NEW m \in Models, NEW row \in Rows,
           Create(t, m, row)
    PROVE  IInv'
<1> USE StoreAssumption DEF Create, IInv
<1>1. /\ sequence[m] \in Pks
      /\ [model |-> m, id |-> sequence[m], row |-> row] \in Objects
  BY DEF TypeOK, Objects
<1>2. TypeOK'
  <2>1. object' \in [Threads -> Objects]
    BY <1>1 DEF TypeOK
  <2>2. sequence' \in [Models -> 1 .. MaxPk + 1]
    BY <1>1 DEF TypeOK
  <2> QED
    BY <2>1, <2>2 DEF TypeOK
<1>3. IndexesAreSound'
  BY DEF IndexesAreSound, ScanKey, ScanTag
<1>4. /\ pc'[t] = "insert"
      /\ object'[t].model = m /\ object'[t].id = sequence[m]
      /\ object'[t].row = row
      /\ \A u \in Threads \ {t} : pc'[u] = pc[u] /\ object'[u] = object[u]
  BY <1>1 DEF TypeOK
<1>5. table[m][sequence[m]] = NoRow
  BY <1>1 DEF PksAreIssued, TypeOK
<1>6. \A u \in Threads \ {t} : pc[u] # "idle" =>
          object[u].model # m \/ object[u].id # sequence[m]
  BY <1>1 DEF PksAreIssued, TypeOK
<1>7. InsertsAreFresh'
  BY <1>4, <1>5, <1>6 DEF InsertsAreFresh
<1>8. sequence'[m] = sequence[m] + 1
      /\ \A n \in Models \ {m} : sequence'[n] = sequence[n]
  BY DEF TypeOK
<1>9. PksAreIssued'
  <2>1. \A n \in Models : sequence[n] \in Nat /\ sequence'[n] >= sequence[n]
    BY <1>8 DEF TypeOK
  <2>2. \A n \in Models, p \in Pks : table'[n][p] # NoRow => p < sequence'[n]
    BY <2>1 DEF PksAreIssued
  <2>3. ASSUME NEW u \in Threads, pc'[u] # "idle"
        PROVE  object'[u].id \in 1 .. sequence'[object'[u].model] - 1
    <3>1. CASE u = t
      BY <1>1, <1>4, <1>8, <3>1
    <3>2. CASE u # t
      <4>1. object[u].model \in Models
        BY DEF TypeOK, Objects
      <4>2. object[u].id \in 1 .. sequence[object[u].model] - 1
        BY <1>4, <2>3, <3>2 DEF PksAreIssued
      <4> QED
        BY <1>4, <2>1, <3>2, <4>1, <4>2
    <3> QED
      BY <3>1, <3>2
  <2> QED
    BY <2>2, <2>3 DEF PksAreIssued
<1>10. CopiesShareKeys'
  BY <1>4, <1>5, <1>6 DEF CopiesShareKeys, SameRow
<1> QED
  BY <1>2, <1>3, <1>7, <1>9, <1>10

\* What a write by thread t, which then releases its object, preserves.
LEMMA WriteReleasePreserves ==
    ASSUME IInv, NEW t \in Threads, NEW row,
           pc[t] # "idle",
           WriteAllowed(object[t].model, object[t].id,
                        table[object[t].model][object[t].id], row),
           Write(object[t].model, object[t].id,
                 table[object[t].model][object[t].id], row),
           ~ KeysChange => row.key = object[t].row.key,
           \A u \in Threads \ {t} : pc[u] = "insert" =>
               ~ SameRow(u, t),
           Release(t), UNCHANGED sequence
    PROVE  IInv'
<1> USE DEF IInv
<1> DEFINE m == object[t].model
           p == object[t].id
<1>1. TypeOK'
  BY WriteTypes, ReleaseEffect DEF TypeOK
<1>2. IndexesAreSound'
  BY WriteKeepsIndexesSound
<1>3. table'[m][p] = row /\ m \in Models /\ p \in Pks /\ row # NoRow
  BY WriteOneRow, RowTypes DEF WriteAllowed
<1>4. \A n \in Models, q \in Pks : n # m \/ q # p => table'[n][q] = table[n][q]
  BY WriteOneRow
<1>5. \A u \in Threads : pc'[u] # "idle" =>
          /\ u # t /\ pc[u] = pc'[u] /\ object'[u] = object[u]
          /\ object[u].model \in Models
          /\ object[u].id \in Pks
  <2>1. ASSUME NEW u \in Threads, pc'[u] # "idle"
        PROVE  u # t /\ pc[u] = pc'[u] /\ object'[u] = object[u]
    BY <2>1, ReleaseEffect
  <2>2. ASSUME NEW u \in Threads, pc[u] # "idle"
        PROVE  object[u].model \in Models /\ object[u].id \in Pks
    <3>1. object[u] \in Objects
      BY DEF TypeOK
    <3>2. object[u].model \in Models /\ object[u].id \in 0 .. MaxPk
      BY <3>1 DEF Objects
    <3>3. object[u].id >= 1
      BY <2>2, <3>2, StoreAssumption DEF PksAreIssued, TypeOK
    <3> QED
      BY <3>2, <3>3, StoreAssumption
  <2> QED
    BY <2>1, <2>2
<1>6. InsertsAreFresh'
  <2>1. ASSUME NEW u \in Threads, pc'[u] = "insert"
        PROVE  table'[object'[u].model][object'[u].id] = NoRow
    <3>1. pc[u] = "insert" /\ u # t /\ object'[u] = object[u]
      BY <1>5, <2>1
    <3>2. table[object[u].model][object[u].id] = NoRow /\ ~ SameRow(u, t)
      BY <3>1 DEF InsertsAreFresh
    <3> QED
      BY <1>4, <1>5, <2>1, <3>1, <3>2 DEF SameRow
  <2> QED
    BY <1>5, <2>1 DEF InsertsAreFresh
<1>7. PksAreIssued'
  <2>1. p < sequence[m]
    BY <1>3, StoreAssumption DEF PksAreIssued, TypeOK
  <2>2. \A n \in Models, q \in Pks : table'[n][q] # NoRow => q < sequence[n]
    BY <1>4, <2>1 DEF PksAreIssued
  <2> QED
    BY <1>5, <2>2 DEF PksAreIssued
<1>8. CopiesShareKeys'
  <2> SUFFICES ASSUME ~ KeysChange, NEW u \in Threads, pc'[u] # "idle"
               PROVE  /\ table'[object[u].model][object[u].id] # NoRow =>
                            table'[object[u].model][object[u].id].key
                                = object[u].row.key
                      /\ \A v \in Threads : pc'[v] # "idle" /\ SameRow(u, v) =>
                            object[u].row.key = object[v].row.key
    BY <1>5 DEF CopiesShareKeys, SameRow
  <2>1. pc[u] # "idle" /\ object[u].model \in Models /\ object[u].id \in Pks
    BY <1>5
  <2>2. CASE SameRow(u, t)
    BY <1>3, <1>5, <2>1, <2>2 DEF CopiesShareKeys, SameRow
  <2>3. CASE ~ SameRow(u, t)
    BY <1>4, <1>5, <2>1, <2>3 DEF CopiesShareKeys, SameRow
  <2> QED
    BY <2>2, <2>3
<1> QED
  BY <1>1, <1>2, <1>6, <1>7, <1>8

\* The object of a busy thread has a model, an issued id and a row.
LEMMA ObjectTyped ==
    ASSUME IInv, NEW t \in Threads, pc[t] # "idle"
    PROVE  /\ object[t].model \in Models
           /\ object[t].id \in Pks
           /\ object[t].row \in Rows
<1>1. object[t] \in Objects
  BY DEF IInv, TypeOK
<1>2. /\ object[t].model \in Models /\ object[t].id \in 0 .. MaxPk
      /\ object[t].row \in Rows
  BY <1>1 DEF Objects
<1>3. object[t].id >= 1
  BY <1>2, StoreAssumption DEF IInv, PksAreIssued, TypeOK
<1> QED
  BY <1>2, <1>3, StoreAssumption

LEMMA InsertPreserves ==
    ASSUME IInv, NEW t \in Threads, Insert(t)
    PROVE  IInv'
<1> DEFINE m == object[t].model
           p == object[t].id
           row == object[t].row
<1> USE DEF IInv, Insert
<1>1. table[m][p] = NoRow
  BY DEF InsertsAreFresh
<1>2. WriteAllowed(m, p, NoRow, row) /\ Write(m, p, table[m][p], row)
  BY <1>1, ObjectTyped DEF WriteAllowed
<1>3. \A u \in Threads \ {t} : pc[u] = "insert" => ~ SameRow(u, t)
  BY DEF InsertsAreFresh, SameRow
<1> QED
  BY <1>1, <1>2, <1>3, WriteReleasePreserves

\* save of a copy; where keys do not change, the copy's key is the row's.
LEMMA SavePreserves ==
    ASSUME IInv, NEW t \in Threads, NEW row \in Rows, SaveCopy(t, row),
           ~ KeysChange => row.key = object[t].row.key
    PROVE  IInv'
<1> DEFINE m == object[t].model
           p == object[t].id
<1> USE DEF IInv, SaveCopy
<1>1. pc[t] = "held" /\ m \in Models /\ p \in Pks
  BY ObjectTyped
<1>2. WriteAllowed(m, p, table[m][p], row)
  BY <1>1, StoreAssumption DEF WriteAllowed, CopiesShareKeys
<1>3. \A u \in Threads \ {t} : pc[u] = "insert" => ~ SameRow(u, t)
  BY <1>1 DEF InsertsAreFresh, SameRow
<1> QED
  BY <1>1, <1>2, <1>3, WriteReleasePreserves

LEMMA GetPreserves ==
    ASSUME IInv, NEW t \in Threads, NEW m \in Models, NEW p \in Pks,
           Get(t, m, p)
    PROVE  IInv'
<1> USE StoreAssumption DEF Get, IInv, store
<1>1. table[m][p] \in Rows
  BY DEF TypeOK
<1>2. [model |-> m, id |-> p, row |-> table[m][p]] \in Objects
  BY <1>1 DEF Objects
<1>3. TypeOK'
  BY <1>2 DEF TypeOK
<1>4. /\ pc'[t] = "held"
      /\ object'[t].model = m /\ object'[t].id = p
      /\ object'[t].row = table[m][p]
      /\ \A u \in Threads \ {t} : pc'[u] = pc[u] /\ object'[u] = object[u]
  BY DEF TypeOK
<1>5. IndexesAreSound'
  BY DEF IndexesAreSound, ScanKey, ScanTag
<1>6. InsertsAreFresh'
  BY <1>4 DEF InsertsAreFresh
<1>7. PksAreIssued'
  BY <1>4 DEF PksAreIssued, TypeOK
<1>8. CopiesShareKeys'
  BY <1>4 DEF CopiesShareKeys, SameRow
<1> QED
  BY <1>3, <1>5, <1>6, <1>7, <1>8

\* delete: one row leaves the table, and with it what the indexes knew of it.
LEMMA DeleteEffect ==
    ASSUME IInv, NEW t \in Threads, Delete(t),
           NEW m, NEW p, m = object[t].model, p = object[t].id
    PROVE  /\ m \in Models /\ p \in Pks
           /\ table' \in [Models -> [Pks -> Rows \cup {NoRow}]]
           /\ \A n \in Models, q \in Pks :
                 table'[n][q] = IF n = m /\ q = p THEN NoRow ELSE table[n][q]
           /\ holder' \in [Models -> [Keys -> 0 .. MaxPk]]
           /\ tagged' \in [Models -> [Tags -> SUBSET Pks]]
           /\ \A n \in Models, k \in Keys : holder'[n][k] # 0 =>
                 holder'[n][k] = holder[n][k] /\ (n = m => holder[n][k] # p)
           /\ \A n \in Models, g \in Tags : \A q \in tagged'[n][g] :
                 q \in tagged[n][g] /\ (n = m => q # p)
<1> USE StoreAssumption
<1> DEFINE old == table[m][p]
<1>1. m \in Models /\ p \in Pks
  BY ObjectTyped DEF Delete
<1>2. /\ table \in [Models -> [Pks -> Rows \cup {NoRow}]]
      /\ holder \in [Models -> [Keys -> 0 .. MaxPk]]
      /\ tagged \in [Models -> [Tags -> SUBSET Pks]]
  BY DEF IInv, TypeOK
<1>3. /\ \A k \in Keys : holder[m][k] = p => old # NoRow /\ old.key = k
      /\ \A g \in Tags : p \in tagged[m][g] => old # NoRow /\ old.tag = g
  BY <1>1 DEF IInv, IndexesAreSound, ScanKey, ScanTag
<1>4. CASE old = NoRow
  <2>1. UNCHANGED <<table, holder, tagged>>
    BY <1>4 DEF Delete
  <2> QED
    BY <1>1, <1>2, <1>3, <1>4, <2>1
<1>5. CASE old # NoRow
  <2>1. old.key \in Keys /\ old.tag \in Tags
    BY <1>1, <1>2, <1>5, RowTypes
  <2>2. /\ table' = [table EXCEPT ![m][p] = NoRow]
        /\ holder' = [holder EXCEPT ![m][old.key] = IF @ = p THEN 0 ELSE @]
        /\ tagged' = [tagged EXCEPT ![m][old.tag] = @ \ {p}]
    BY <1>5 DEF Delete
  <2> HIDE DEF old
  <2>3. /\ table' \in [Models -> [Pks -> Rows \cup {NoRow}]]
        /\ \A n \in Models, q \in Pks :
              table'[n][q] = IF n = m /\ q = p THEN NoRow ELSE table[n][q]
    BY <1>1, <1>2, <2>2
  <2>4. /\ holder' \in [Models -> [Keys -> 0 .. MaxPk]]
        /\ \A n \in Models, k \in Keys :
              holder'[n][k] = IF n = m /\ k = old.key /\ holder[n][k] = p
                              THEN 0 ELSE holder[n][k]
    BY <1>1, <1>2, <2>1, <2>2
  <2>5. /\ tagged' \in [Models -> [Tags -> SUBSET Pks]]
        /\ \A n \in Models, g \in Tags :
              tagged'[n][g] = IF n = m /\ g = old.tag
                              THEN tagged[n][g] \ {p} ELSE tagged[n][g]
    <3> DEFINE rest == tagged[m][old.tag] \ {p}
    <3>1. rest \in SUBSET Pks
      BY <1>1, <1>2, <2>1
    <3>2. tagged' = [tagged EXCEPT ![m][old.tag] = rest]
      BY <2>2
    <3>3. rest = tagged[m][old.tag] \ {p}
      OBVIOUS
    <3> HIDE DEF rest
    <3>4. tagged' \in [Models -> [Tags -> SUBSET Pks]]
      BY <1>1, <1>2, <2>1, <3>1, <3>2
    <3>5. \A n \in Models, g \in Tags :
              tagged'[n][g] = IF n = m /\ g = old.tag THEN rest ELSE tagged[n][g]
      BY <1>1, <1>2, <2>1, <3>2
    <3> QED
      BY <3>3, <3>4, <3>5
  <2>6. \A n \in Models, k \in Keys : holder'[n][k] # 0 =>
            holder'[n][k] = holder[n][k] /\ (n = m => holder[n][k] # p)
    BY <1>3, <2>4
  <2>7. \A n \in Models, g \in Tags : \A q \in tagged'[n][g] :
            q \in tagged[n][g] /\ (n = m => q # p)
    <3> SUFFICES ASSUME NEW n \in Models, NEW g \in Tags, NEW q \in tagged'[n][g]
                 PROVE  q \in tagged[n][g] /\ (n = m => q # p)
      OBVIOUS
    <3>1. CASE n = m /\ g = old.tag
      <4>1. tagged'[n][g] = tagged[n][g] \ {p}
        BY <2>5, <3>1
      <4>2. q \in tagged[n][g] \ {p}
        BY <4>1
      <4> QED
        BY <4>2
    <3>2. CASE ~ (n = m /\ g = old.tag)
      <4>1. tagged'[n][g] = tagged[n][g]
        BY <2>5, <3>2
      <4> QED
        BY <1>3, <3>2, <4>1
    <3> QED
      BY <3>1, <3>2
  <2> QED
    BY <1>1, <2>3, <2>4, <2>5, <2>6, <2>7
<1> QED
  BY <1>4, <1>5

LEMMA DeletePreserves ==
    ASSUME IInv, NEW t \in Threads, Delete(t)
    PROVE  IInv'
<1>1. PICK m, p : m = object[t].model /\ p = object[t].id
  OBVIOUS
<1>2. /\ m \in Models /\ p \in Pks
      /\ \A n \in Models, q \in Pks :
            table'[n][q] = IF n = m /\ q = p THEN NoRow ELSE table[n][q]
  BY <1>1, DeleteEffect
<1>3. /\ Release(t) /\ UNCHANGED sequence
      /\ TypeOK
  BY DEF Delete, IInv
<1>4. /\ pc'[t] = "idle"
      /\ \A u \in Threads \ {t} : pc'[u] = pc[u] /\ object'[u] = object[u]
  BY <1>3, ReleaseEffect
<1>5. TypeOK'
  BY <1>1, <1>3, DeleteEffect, ReleaseEffect DEF TypeOK
<1>6. IndexesAreSound'
  <2>1. /\ \A n \in Models, k \in Keys : holder'[n][k] # 0 =>
              holder'[n][k] = holder[n][k] /\ (n = m => holder[n][k] # p)
        /\ \A n \in Models, g \in Tags : \A q \in tagged'[n][g] :
              q \in tagged[n][g] /\ (n = m => q # p)
    BY <1>1, DeleteEffect
  <2> QED
    BY <1>2, <2>1 DEF IInv, IndexesAreSound, ScanKey, ScanTag
<1>7. \A u \in Threads : pc'[u] # "idle" =>
          /\ pc'[u] = pc[u] /\ object'[u] = object[u]
          /\ object[u].model \in Models /\ object[u].id \in Pks
  BY <1>4, ObjectTyped
<1>8. InsertsAreFresh'
  BY <1>2, <1>7 DEF IInv, InsertsAreFresh
<1>9. PksAreIssued'
  BY <1>2, <1>3, <1>7 DEF IInv, PksAreIssued
<1>10. CopiesShareKeys'
  <2> SUFFICES ASSUME ~ KeysChange, NEW u \in Threads, pc'[u] # "idle"
               PROVE  /\ table'[object[u].model][object[u].id] # NoRow =>
                            table'[object[u].model][object[u].id].key
                                = object[u].row.key
                      /\ \A v \in Threads : pc'[v] # "idle" /\ SameRow(u, v) =>
                            object[u].row.key = object[v].row.key
    BY <1>7 DEF CopiesShareKeys, SameRow
  <2>1. pc[u] # "idle" /\ object[u].model \in Models /\ object[u].id \in Pks
    BY <1>7
  <2>2. table'[object[u].model][object[u].id] # NoRow =>
            table'[object[u].model][object[u].id] = table[object[u].model][object[u].id]
    BY <1>2, <2>1
  <2> QED
    BY <1>7, <2>1, <2>2 DEF IInv, CopiesShareKeys, SameRow
<1> QED
  BY <1>5, <1>6, <1>8, <1>9, <1>10 DEF IInv

LEMMA NextPreserves == IInv /\ [Next]_vars => IInv'
<1> SUFFICES ASSUME IInv, [Next]_vars PROVE IInv'
  OBVIOUS
<1>1. ASSUME NEW t \in Threads, NEW m \in Models, NEW row \in Rows, Create(t, m, row)
      PROVE  IInv'
  BY <1>1, CreatePreserves
<1>2. ASSUME NEW t \in Threads, NEW m \in Models, NEW p \in Pks, Get(t, m, p)
      PROVE  IInv'
  BY <1>2, GetPreserves
<1>3. ASSUME NEW t \in Threads, Insert(t) PROVE IInv'
  BY <1>3, InsertPreserves
<1>4. ASSUME NEW t \in Threads, Retag(t) PROVE IInv'
  <2>1. PICK g \in Tags : SaveCopy(t, [object[t].row EXCEPT !.tag = g])
    BY <1>4 DEF Retag
  <2>2. object[t].row \in Rows
    BY <2>1, ObjectTyped DEF SaveCopy
  <2> QED
    BY <2>1, <2>2, RowTypes, SavePreserves
<1>5. ASSUME NEW t \in Threads, Rename(t) PROVE IInv'
  <2>1. PICK k \in Keys : SaveCopy(t, [object[t].row EXCEPT !.key = k])
    BY <1>5 DEF Rename
  <2>2. object[t].row \in Rows /\ KeysChange
    BY <1>5, <2>1, ObjectTyped DEF SaveCopy, Rename
  <2> QED
    BY <2>1, <2>2, RowTypes, SavePreserves
<1>6. ASSUME NEW t \in Threads, Delete(t) PROVE IInv'
  BY <1>6, DeletePreserves
<1>7. CASE UNCHANGED vars
  BY <1>7 DEF vars, store, IInv, TypeOK, IndexesAreSound, ScanKey, ScanTag,
       InsertsAreFresh, PksAreIssued, CopiesShareKeys, SameRow
<1> QED
  BY <1>1, <1>2, <1>3, <1>4, <1>5, <1>6, <1>7 DEF Next, Begin, Step

-------------------------------------------------------------------------------
(* The theorems. *)

\* The strengthening holds of every interleaving of engine calls.
THEOREM StoreInvariance == Spec => []IInv
<1>1. IInv /\ [Next]_vars => IInv'
  BY NextPreserves
<1> QED
  BY <1>1, InitInv, PTL DEF Spec

\* An index never answers with a row that does not carry the value asked for,
\* also after refused inserts and saves of stale or deleted copies.
THEOREM IndexSoundness == Spec => []IndexesAreSound
<1>1. IInv => IndexesAreSound
  BY DEF IInv
<1> QED
  BY <1>1, StoreInvariance, PTL

\* No insert lands on a row, and no two inserts on the same primary key.
THEOREM InsertFreshness == Spec => []InsertsAreFresh
<1>1. IInv => InsertsAreFresh
  BY DEF IInv
<1> QED
  BY <1>1, StoreInvariance, PTL

-------------------------------------------------------------------------------
(* Persistence: what a save promises. *)

DiskStages == {"idle", "insert", "held", "save", "extract", "clear", "load"}
SaveRecords == [models : Seq(Models), todo : Seq(Models), rows : Tables \cup {NoFile}]

DiskTypes ==
    /\ table \in [Models -> Tables]
    /\ sequence \in [Models -> 1 .. MaxPk + 1]
    /\ object \in [Threads -> Objects]
    /\ pc \in [Threads -> DiskStages]
    /\ registered \in Seq(Models)
    /\ file \in [Models -> File \cup {NoFile}]
    /\ save \in SaveRecords \cup {NoSave}
    /\ settled \subseteq Models \X Pks

\* One thread saves while there is a save, and no other.
OneSaver ==
    /\ save # NoSave <=> \E t \in Threads : pc[t] = "save"
    /\ \A t, u \in Threads : pc[t] = "save" /\ pc[u] = "save" => t = u

\* A settled row is on disk, or its model is still to be written; then, if the
\* model's rows have been read already, the row is among them.
OnDisk(m, p) == file[m] # NoFile /\ file[m].rows[p] = table[m][p]

ReadOrOnDisk(m, p) ==
    IF save # NoSave /\ m \in ToSet(save.todo)
    THEN m = Head(save.todo) /\ save.rows # NoFile => save.rows[p] = table[m][p]
    ELSE OnDisk(m, p)

SettledAreKept ==
    \A m \in Models, p \in Pks : <<m, p>> \in settled => ReadOrOnDisk(m, p)

SaveInv == DiskTypes /\ OneSaver /\ SettledAreKept

LEMMA HeadAndTail ==
    ASSUME NEW S, NEW s \in Seq(S), s # <<>>
    PROVE  /\ Head(s) \in S /\ Tail(s) \in Seq(S)
           /\ Head(s) \in ToSet(s)
           /\ \A x \in ToSet(s) : x = Head(s) \/ x \in ToSet(Tail(s))
           /\ ToSet(Tail(s)) \subseteq ToSet(s)
           /\ ToSet(s) \subseteq S
<1>1. Len(s) \in Nat /\ Len(s) > 0
  BY EmptySeq, LenProperties
<1>2. /\ Head(s) = s[1] /\ Head(s) \in S /\ Tail(s) \in Seq(S)
      /\ Len(Tail(s)) = Len(s) - 1
      /\ \A i \in 1 .. Len(s) - 1 : Tail(s)[i] = s[i + 1]
  BY HeadTailProperties
<1>3. \A i \in 1 .. Len(s) : i = 1 \/ i - 1 \in 1 .. Len(s) - 1
  BY <1>1
<1>4. DOMAIN s = 1 .. Len(s) /\ DOMAIN Tail(s) = 1 .. Len(s) - 1
  BY <1>2, LenProperties
<1>5. \A x \in ToSet(s) : x = Head(s) \/ x \in ToSet(Tail(s))
  <2> SUFFICES ASSUME NEW i \in 1 .. Len(s), s[i] # Head(s)
               PROVE  s[i] \in ToSet(Tail(s))
    BY <1>4 DEF ToSet
  <2>1. i - 1 \in 1 .. Len(s) - 1 /\ Tail(s)[i - 1] = s[(i - 1) + 1]
    BY <1>2, <1>3
  <2>2. s[(i - 1) + 1] = s[i]
    OBVIOUS
  <2> QED
    BY <1>4, <2>1, <2>2 DEF ToSet
<1>6. ToSet(Tail(s)) \subseteq ToSet(s)
  <2> SUFFICES ASSUME NEW i \in 1 .. Len(s) - 1 PROVE Tail(s)[i] \in ToSet(s)
    BY <1>4 DEF ToSet
  <2>1. i + 1 \in 1 .. Len(s)
    BY <1>1
  <2> QED
    BY <1>2, <1>4, <2>1 DEF ToSet
<1>7. ToSet(s) \subseteq S
  BY <1>4, ElementOfSeq DEF ToSet
<1>8. Head(s) \in ToSet(s)
  BY <1>1, <1>2, <1>4 DEF ToSet
<1> QED
  BY <1>2, <1>5, <1>6, <1>7, <1>8

LEMMA FilesAreNotNone ==
    /\ \A f \in File : f # NoFile
    /\ \A rows \in Tables : rows # NoFile
    /\ \A s \in SaveRecords : s # NoSave
BY FilesAssumption DEF SaveRecords

LEMMA NoRowsTyped == NoRows \in Tables
BY DEF NoRows, Tables

LEMMA SaveInitially == PInit => SaveInv
<1> SUFFICES ASSUME PInit PROVE SaveInv
  OBVIOUS
<1> USE StoreAssumption, FilesAssumption DEF PInit
<1>1. DiskTypes
  <2>1. table \in [Models -> Tables] /\ sequence \in [Models -> 1 .. MaxPk + 1]
    BY DEF Init, Tables
  <2>2. object \in [Threads -> Objects] /\ pc \in [Threads -> DiskStages]
    BY NoObjectTyped DEF Init, DiskStages
  <2> QED
    BY <2>1, <2>2 DEF DiskTypes
<1>2. OneSaver
  BY DEF OneSaver, Init
<1> QED
  BY <1>1, <1>2 DEF SaveInv, SettledAreKept

-------------------------------------------------------------------------------
(* What the steps of the store leave behind. *)

\* A row that is written keeps the table's type, whoever writes it and where.
LEMMA RowWritten ==
    ASSUME table \in [Models -> Tables], NEW m, NEW p, NEW row \in Rows \cup {NoRow},
           table' = [table EXCEPT ![m][p] = row]
    PROVE  table' \in [Models -> Tables]
BY DEF Tables

\* No step of the store begins or ends a save.
LEMMA StoreStepEffect ==
    ASSUME SaveInv, NEW t \in Threads, BeginRegistered(t) \/ Step(t)
    PROVE  /\ table' \in [Models -> Tables]
           /\ sequence' \in [Models -> 1 .. MaxPk + 1]
           /\ object' \in [Threads -> Objects]
           /\ pc' \in [Threads -> DiskStages]
           /\ \A u \in Threads : pc'[u] = "save" <=> pc[u] = "save"
<1> USE StoreAssumption
<1>t. /\ table \in [Models -> Tables] /\ sequence \in [Models -> 1 .. MaxPk + 1]
      /\ object \in [Threads -> Objects] /\ pc \in [Threads -> DiskStages]
      /\ registered \in Seq(Models)
  BY DEF SaveInv, DiskTypes
<1>o. \A u \in Threads : /\ object[u].model \in Models /\ object[u].id \in 0 .. MaxPk
                         /\ object[u].row \in Rows
  BY <1>t DEF Objects
<1>m. ToSet(registered) \subseteq Models
  BY <1>t, ElementOfSeq, LenProperties DEF ToSet
<1>r. ASSUME Release(t), pc[t] \in {"insert", "held"}
      PROVE  /\ object' \in [Threads -> Objects]
             /\ pc' \in [Threads -> DiskStages]
             /\ \A u \in Threads : pc'[u] = "save" <=> pc[u] = "save"
  BY <1>t, <1>r, NoObjectTyped DEF Release, DiskStages
<1>1. ASSUME NEW m \in Models, NEW row \in Rows, Create(t, m, row)
      PROVE  /\ table' = table
             /\ sequence' \in [Models -> 1 .. MaxPk + 1]
             /\ object' \in [Threads -> Objects]
             /\ pc' \in [Threads -> DiskStages]
             /\ \A u \in Threads : pc'[u] = "save" <=> pc[u] = "save"
  <2>1. [model |-> m, id |-> sequence[m], row |-> row] \in Objects
    BY <1>t, <1>1 DEF Create, Objects
  <2>2. sequence[m] + 1 \in 1 .. MaxPk + 1
    BY <1>t, <1>1 DEF Create
  <2> QED
    BY <1>t, <1>1, <2>1, <2>2 DEF Create, DiskStages
<1>2. ASSUME NEW m \in Models, NEW p \in Pks, Get(t, m, p)
      PROVE  /\ table' = table /\ sequence' = sequence
             /\ object' \in [Threads -> Objects]
             /\ pc' \in [Threads -> DiskStages]
             /\ \A u \in Threads : pc'[u] = "save" <=> pc[u] = "save"
  <2>1. table[m][p] \in Rows
    BY <1>t, <1>2 DEF Get, Tables
  <2>2. PICK row \in Rows : row = table[m][p]
    BY <2>1
  <2>3. p \in 0 .. MaxPk
    BY DEF Pks
  <2>4. [model |-> m, id |-> p, row |-> row] \in Objects
    BY <2>3 DEF Objects
  <2> QED
    BY <1>t, <1>2, <2>2, <2>4 DEF Get, store, DiskStages
<1>3. CASE Insert(t)
  BY <1>t, <1>o, <1>3, <1>r, RowWritten DEF Insert, Write
<1>4. ASSUME NEW row \in Rows, SaveCopy(t, row)
      PROVE  table' \in [Models -> Tables] /\ Release(t) /\ pc[t] = "held"
             /\ sequence' = sequence
  BY <1>t, <1>4, RowWritten DEF SaveCopy, Write
<1>5. CASE Retag(t)
  <2>1. PICK g \in Tags : SaveCopy(t, [object[t].row EXCEPT !.tag = g])
    BY <1>5 DEF Retag
  <2>2. [object[t].row EXCEPT !.tag = g] \in Rows
    BY <1>o, RowTypes
  <2> QED
    BY <1>t, <2>1, <2>2, <1>4, <1>r
<1>6. CASE Rename(t)
  <2>1. PICK k \in Keys : SaveCopy(t, [object[t].row EXCEPT !.key = k])
    BY <1>6 DEF Rename
  <2>2. [object[t].row EXCEPT !.key = k] \in Rows
    BY <1>o, RowTypes
  <2> QED
    BY <1>t, <2>1, <2>2, <1>4, <1>r
<1>7. CASE Delete(t)
  <2>1. table' \in [Models -> Tables]
    BY <1>t, <1>7, RowWritten DEF Delete
  <2> QED
    BY <1>t, <1>7, <1>r, <2>1 DEF Delete
<1> QED
  BY <1>t, <1>m, <1>1, <1>2, <1>3, <1>5, <1>6, <1>7 DEF BeginRegistered, Step

LEMMA WorkKeepsSaves ==
    ASSUME SaveInv, NEW t \in Threads, Work(t)
    PROVE  SaveInv'
<1>t. DiskTypes /\ OneSaver /\ SettledAreKept
  BY DEF SaveInv
<1>1. /\ BeginRegistered(t) \/ Step(t)
      /\ settled' = {s \in settled : table'[s[1]][s[2]] = table[s[1]][s[2]]}
      /\ UNCHANGED <<registered, file, listed, save, restoring>>
  BY DEF Work, StoreStep
<1>2. DiskTypes'
  BY <1>t, <1>1, StoreStepEffect DEF DiskTypes
<1>3. OneSaver'
  BY <1>t, <1>1, StoreStepEffect DEF OneSaver
<1>4. SettledAreKept'
  <2> SUFFICES ASSUME NEW m \in Models, NEW p \in Pks, <<m, p>> \in settled'
               PROVE  ReadOrOnDisk(m, p)'
    BY DEF SettledAreKept
  <2>1. <<m, p>> \in settled /\ table'[m][p] = table[m][p]
    BY <1>1
  <2>2. ReadOrOnDisk(m, p)
    BY <1>t, <2>1 DEF SettledAreKept
  <2> QED
    BY <1>1, <2>1, <2>2 DEF ReadOrOnDisk, OnDisk
<1> QED
  BY <1>2, <1>3, <1>4 DEF SaveInv

LEMMA ImportKeepsSaves ==
    ASSUME SaveInv, NEW m \in Models, Import(m)
    PROVE  SaveInv'
<1>1. registered' \in Seq(Models)
  BY AppendProperties DEF Import, SaveInv, DiskTypes
<1>2. UNCHANGED <<vars, file, listed, save, restoring, settled>>
  BY DEF Import
<1> QED
  BY <1>1, <1>2 DEF SaveInv, DiskTypes, OneSaver, SettledAreKept, ReadOrOnDisk, OnDisk,
                    vars, store

LEMMA BeginSaveKeepsSaves ==
    ASSUME SaveInv, NEW t \in Threads, BeginSave(t)
    PROVE  SaveInv'
<1>t. DiskTypes /\ OneSaver /\ SettledAreKept
  BY DEF SaveInv
<1>1. /\ pc[t] = "idle" /\ save = NoSave
      /\ save' = [models |-> registered, todo |-> registered, rows |-> NoFile]
      /\ pc' = [pc EXCEPT ![t] = "save"]
      /\ settled' = ToSet(registered) \X Pks
      /\ UNCHANGED <<table, sequence, object, registered, file>>
  BY DEF BeginSave, SaveOrder, store, disk
<1>2. ToSet(registered) \subseteq Models
  BY <1>t, ElementOfSeq, LenProperties DEF ToSet, DiskTypes
<1>3. save' \in SaveRecords
  BY <1>t, <1>1 DEF DiskTypes, SaveRecords
<1>4. DiskTypes'
  BY <1>t, <1>1, <1>2, <1>3 DEF DiskTypes, DiskStages
<1>5. OneSaver'
  <2>1. save' # NoSave /\ \A u \in Threads : pc[u] # "save"
    BY <1>t, <1>1, <1>3, FilesAreNotNone DEF OneSaver
  <2> QED
    BY <1>t, <1>1, <2>1 DEF OneSaver, DiskTypes
<1>6. SettledAreKept'
  <2> SUFFICES ASSUME NEW m \in Models, NEW p \in Pks, <<m, p>> \in settled'
               PROVE  ReadOrOnDisk(m, p)'
    BY DEF SettledAreKept
  <2>1. m \in ToSet(save'.todo) /\ save' # NoSave /\ save'.rows = NoFile
    BY <1>1, <1>3, FilesAreNotNone
  <2> QED
    BY <2>1 DEF ReadOrOnDisk
<1> QED
  BY <1>4, <1>5, <1>6 DEF SaveInv

LEMMA ReadRowsKeepsSaves ==
    ASSUME SaveInv, NEW t \in Threads, ReadRows(t)
    PROVE  SaveInv'
<1>t. DiskTypes /\ OneSaver /\ SettledAreKept
  BY DEF SaveInv
<1>1. /\ pc[t] = "save" /\ save.todo # <<>> /\ save.rows = NoFile
      /\ save' = [save EXCEPT !.rows = table[Head(save.todo)]]
      /\ UNCHANGED <<table, sequence, object, pc, registered, file, settled>>
  BY DEF ReadRows, memory, store, disk
<1>2. PICK was \in SaveRecords : was = save
  BY <1>t, <1>1 DEF OneSaver, DiskTypes
<1>3. was.todo \in Seq(Models) /\ Head(was.todo) \in Models
  BY <1>1, <1>2, HeadAndTail DEF SaveRecords
<1>4. PICK rows \in Tables : rows = table[Head(was.todo)]
  BY <1>t, <1>3 DEF DiskTypes
<1>5. PICK now : now = [was EXCEPT !.rows = rows]
  OBVIOUS
<1>6. now \in SaveRecords /\ now.todo = was.todo /\ now.rows = rows /\ save' = now
  BY <1>1, <1>2, <1>4, <1>5 DEF SaveRecords
<1>7. now # NoSave /\ was # NoSave
  BY <1>6, FilesAreNotNone
<1>8. DiskTypes'
  BY <1>t, <1>1, <1>6 DEF DiskTypes
<1>9. OneSaver'
  BY <1>t, <1>1, <1>2, <1>6, <1>7 DEF OneSaver
<1>10. SettledAreKept'
  BY <1>t, <1>1, <1>2, <1>4, <1>6, <1>7 DEF SettledAreKept, ReadOrOnDisk, OnDisk
<1> QED
  BY <1>8, <1>9, <1>10 DEF SaveInv

LEMMA WriteFileKeepsSaves ==
    ASSUME SaveInv, NEW t \in Threads, WriteFile(t)
    PROVE  SaveInv'
<1>t. DiskTypes /\ OneSaver /\ SettledAreKept
  BY DEF SaveInv
<1>1. /\ pc[t] = "save" /\ save.todo # <<>> /\ save.rows # NoFile
      /\ save' = [save EXCEPT !.todo = Tail(@), !.rows = NoFile]
      /\ UNCHANGED <<table, sequence, object, pc, registered>>
  BY DEF WriteFile, memory, store
<1>2. PICK was \in SaveRecords : was = save
  BY <1>t, <1>1 DEF OneSaver, DiskTypes
<1>3. PICK m : m = Head(was.todo)
  OBVIOUS
<1>4. /\ was.todo \in Seq(Models) /\ Tail(was.todo) \in Seq(Models) /\ m \in Models
      /\ m \in ToSet(was.todo)
      /\ \A n \in ToSet(was.todo) : n = m \/ n \in ToSet(Tail(was.todo))
      /\ ToSet(Tail(was.todo)) \subseteq ToSet(was.todo)
  BY <1>1, <1>2, <1>3, HeadAndTail DEF SaveRecords
<1>5. PICK now : now = [models |-> was.models, todo |-> Tail(was.todo), rows |-> NoFile]
  OBVIOUS
<1>6. now \in SaveRecords /\ save' = now
  <2>1. now \in SaveRecords
    BY <1>2, <1>4, <1>5 DEF SaveRecords
  <2>2. was = [models |-> was.models, todo |-> was.todo, rows |-> was.rows]
    BY DEF SaveRecords
  <2>3. PICK mid : mid = [was EXCEPT !.todo = Tail(was.todo)]
    OBVIOUS
  <2>4. mid = [models |-> was.models, todo |-> Tail(was.todo), rows |-> was.rows]
    BY <2>2, <2>3
  <2>5. save' = [mid EXCEPT !.rows = NoFile]
    <3>1. save' = [was EXCEPT !.todo = Tail(was.todo), !.rows = NoFile]
      BY <1>1, <1>2
    <3> QED
      BY <2>3, <3>1
  <2>6. PICK after : after = [mid EXCEPT !.rows = NoFile]
    OBVIOUS
  <2>7. after = [models |-> was.models, todo |-> Tail(was.todo), rows |-> NoFile]
    BY <2>4, <2>6
  <2>8. save' = now
    BY <1>5, <2>5, <2>6, <2>7
  <2> QED
    BY <2>1, <2>8
<1>7. now # NoSave /\ was # NoSave
  BY <1>6, FilesAreNotNone
<1>8. PICK written : written = [rows |-> was.rows, next |-> sequence[m]]
  OBVIOUS
<1>9. written \in File /\ written # NoFile /\ written.rows = was.rows
  <2>1. was.rows \in Tables
    BY <1>1, <1>2 DEF SaveRecords
  <2>2. sequence[m] \in 1 .. MaxPk + 1
    BY <1>t, <1>4 DEF DiskTypes
  <2>3. written \in File
    BY <1>8, <2>1, <2>2 DEF File
  <2> QED
    BY <1>8, <2>3, FilesAreNotNone
<1>10. \/ file' = [file EXCEPT ![m] = written] /\ settled' = settled
       \/ file' = file /\ settled' = {s \in settled : s[1] # m}
  BY <1>2, <1>3, <1>8 DEF WriteFile
<1>11. file \in [Models -> File \cup {NoFile}]
  BY <1>t DEF DiskTypes
<1>12. DiskTypes'
  <2>1. file' \in [Models -> File \cup {NoFile}] /\ settled' \subseteq settled
    BY <1>4, <1>9, <1>10, <1>11
  <2> QED
    BY <1>t, <1>1, <1>6, <2>1 DEF DiskTypes
<1>13. OneSaver'
  BY <1>t, <1>1, <1>2, <1>6, <1>7 DEF OneSaver
<1>14. SettledAreKept'
  <2> SUFFICES ASSUME NEW n \in Models, NEW p \in Pks, <<n, p>> \in settled'
               PROVE  ReadOrOnDisk(n, p)'
    BY DEF SettledAreKept
  <2>1. <<n, p>> \in settled /\ ReadOrOnDisk(n, p)
    BY <1>t, <1>10 DEF SettledAreKept
  <2>2. CASE n \in ToSet(now.todo)
    BY <1>6, <1>7, <1>5, <2>2 DEF ReadOrOnDisk
  <2>3. CASE n \notin ToSet(now.todo) /\ n # m
    <3>1. file'[n] = file[n] /\ n \notin ToSet(was.todo)
      BY <1>4, <1>5, <1>10, <1>11, <2>3
    <3> QED
      BY <1>1, <1>2, <1>6, <2>1, <2>3, <3>1 DEF ReadOrOnDisk, OnDisk
  <2>4. CASE n \notin ToSet(now.todo) /\ n = m
    <3>1. was.rows[p] = table[m][p]
      BY <1>1, <1>2, <1>3, <1>4, <1>7, <2>1, <2>4 DEF ReadOrOnDisk
    <3>2. file'[m] = written
      BY <1>4, <1>10, <1>11, <2>4
    <3> QED
      BY <1>1, <1>6, <1>9, <2>4, <3>1, <3>2 DEF ReadOrOnDisk, OnDisk
  <2> QED
    BY <2>2, <2>3, <2>4
<1> QED
  BY <1>12, <1>13, <1>14 DEF SaveInv

LEMMA EndSaveKeepsSaves ==
    ASSUME SaveInv, NEW t \in Threads, EndSave(t)
    PROVE  SaveInv'
<1>t. DiskTypes /\ OneSaver /\ SettledAreKept
  BY DEF SaveInv
<1>1. /\ pc[t] = "save" /\ save.todo = <<>> /\ save' = NoSave
      /\ pc' = [pc EXCEPT ![t] = "idle"]
      /\ UNCHANGED <<table, sequence, object, registered, file, settled>>
  BY DEF EndSave, store
<1>2. DiskTypes'
  BY <1>t, <1>1 DEF DiskTypes, DiskStages
<1>3. OneSaver'
  BY <1>t, <1>1 DEF OneSaver, DiskTypes
<1>4. SettledAreKept'
  <2>1. ToSet(save.todo) = {}
    BY <1>1 DEF ToSet
  <2> QED
    BY <1>t, <1>1, <2>1 DEF SettledAreKept, ReadOrOnDisk, OnDisk
<1> QED
  BY <1>2, <1>3, <1>4 DEF SaveInv

LEMMA RestartKeepsSaves ==
    ASSUME SaveInv, Restart
    PROVE  SaveInv'
<1> USE StoreAssumption
<1>t. file \in [Models -> File \cup {NoFile}]
  BY DEF SaveInv, DiskTypes
<1> DEFINE found == {m \in ToSet(listed) \cap ToSet(Early) : file[m] # NoFile}
<1>1. /\ table' = [m \in Models |-> IF m \in found
                      THEN LoadTable(file[m], NoRows, NoHolder) ELSE NoRows]
      /\ sequence' = [m \in Models |-> IF m \in found
                      THEN LoadSequence(file[m], NoHolder, 1) ELSE 1]
      /\ pc' = [t \in Threads |-> "idle"]
      /\ object' = [t \in Threads |-> NoObject]
      /\ registered' = Early /\ save' = NoSave /\ settled' = {} /\ file' = file
  BY DEF Restart, disk
<1>2. ASSUME NEW m \in Models, m \in found
      PROVE  /\ LoadTable(file[m], NoRows, NoHolder) \in Tables
             /\ LoadSequence(file[m], NoHolder, 1) \in 1 .. MaxPk + 1
  <2>1. file[m].rows \in Tables /\ file[m].next \in 1 .. MaxPk + 1
    BY <1>t, <1>2 DEF File
  <2> QED
    BY <2>1, NoRowsTyped DEF LoadTable, LoadSequence, Tables
<1> HIDE DEF found
<1>3. table' \in [Models -> Tables] /\ sequence' \in [Models -> 1 .. MaxPk + 1]
  BY <1>1, <1>2, NoRowsTyped
<1>4. DiskTypes'
  BY <1>1, <1>3, <1>t, NoObjectTyped, FilesAssumption DEF DiskTypes, DiskStages
<1> QED
  BY <1>1, <1>4 DEF SaveInv, OneSaver, SettledAreKept

LEMMA SavesInvariance == PSpec => []SaveInv
<1>1. SaveInv /\ [PNext]_allVars => SaveInv'
  <2> SUFFICES ASSUME SaveInv, [PNext]_allVars PROVE SaveInv'
    OBVIOUS
  <2>1. ASSUME NEW t \in Threads, Save(t) PROVE SaveInv'
    BY <2>1, BeginSaveKeepsSaves, ReadRowsKeepsSaves, WriteFileKeepsSaves,
       EndSaveKeepsSaves DEF Save
  <2>2. CASE UNCHANGED allVars
    BY <2>2 DEF allVars, vars, store, SaveInv, DiskTypes, OneSaver, SettledAreKept,
                ReadOrOnDisk, OnDisk
  <2> QED
    BY <2>1, <2>2, WorkKeepsSaves, ImportKeepsSaves, RestartKeepsSaves DEF PNext
<1> QED
  BY <1>1, SaveInitially, PTL DEF PSpec

\* However requests, saves, failing writes, registrations and restarts interleave,
\* a save that has returned has the rows nobody changed on disk, and the lock is
\* free (btpay/orm/persistence.py, save_to_disk).
THEOREM SavesAreComplete == PSpec => []SaveIsComplete
<1>1. SaveInv => SaveIsComplete
  <2> SUFFICES ASSUME SaveInv PROVE SaveIsComplete
    OBVIOUS
  <2>1. CASE \E t \in Threads : pc[t] = "save"
    BY <2>1 DEF SaveInv, OneSaver, SaveIsComplete
  <2>2. CASE ~ \E t \in Threads : pc[t] = "save"
    <3>1. save = NoSave
      BY <2>2 DEF SaveInv, OneSaver
    <3>2. ASSUME NEW s \in settled PROVE OnDisk(s[1], s[2])
      <4>1. PICK m \in Models, p \in Pks : s = <<m, p>>
        BY DEF SaveInv, DiskTypes
      <4> QED
        BY <3>1, <4>1 DEF SaveInv, SettledAreKept, ReadOrOnDisk
    <3> QED
      BY <2>2, <3>1, <3>2 DEF SaveIsComplete, OnDisk
  <2> QED
    BY <2>1, <2>2
<1> QED
  BY <1>1, SavesInvariance, PTL

-------------------------------------------------------------------------------
(* Persistence: what a restart and a restore find when changes do not overlap. *)

UniqueKeys(rows) ==
    \A p, q \in Pks :
        rows[p] # NoRow /\ rows[q] # NoRow /\ rows[p].key = rows[q].key => p = q

Beyond(rows, next) == \A p \in Pks : rows[p] # NoRow => p < next

FileSound(f) == UniqueKeys(f.rows) /\ Beyond(f.rows, f.next)

\* The indexes of a table know every row of it, and nothing else.
KeysExact(rows, hold) ==
    \A k \in Keys, p \in Pks : hold[k] = p <=> rows[p] # NoRow /\ rows[p].key = k
TagsExact(rows, tags) ==
    \A g \in Tags, p \in Pks : p \in tags[g] <=> rows[p] # NoRow /\ rows[p].tag = g

TableSound(rows, next, hold, tags) ==
    /\ rows \in Tables /\ next \in 1 .. MaxPk + 1
    /\ hold \in [Keys -> 0 .. MaxPk] /\ tags \in [Tags -> SUBSET Pks]
    /\ UniqueKeys(rows) /\ Beyond(rows, next)
    /\ KeysExact(rows, hold) /\ TagsExact(rows, tags)

\* A row whose key is free, inserted where there is none.
LEMMA InsertedSound ==
    ASSUME NEW rows, NEW next, NEW hold, NEW tags, TableSound(rows, next, hold, tags),
           NEW p \in Pks, p < next, NEW row \in Rows, rows[p] = NoRow,
           \A q \in Pks : rows[q] # NoRow => rows[q].key # row.key
    PROVE  /\ hold[row.key] = 0
           /\ TableSound([rows EXCEPT ![p] = row], next, [hold EXCEPT ![row.key] = p],
                         Retagged(tags, p, NoRow, row))
<1> USE StoreAssumption
<1>r. row.key \in Keys /\ row.tag \in Tags /\ row # NoRow
  BY RowTypes
<1>t. /\ rows \in Tables /\ hold \in [Keys -> 0 .. MaxPk] /\ tags \in [Tags -> SUBSET Pks]
      /\ KeysExact(rows, hold) /\ TagsExact(rows, tags) /\ UniqueKeys(rows)
      /\ Beyond(rows, next)
  BY DEF TableSound
<1>1. hold[row.key] = 0
  <2>1. hold[row.key] \in 0 .. MaxPk /\ hold[row.key] \notin Pks
    BY <1>r, <1>t DEF KeysExact
  <2> QED
    BY <2>1 DEF Pks
<1>2. PICK now : now = [rows EXCEPT ![p] = row]
  OBVIOUS
<1>3. /\ now \in Tables /\ now[p] = row /\ \A q \in Pks : q # p => now[q] = rows[q]
  BY <1>2, <1>t DEF Tables
<1>4. PICK held : held = [hold EXCEPT ![row.key] = p]
  OBVIOUS
<1>5. /\ held \in [Keys -> 0 .. MaxPk] /\ held[row.key] = p
      /\ \A k \in Keys : k # row.key => held[k] = hold[k]
  BY <1>4, <1>r, <1>t DEF Pks
<1>6. KeysExact(now, held)
  <2> SUFFICES ASSUME NEW k \in Keys, NEW q \in Pks
               PROVE  held[k] = q <=> now[q] # NoRow /\ now[q].key = k
    BY DEF KeysExact
  <2>1. hold[k] = q <=> rows[q] # NoRow /\ rows[q].key = k
    BY <1>t DEF KeysExact
  <2> QED
    BY <2>1, <1>3, <1>5, <1>r
<1>7. PICK marked : marked = Retagged(tags, p, NoRow, row)
  OBVIOUS
<1>8. marked = [g \in Tags |-> IF g = row.tag THEN tags[g] \cup {p} ELSE tags[g]]
  BY <1>7 DEF Retagged
<1>9. marked \in [Tags -> SUBSET Pks]
  BY <1>8, <1>t
<1>10. TagsExact(now, marked)
  BY <1>8, <1>t, <1>3, <1>r DEF TagsExact
<1>11. UniqueKeys(now) /\ Beyond(now, next)
  BY <1>3, <1>t DEF UniqueKeys, Beyond
<1> QED
  BY <1>1, <1>2, <1>3, <1>4, <1>5, <1>6, <1>7, <1>9, <1>10, <1>11 DEF TableSound

\* A row changed to one with the same key.
LEMMA UpdatedSound ==
    ASSUME NEW rows, NEW next, NEW hold, NEW tags, TableSound(rows, next, hold, tags),
           NEW p \in Pks, NEW row \in Rows, rows[p] # NoRow, rows[p].key = row.key
    PROVE  TableSound([rows EXCEPT ![p] = row], next, hold,
                      Retagged(tags, p, rows[p], row))
<1> USE StoreAssumption
<1>r. row.key \in Keys /\ row.tag \in Tags /\ row # NoRow
  BY RowTypes
<1>t. /\ rows \in Tables /\ hold \in [Keys -> 0 .. MaxPk] /\ tags \in [Tags -> SUBSET Pks]
      /\ KeysExact(rows, hold) /\ TagsExact(rows, tags) /\ UniqueKeys(rows)
      /\ Beyond(rows, next)
  BY DEF TableSound
<1>1. PICK now : now = [rows EXCEPT ![p] = row]
  OBVIOUS
<1>2. /\ now \in Tables /\ now[p] = row /\ \A q \in Pks : q # p => now[q] = rows[q]
  BY <1>1, <1>t DEF Tables
<1>3. KeysExact(now, hold) /\ UniqueKeys(now) /\ Beyond(now, next)
  BY <1>2, <1>t, <1>r DEF KeysExact, UniqueKeys, Beyond
<1>4. PICK marked : marked = Retagged(tags, p, rows[p], row)
  OBVIOUS
<1>5. \A g \in Tags : marked[g] \in SUBSET Pks
  BY <1>4, <1>t DEF Retagged
<1>6. marked \in [Tags -> SUBSET Pks]
  BY <1>4, <1>5 DEF Retagged
<1>7. TagsExact(now, marked)
  <2> SUFFICES ASSUME NEW g \in Tags, NEW q \in Pks
               PROVE  q \in marked[g] <=> now[q] # NoRow /\ now[q].tag = g
    BY DEF TagsExact
  <2>1. q \in tags[g] <=> rows[q] # NoRow /\ rows[q].tag = g
    BY <1>t DEF TagsExact
  <2>2. CASE q = p
    BY <1>2, <1>4, <1>r, <2>1, <2>2 DEF Retagged
  <2>3. CASE q # p
    BY <1>2, <1>4, <2>1, <2>3 DEF Retagged
  <2> QED
    BY <2>2, <2>3
<1> QED
  BY <1>1, <1>2, <1>3, <1>4, <1>6, <1>7 DEF TableSound

\* A row deleted, and with it its entries.
LEMMA DeletedSound ==
    ASSUME NEW rows, NEW next, NEW hold, NEW tags, TableSound(rows, next, hold, tags),
           NEW p \in Pks, NEW old, old = rows[p], old # NoRow
    PROVE  /\ hold[old.key] = p
           /\ TableSound([rows EXCEPT ![p] = NoRow], next, [hold EXCEPT ![old.key] = 0],
                         [tags EXCEPT ![old.tag] = tags[old.tag] \ {p}])
<1> USE StoreAssumption
<1>t. /\ rows \in Tables /\ hold \in [Keys -> 0 .. MaxPk] /\ tags \in [Tags -> SUBSET Pks]
      /\ KeysExact(rows, hold) /\ TagsExact(rows, tags) /\ UniqueKeys(rows)
      /\ Beyond(rows, next)
  BY DEF TableSound
<1>r. old \in Rows
  BY <1>t DEF Tables
<1>k. old.key \in Keys /\ old.tag \in Tags
  BY <1>r, RowTypes
<1>1. hold[old.key] = p
  BY <1>t, <1>k DEF KeysExact
<1>2. PICK now : now = [rows EXCEPT ![p] = NoRow]
  OBVIOUS
<1>3. /\ now \in Tables /\ now[p] = NoRow /\ \A q \in Pks : q # p => now[q] = rows[q]
  BY <1>2, <1>t DEF Tables
<1>4. PICK held : held = [hold EXCEPT ![old.key] = 0]
  OBVIOUS
<1>5. /\ held \in [Keys -> 0 .. MaxPk] /\ held[old.key] = 0
      /\ \A k \in Keys : k # old.key => held[k] = hold[k]
  BY <1>4, <1>k, <1>t
<1>6. KeysExact(now, held)
  <2> SUFFICES ASSUME NEW k \in Keys, NEW q \in Pks
               PROVE  held[k] = q <=> now[q] # NoRow /\ now[q].key = k
    BY DEF KeysExact
  <2>1. hold[k] = q <=> rows[q] # NoRow /\ rows[q].key = k
    BY <1>t DEF KeysExact
  <2>2. q # 0
    BY DEF Pks
  <2> QED
    BY <2>1, <2>2, <1>1, <1>3, <1>5
<1>7. PICK rest \in SUBSET Pks : rest = tags[old.tag] \ {p}
  BY <1>t, <1>k
<1>8. PICK marked : marked = [tags EXCEPT ![old.tag] = rest]
  OBVIOUS
<1>9. /\ marked \in [Tags -> SUBSET Pks] /\ marked[old.tag] = rest
      /\ \A g \in Tags : g # old.tag => marked[g] = tags[g]
  BY <1>8, <1>k, <1>t
<1>10. TagsExact(now, marked)
  <2> SUFFICES ASSUME NEW g \in Tags, NEW q \in Pks
               PROVE  q \in marked[g] <=> now[q] # NoRow /\ now[q].tag = g
    BY DEF TagsExact
  <2>1. q \in tags[g] <=> rows[q] # NoRow /\ rows[q].tag = g
    BY <1>t DEF TagsExact
  <2>2. CASE g = old.tag
    BY <1>3, <1>7, <1>9, <2>1, <2>2
  <2>3. CASE g # old.tag
    BY <1>3, <1>9, <2>1, <2>3
  <2> QED
    BY <2>2, <2>3
<1>11. UniqueKeys(now) /\ Beyond(now, next)
  BY <1>3, <1>t DEF UniqueKeys, Beyond
<1> QED
  BY <1>1, <1>2, <1>3, <1>4, <1>5, <1>6, <1>7, <1>8, <1>9, <1>10, <1>11 DEF TableSound

\* A sound file over a table that is empty, or holds rows of that very file.
LEMMA LoadedSound ==
    ASSUME NEW f \in File, FileSound(f),
           NEW rows, NEW next, NEW hold, NEW tags, TableSound(rows, next, hold, tags),
           \A p \in Pks : rows[p] # NoRow => rows[p] = f.rows[p]
    PROVE  /\ LoadTable(f, rows, hold) = f.rows
           /\ LoadSequence(f, hold, next) = f.next
           /\ TableSound(f.rows, f.next, LoadHolder(f, hold), LoadTagged(f, hold, tags))
<1> USE StoreAssumption
<1>f. f.rows \in Tables /\ f.next \in 1 .. MaxPk + 1
  BY DEF File
<1>u. UniqueKeys(f.rows) /\ Beyond(f.rows, f.next)
  BY DEF FileSound
<1>k. \A p \in Pks : f.rows[p] # NoRow =>
          f.rows[p] \in Rows /\ f.rows[p].key \in Keys /\ f.rows[p].tag \in Tags
  BY <1>f, RowTypes DEF Tables
<1>t. /\ rows \in Tables /\ hold \in [Keys -> 0 .. MaxPk] /\ tags \in [Tags -> SUBSET Pks]
      /\ KeysExact(rows, hold) /\ TagsExact(rows, tags)
  BY DEF TableSound
<1>h. \A k \in Keys, p \in Pks : hold[k] = p => f.rows[p] # NoRow /\ f.rows[p].key = k
  BY <1>t DEF KeysExact
<1>1. Clashing(f.rows, hold) = {}
  <2> SUFFICES ASSUME NEW p \in Clashing(f.rows, hold) PROVE FALSE
    OBVIOUS
  <2>1. /\ p \in Pks /\ f.rows[p] # NoRow
        /\ \/ hold[f.rows[p].key] \notin {0, p}
           \/ \E q \in 1 .. p - 1 :
                 f.rows[q] # NoRow /\ f.rows[q].key = f.rows[p].key
    BY DEF Clashing
  <2>2. CASE hold[f.rows[p].key] \notin {0, p}
    <3>1. PICK q : q = hold[f.rows[p].key]
      OBVIOUS
    <3>2. q \in 0 .. MaxPk /\ q # 0 /\ q # p
      BY <1>k, <1>t, <2>1, <2>2, <3>1
    <3>3. q \in Pks
      BY <3>2 DEF Pks
    <3>4. f.rows[q] # NoRow /\ f.rows[q].key = f.rows[p].key
      BY <1>h, <1>k, <2>1, <3>1, <3>3
    <3> QED
      BY <1>u, <2>1, <3>2, <3>3, <3>4 DEF UniqueKeys
  <2>3. ASSUME NEW q \in 1 .. p - 1, f.rows[q] # NoRow, f.rows[q].key = f.rows[p].key
        PROVE  FALSE
    <3>1. q \in Pks /\ q # p
      BY <2>1 DEF Pks
    <3> QED
      BY <1>u, <2>1, <2>3, <3>1 DEF UniqueKeys
  <2> QED
    BY <2>1, <2>2, <2>3
<1>2. Loaded(f.rows, hold) = {p \in Pks : f.rows[p] # NoRow}
  BY <1>1 DEF Loaded
<1>3. LoadTable(f, rows, hold) = f.rows
  <2>1. \A p \in Pks : f.rows[p] = NoRow => rows[p] = NoRow
    OBVIOUS
  <2>2. LoadTable(f, rows, hold) =
          [p \in Pks |-> IF f.rows[p] # NoRow THEN f.rows[p] ELSE rows[p]]
    BY <1>2 DEF LoadTable
  <2>3. LoadTable(f, rows, hold) = [p \in Pks |-> f.rows[p]]
    BY <2>1, <2>2
  <2> QED
    BY <1>f, <2>3 DEF Tables
<1>4. LoadSequence(f, hold, next) = f.next
  BY <1>1 DEF LoadSequence
<1>5. \A p \in Pks : p \in Indexed(f, hold) <=> f.rows[p] # NoRow
  BY <1>1, <1>2 DEF Indexed
<1>6. Indexed(f, hold) \subseteq Pks
  BY <1>2 DEF Indexed
<1>7. PICK held : held = LoadHolder(f, hold)
  OBVIOUS
<1>8. ASSUME NEW k \in Keys
      PROVE  /\ held[k] \in 0 .. MaxPk
             /\ \A p \in Pks : held[k] = p <=> f.rows[p] # NoRow /\ f.rows[p].key = k
  <2> DEFINE with == {p \in Indexed(f, hold) : f.rows[p].key = k}
  <2>1. held[k] = IF with = {} THEN hold[k] ELSE CHOOSE p \in with : TRUE
    BY <1>7 DEF LoadHolder
  <2>2. \A p \in Pks : p \in with <=> f.rows[p] # NoRow /\ f.rows[p].key = k
    BY <1>5
  <2>3. with \subseteq Pks
    BY <1>6
  <2>4. \A p, q \in with : p = q
    BY <1>u, <2>2, <2>3 DEF UniqueKeys
  <2> HIDE DEF with
  <2>5. CASE with = {}
    <3>1. held[k] = hold[k]
      BY <2>1, <2>5
    <3>2. \A p \in Pks : hold[k] # p
      BY <1>h, <2>2, <2>5
    <3> QED
      BY <1>t, <2>2, <2>5, <3>1, <3>2
  <2>6. CASE with # {}
    <3>1. held[k] = CHOOSE p \in with : TRUE
      BY <2>1, <2>6
    <3>2. held[k] \in with
      BY <2>6, <3>1
    <3>3. held[k] \in Pks
      BY <2>3, <3>2
    <3> QED
      BY <2>2, <2>4, <3>2, <3>3 DEF Pks
  <2> QED
    BY <2>5, <2>6
<1>9. held \in [Keys -> 0 .. MaxPk]
  BY <1>7, <1>8 DEF LoadHolder
<1>10. KeysExact(f.rows, held)
  BY <1>8 DEF KeysExact
<1>11. PICK marked : marked = LoadTagged(f, hold, tags)
  OBVIOUS
<1>12. ASSUME NEW g \in Tags
       PROVE  marked[g] = tags[g] \cup {p \in Indexed(f, hold) : f.rows[p].tag = g}
  BY <1>11 DEF LoadTagged
<1>13. marked \in [Tags -> SUBSET Pks]
  <2>1. \A g \in Tags : marked[g] \in SUBSET Pks
    BY <1>6, <1>12, <1>t
  <2> QED
    BY <1>11, <2>1 DEF LoadTagged
<1>14. TagsExact(f.rows, marked)
  <2> SUFFICES ASSUME NEW g \in Tags, NEW p \in Pks
               PROVE  p \in marked[g] <=> f.rows[p] # NoRow /\ f.rows[p].tag = g
    BY DEF TagsExact
  <2>1. p \in tags[g] => rows[p] # NoRow /\ rows[p].tag = g
    BY <1>t DEF TagsExact
  <2>2. p \in tags[g] => f.rows[p] # NoRow /\ f.rows[p].tag = g
    BY <2>1
  <2> QED
    BY <1>5, <1>12, <2>2
<1> QED
  BY <1>3, <1>4, <1>f, <1>u, <1>7, <1>9, <1>10, <1>11, <1>13, <1>14 DEF TableSound

LEMMA EmptySound == TableSound(NoRows, 1, NoHolder, NoTagged)
<1> USE StoreAssumption
<1>1. /\ NoRows \in Tables /\ NoHolder \in [Keys -> 0 .. MaxPk]
      /\ NoTagged \in [Tags -> SUBSET Pks]
  BY NoRowsTyped DEF NoHolder, NoTagged
<1>2. \A p \in Pks : NoRows[p] = NoRow /\ p # 0
  BY DEF NoRows, Pks
<1>3. \A k \in Keys : NoHolder[k] = 0
  BY DEF NoHolder
<1>4. \A g \in Tags : NoTagged[g] = {}
  BY DEF NoTagged
<1> QED
  BY <1>1, <1>2, <1>3, <1>4 DEF TableSound, UniqueKeys, Beyond, KeysExact, TagsExact

\* Every table with its sequence and its indexes.
StoreSound ==
    /\ table \in [Models -> Tables] /\ sequence \in [Models -> 1 .. MaxPk + 1]
    /\ holder \in [Models -> [Keys -> 0 .. MaxPk]]
    /\ tagged \in [Models -> [Tags -> SUBSET Pks]]
    /\ \A m \in Models : TableSound(table[m], sequence[m], holder[m], tagged[m])

LEMMA OneTableSound ==
    ASSUME StoreSound, NEW m \in Models,
           NEW rows, NEW next, NEW hold, NEW tags, TableSound(rows, next, hold, tags),
           table' = [table EXCEPT ![m] = rows], sequence' = [sequence EXCEPT ![m] = next],
           holder' = [holder EXCEPT ![m] = hold], tagged' = [tagged EXCEPT ![m] = tags]
    PROVE  /\ StoreSound'
           /\ table'[m] = rows /\ sequence'[m] = next
           /\ \A n \in Models : n # m => table'[n] = table[n] /\ sequence'[n] = sequence[n]
<1>1. /\ rows \in Tables /\ next \in 1 .. MaxPk + 1
      /\ hold \in [Keys -> 0 .. MaxPk] /\ tags \in [Tags -> SUBSET Pks]
  BY DEF TableSound
<1>2. \A n \in Models :
        IF n = m
        THEN table'[n] = rows /\ sequence'[n] = next /\ holder'[n] = hold /\ tagged'[n] = tags
        ELSE /\ table'[n] = table[n] /\ sequence'[n] = sequence[n]
             /\ holder'[n] = holder[n] /\ tagged'[n] = tagged[n]
  BY DEF StoreSound
<1>3. /\ table' \in [Models -> Tables] /\ sequence' \in [Models -> 1 .. MaxPk + 1]
      /\ holder' \in [Models -> [Keys -> 0 .. MaxPk]]
      /\ tagged' \in [Models -> [Tags -> SUBSET Pks]]
  BY <1>1 DEF StoreSound
<1>4. ASSUME NEW n \in Models
      PROVE  TableSound(table'[n], sequence'[n], holder'[n], tagged'[n])
  <2>1. TableSound(table[n], sequence[n], holder[n], tagged[n])
    BY DEF StoreSound
  <2>2. CASE n = m
    BY <1>2, <2>2
  <2>3. CASE n # m
    BY <1>2, <2>1, <2>3
  <2> QED
    BY <2>2, <2>3
<1> QED
  BY <1>2, <1>3, <1>4 DEF StoreSound

\* A write that the unique index does not refuse.
LEMMA WriteSound ==
    ASSUME StoreSound, NEW m \in Models, NEW p \in Pks, NEW old, NEW row \in Rows,
           old = table[m][p], p < sequence[m],
           \/ /\ old = NoRow
              /\ \A q \in Pks : table[m][q] # NoRow => table[m][q].key # row.key
           \/ old # NoRow /\ old.key = row.key,
           Write(m, p, old, row), UNCHANGED sequence
    PROVE  StoreSound'
<1> USE StoreAssumption
<1>r. row.key \in Keys /\ row.tag \in Tags
  BY RowTypes
<1>1. PICK rows, next, hold, tags :
        /\ rows = table[m] /\ next = sequence[m] /\ hold = holder[m] /\ tags = tagged[m]
  OBVIOUS
<1>2. TableSound(rows, next, hold, tags)
  BY <1>1 DEF StoreSound
<1>t. /\ rows \in Tables /\ hold \in [Keys -> 0 .. MaxPk]
      /\ tags \in [Tags -> SUBSET Pks]
  BY <1>2 DEF TableSound
<1>3. PICK now : now = [rows EXCEPT ![p] = row]
  OBVIOUS
<1>4. table' = [table EXCEPT ![m] = now]
  BY <1>1, <1>3 DEF Write, StoreSound
<1>5. sequence' = [sequence EXCEPT ![m] = next]
  BY <1>1 DEF StoreSound
<1>6. PICK marked : marked = Retagged(tags, p, old, row)
  OBVIOUS
<1>7. PICK freed : freed = Freed(m, p, old, row)
  OBVIOUS
<1>8. CASE old = NoRow
  <2>0. /\ rows[p] = NoRow /\ p < next
        /\ \A q \in Pks : rows[q] # NoRow => rows[q].key # row.key
    BY <1>1, <1>8
  <2>a. /\ hold[row.key] = 0
        /\ TableSound([rows EXCEPT ![p] = row], next, [hold EXCEPT ![row.key] = p],
                      Retagged(tags, p, NoRow, row))
    BY <1>2, <2>0, InsertedSound
  <2>1. hold[row.key] = 0 /\ TableSound(now, next, [hold EXCEPT ![row.key] = p], marked)
    BY <1>3, <1>6, <1>8, <2>a
  <2>2. freed = hold
    BY <1>1, <1>7, <1>8, <1>t DEF Freed
  <2>3. Moved(old, row) /\ ~ Refused(m, p, old, row)
    BY <1>7, <1>8, <2>1, <2>2 DEF Moved, Refused
  <2>4. PICK held : held = [hold EXCEPT ![row.key] = p]
    OBVIOUS
  <2>5. holder' = [holder EXCEPT ![m] = held] /\ tagged' = [tagged EXCEPT ![m] = marked]
    BY <1>1, <1>6, <1>7, <2>2, <2>3, <2>4 DEF Write, StoreSound
  <2>6. TableSound(now, next, held, marked)
    BY <2>1, <2>4
  <2> QED
    BY <1>4, <1>5, <2>5, <2>6, OneTableSound
<1>9. CASE old # NoRow /\ old.key = row.key
  <2>1. TableSound(now, next, hold, marked)
    BY <1>1, <1>2, <1>3, <1>6, <1>9, UpdatedSound
  <2>2. ~ Moved(old, row) /\ ~ Refused(m, p, old, row)
    BY <1>9 DEF Moved, Refused
  <2>3. freed = hold
    BY <1>1, <1>7, <1>9, <1>t DEF Freed
  <2>5. holder' = [holder EXCEPT ![m] = hold] /\ tagged' = [tagged EXCEPT ![m] = marked]
    BY <1>1, <1>6, <1>7, <2>2, <2>3 DEF Write, StoreSound
  <2> QED
    BY <1>4, <1>5, <2>1, <2>5, OneTableSound
<1> QED
  BY <1>8, <1>9

LEMMA DeleteSound ==
    ASSUME StoreSound, NEW m \in Models, NEW p \in Pks, NEW old,
           old = table[m][p], old # NoRow,
           table' = [table EXCEPT ![m][p] = NoRow],
           holder' = [holder EXCEPT ![m][old.key] = IF @ = p THEN 0 ELSE @],
           tagged' = [tagged EXCEPT ![m][old.tag] = @ \ {p}],
           UNCHANGED sequence
    PROVE  StoreSound'
<1>1. PICK rows, next, hold, tags :
        /\ rows = table[m] /\ next = sequence[m] /\ hold = holder[m] /\ tags = tagged[m]
  OBVIOUS
<1>2. TableSound(rows, next, hold, tags)
  BY <1>1 DEF StoreSound
<1>3. /\ hold[old.key] = p
      /\ TableSound([rows EXCEPT ![p] = NoRow], next, [hold EXCEPT ![old.key] = 0],
                    [tags EXCEPT ![old.tag] = tags[old.tag] \ {p}])
  <2>1. old = rows[p]
    BY <1>1
  <2> QED
    BY <1>2, <2>1, DeletedSound
<1>4. PICK now : now = [rows EXCEPT ![p] = NoRow]
  OBVIOUS
<1>5. PICK held : held = [hold EXCEPT ![old.key] = 0]
  OBVIOUS
<1>6. PICK marked : marked = [tags EXCEPT ![old.tag] = tags[old.tag] \ {p}]
  OBVIOUS
<1>7. table' = [table EXCEPT ![m] = now] /\ sequence' = [sequence EXCEPT ![m] = next]
  BY <1>1, <1>4 DEF StoreSound
<1>8. holder' = [holder EXCEPT ![m] = held]
  <2>1. (IF holder[m][old.key] = p THEN 0 ELSE holder[m][old.key]) = 0
    BY <1>1, <1>3
  <2>2. holder' = [holder EXCEPT ![m][old.key] = 0]
    BY <2>1
  <2> QED
    BY <1>1, <1>5, <2>2 DEF StoreSound
<1>9. tagged' = [tagged EXCEPT ![m] = marked]
  BY <1>1, <1>6 DEF StoreSound
<1>10. TableSound(now, next, held, marked)
  BY <1>3, <1>4, <1>5, <1>6
<1> QED
  BY <1>7, <1>8, <1>9, <1>10, OneTableSound

-------------------------------------------------------------------------------
\* A file that a restart can load whole: no two of its rows share a key, and its
\* sequence is beyond them.
ArchiveIsSound == \A m \in ToSet(Archived) : FileSound(Archive[m])

FilesSound == \A m \in Models : file[m] # NoFile => FileSound(file[m])

\* The rows that a save has read go well with the sequence it has yet to read.
SnapshotSound ==
    save # NoSave =>
        /\ save.models = Early
        /\ save.rows # NoFile =>
              /\ save.todo # <<>>
              /\ UniqueKeys(save.rows)
              /\ Beyond(save.rows, sequence[Head(save.todo)])

\* One thread at most is at work on the rows, and its object is as the table is.
OneBusy == \A t, u \in Threads : ~ Idle(t) /\ ~ Idle(u) => t = u

KeyIsFree(m, k) == \A q \in Pks : table[m][q] # NoRow => table[m][q].key # k

ObjectFits(t) ==
    LET m == object[t].model
        p == object[t].id IN
    /\ pc[t] = "insert" =>
          p \in Pks /\ p < sequence[m] /\ table[m][p] = NoRow /\ KeyIsFree(m, object[t].row.key)
    /\ pc[t] = "held" => p \in Pks /\ table[m][p] = object[t].row

\* How far a restore has come.
OfArchive(m) ==
    IF m \in ToSet(Archived)
    THEN \A p \in Pks : table[m][p] # NoRow => table[m][p] = Archive[m].rows[p]
    ELSE table[m] = NoRows

Extracted == \A m \in ToSet(Archived) : file[m] = Archive[m]

RestoreFit(t) ==
    /\ pc[t] = "extract" =>
          /\ ToSet(restoring) \subseteq ToSet(Archived)
          /\ \A m \in ToSet(Archived) : m \in ToSet(restoring) \/ file[m] = Archive[m]
    /\ pc[t] = "clear" => listed = Archived /\ Extracted
    /\ pc[t] = "load" =>
          /\ listed = Archived /\ Extracted /\ ToSet(restoring) \subseteq ToSet(Archived)
          /\ \A m \in Models : OfArchive(m)
          /\ \A m \in ToSet(Archived) \cap ToSet(Early) :
                m \in ToSet(restoring) \/ table[m] = Archive[m].rows

RestoreFits ==
    /\ restoring \in Seq(Models)
    /\ Restoring => save = NoSave
    /\ \A t \in Threads : RestoreFit(t)

SerialInv ==
    /\ SaveInv
    /\ registered = Early /\ listed \in {<<>>, Early, Archived}
    /\ StoreSound
    /\ FilesSound
    /\ SnapshotSound
    /\ OneBusy
    /\ \A t \in Threads : ObjectFits(t)
    /\ RestoreFits

LEMMA SerialInitially == PInit => SerialInv
<1> SUFFICES ASSUME PInit PROVE SerialInv
  OBVIOUS
<1>1. SaveInv
  BY SaveInitially
<1>2. /\ table = [m \in Models |-> NoRows] /\ sequence = [m \in Models |-> 1]
      /\ holder = [m \in Models |-> NoHolder] /\ tagged = [m \in Models |-> NoTagged]
      /\ pc = [t \in Threads |-> "idle"]
  BY DEF PInit, Init, NoRows, NoHolder, NoTagged
<1>3. StoreSound
  <2>1. /\ NoRows \in Tables /\ 1 \in 1 .. MaxPk + 1
        /\ NoHolder \in [Keys -> 0 .. MaxPk] /\ NoTagged \in [Tags -> SUBSET Pks]
    BY EmptySound DEF TableSound
  <2> QED
    BY <1>2, <2>1, EmptySound DEF StoreSound
<1>4. /\ registered = Early /\ listed = <<>> /\ save = NoSave /\ restoring = <<>>
      /\ file = [m \in Models |-> NoFile]
  BY DEF PInit
<1>5. FilesSound /\ SnapshotSound /\ OneBusy /\ \A t \in Threads : ObjectFits(t)
  BY <1>2, <1>4 DEF FilesSound, SnapshotSound, OneBusy, Idle, ObjectFits
<1>6. RestoreFits
  BY <1>2, <1>4 DEF RestoreFits, RestoreFit, Restoring
<1> QED
  BY <1>1, <1>3, <1>4, <1>5, <1>6 DEF SerialInv

\* The indexes answer for a sound table as a scan does.
LEMMA QueriesAgree ==
    ASSUME StoreSound, NEW m \in Models
    PROVE  /\ \A k \in Keys : FilterKey(m, k) = ScanKey(m, k)
           /\ \A g \in Tags : FilterTag(m, g) = ScanTag(m, g)
<1>1. KeysExact(table[m], holder[m]) /\ TagsExact(table[m], tagged[m])
      /\ tagged[m] \in [Tags -> SUBSET Pks]
  BY DEF StoreSound, TableSound
<1>2. ASSUME NEW k \in Keys PROVE FilterKey(m, k) = ScanKey(m, k)
  BY <1>1 DEF KeysExact, FilterKey, ScanKey
<1>3. ASSUME NEW g \in Tags PROVE FilterTag(m, g) = ScanTag(m, g)
  <2>1. tagged[m][g] \subseteq Pks
    BY <1>1
  <2> QED
    BY <1>1, <2>1 DEF TagsExact, FilterTag, ScanTag
<1> QED
  BY <1>2, <1>3

\* What a step of the one busy thread does to the store and to its object.
WorkDone(t) ==
    /\ StoreSound'
    /\ \A m \in Models : sequence[m] <= sequence'[m]
    /\ pc' = [pc EXCEPT ![t] = pc'[t]] /\ pc'[t] \in {"idle", "insert", "held"}
    /\ ObjectFits(t)'

LEMMA CreateDone ==
    ASSUME SerialInv, NEW t \in Threads, NEW m \in Models, NEW row \in Rows,
           Create(t, m, row)
    PROVE  WorkDone(t)
<1> USE StoreAssumption
<1>t. /\ StoreSound /\ pc \in [Threads -> DiskStages] /\ object \in [Threads -> Objects]
      /\ sequence \in [Models -> 1 .. MaxPk + 1]
  BY DEF SerialInv, SaveInv, DiskTypes
<1>1. PICK p : p = sequence[m]
  OBVIOUS
<1>2. /\ p \in Pks /\ sequence' = [sequence EXCEPT ![m] = p + 1]
      /\ object' = [object EXCEPT ![t] = [model |-> m, id |-> p, row |-> row]]
      /\ pc' = [pc EXCEPT ![t] = "insert"] /\ table' = table
      /\ holder' = holder /\ tagged' = tagged
      /\ FilterKey(m, row.key) = {}
  BY <1>1, <1>t DEF Create, Pks
<1>s. PICK rows, hold, tags : rows = table[m] /\ hold = holder[m] /\ tags = tagged[m]
  OBVIOUS
<1>3. TableSound(rows, p, hold, tags)
  BY <1>t, <1>1, <1>s DEF StoreSound
<1>4. TableSound(rows, p + 1, hold, tags)
  BY <1>3, <1>2 DEF TableSound, Beyond, Pks
<1>5. /\ table' = [table EXCEPT ![m] = rows] /\ holder' = [holder EXCEPT ![m] = hold]
      /\ tagged' = [tagged EXCEPT ![m] = tags]
  BY <1>2, <1>s, <1>t DEF StoreSound
<1>6. StoreSound'
  BY <1>t, <1>2, <1>4, <1>5, OneTableSound
<1>7. /\ sequence'[m] = p + 1
      /\ \A n \in Models : n # m => sequence'[n] = sequence[n]
  BY <1>t, <1>2
<1>8. \A n \in Models : sequence[n] <= sequence'[n]
  BY <1>t, <1>1, <1>7
<1>9. table[m][p] = NoRow
  BY <1>2, <1>3, <1>s DEF TableSound, Beyond, Pks
<1>10. KeyIsFree(m, row.key)
  <2>1. row.key \in Keys
    BY RowTypes
  <2>2. ScanKey(m, row.key) = {}
    BY <1>t, <1>2, <2>1, QueriesAgree
  <2> QED
    BY <2>2 DEF ScanKey, KeyIsFree
<1>11. /\ object'[t].model = m /\ object'[t].id = p /\ object'[t].row = row
       /\ pc'[t] = "insert"
  BY <1>t, <1>2
<1>12. p < sequence'[m]
  BY <1>2, <1>7 DEF Pks
<1>13. KeyIsFree(m, row.key)'
  BY <1>2, <1>10 DEF KeyIsFree
<1>14. ObjectFits(t)'
  BY <1>2, <1>9, <1>11, <1>12, <1>13 DEF ObjectFits, KeyIsFree
<1> QED
  BY <1>2, <1>6, <1>8, <1>11, <1>14 DEF WorkDone

LEMMA GetDone ==
    ASSUME SerialInv, NEW t \in Threads, NEW m \in Models, NEW p \in Pks, Get(t, m, p)
    PROVE  WorkDone(t)
<1>t. /\ StoreSound /\ pc \in [Threads -> DiskStages] /\ object \in [Threads -> Objects]
      /\ sequence \in [Models -> 1 .. MaxPk + 1]
  BY DEF SerialInv, SaveInv, DiskTypes
<1>1. PICK row : row = table[m][p]
  OBVIOUS
<1>2. /\ object' = [object EXCEPT ![t] = [model |-> m, id |-> p, row |-> row]]
      /\ pc' = [pc EXCEPT ![t] = "held"] /\ UNCHANGED <<table, sequence, holder, tagged>>
  BY <1>1 DEF Get, store
<1>3. StoreSound'
  BY <1>t, <1>2 DEF StoreSound
<1>4. object'[t] = [model |-> m, id |-> p, row |-> row] /\ pc'[t] = "held"
  BY <1>t, <1>2
<1>5. ObjectFits(t)'
  BY <1>1, <1>2, <1>4 DEF ObjectFits
<1>6. \A n \in Models : sequence[n] <= sequence'[n]
  BY <1>t, <1>2
<1> QED
  BY <1>2, <1>3, <1>4, <1>5, <1>6 DEF WorkDone

\* The thread writes or deletes its row and lets the object go.
LEMMA ReleaseDone ==
    ASSUME SerialInv, NEW t \in Threads, Release(t), StoreSound', UNCHANGED sequence
    PROVE  WorkDone(t)
<1>t. pc \in [Threads -> DiskStages] /\ sequence \in [Models -> 1 .. MaxPk + 1]
  BY DEF SerialInv, SaveInv, DiskTypes
<1>1. pc' = [pc EXCEPT ![t] = "idle"] /\ pc'[t] = "idle"
  BY <1>t DEF Release
<1>2. \A n \in Models : sequence[n] <= sequence'[n]
  BY <1>t
<1> QED
  BY <1>1, <1>2 DEF WorkDone, ObjectFits

LEMMA WorkEffect ==
    ASSUME ~ KeysChange, SerialInv, NEW t \in Threads, BeginRegistered(t) \/ Step(t)
    PROVE  WorkDone(t)
<1> USE StoreAssumption
<1>t. /\ StoreSound /\ object \in [Threads -> Objects] /\ registered \in Seq(Models)
      /\ ObjectFits(t)
  BY DEF SerialInv, SaveInv, DiskTypes
<1>1. PICK m, p, row :
        m = object[t].model /\ p = object[t].id /\ row = object[t].row
  OBVIOUS
<1>2. m \in Models /\ row \in Rows
  BY <1>t, <1>1 DEF Objects
<1>m. ToSet(registered) \subseteq Models
  BY <1>t, ElementOfSeq, LenProperties DEF ToSet
<1>3. CASE Insert(t)
  <2>1. /\ p \in Pks /\ p < sequence[m] /\ table[m][p] = NoRow
        /\ \A q \in Pks : table[m][q] # NoRow => table[m][q].key # row.key
    BY <1>t, <1>1, <1>3 DEF ObjectFits, Insert, KeyIsFree
  <2>2. Write(m, p, NoRow, row) /\ Release(t) /\ UNCHANGED sequence
    BY <1>1, <1>3 DEF Insert
  <2>3. StoreSound'
    BY <1>t, <1>2, <2>1, <2>2, WriteSound
  <2> QED
    BY <2>2, <2>3, ReleaseDone
<1>h. ASSUME pc[t] = "held"
      PROVE  /\ p \in Pks /\ table[m][p] = row /\ row # NoRow /\ p < sequence[m]
  <2>1. p \in Pks /\ table[m][p] = row
    BY <1>t, <1>1, <1>h DEF ObjectFits
  <2>2. Beyond(table[m], sequence[m])
    BY <1>t, <1>2 DEF StoreSound, TableSound
  <2> QED
    BY <1>2, <2>1, <2>2, RowTypes DEF Beyond
<1>4. CASE Retag(t)
  <2>1. PICK g \in Tags : SaveCopy(t, [object[t].row EXCEPT !.tag = g])
    BY <1>4 DEF Retag
  <2>2. PICK new : new = [row EXCEPT !.tag = g]
    OBVIOUS
  <2>3. new \in Rows /\ new.key = row.key
    BY <1>2, <2>2, RowTypes
  <2>4. /\ pc[t] = "held" /\ Write(m, p, table[m][p], new)
        /\ Release(t) /\ UNCHANGED sequence
    BY <1>1, <2>1, <2>2 DEF SaveCopy
  <2>5. /\ p \in Pks /\ table[m][p] = row /\ row # NoRow /\ p < sequence[m]
    BY <1>h, <2>4
  <2>6. Write(m, p, row, new)
    BY <2>4, <2>5
  <2>7. StoreSound'
    BY <1>t, <1>2, <2>3, <2>4, <2>5, <2>6, WriteSound
  <2> QED
    BY <2>4, <2>7, ReleaseDone
<1>5. CASE Rename(t)
  BY <1>5 DEF Rename
<1>6. CASE Delete(t)
  <2>1. /\ p \in Pks /\ table[m][p] = row /\ row # NoRow /\ p < sequence[m]
    <3>1. pc[t] = "held"
      BY <1>6, Zenon DEF Delete
    <3> QED
      BY <1>h, <3>1
  <2>2. /\ table' = [table EXCEPT ![m][p] = NoRow]
        /\ holder' = [holder EXCEPT ![m][row.key] = IF @ = p THEN 0 ELSE @]
        /\ tagged' = [tagged EXCEPT ![m][row.tag] = @ \ {p}]
        /\ Release(t) /\ UNCHANGED sequence
    <3>1. table[m][p] # NoRow
      BY <2>1, <1>2, RowTypes
    <3> QED
      BY <1>1, <1>6, <2>1, <3>1 DEF Delete
  <2>3. StoreSound'
    BY <1>t, <1>2, <2>1, <2>2, DeleteSound
  <2> QED
    BY <2>2, <2>3, ReleaseDone
<1>7. ASSUME BeginRegistered(t) PROVE WorkDone(t)
  <2>1. PICK n \in ToSet(registered) :
            \/ \E new \in Rows : Create(t, n, new)
            \/ \E q \in Pks : Get(t, n, q)
    BY <1>7 DEF BeginRegistered
  <2> QED
    BY <1>m, <2>1, CreateDone, GetDone
<1> QED
  BY <1>3, <1>4, <1>5, <1>6, <1>7 DEF Step

\* While no restore runs, its invariant says nothing.
LEMMA NoRestoreFits ==
    ASSUME ~ Restoring, restoring \in Seq(Models)
    PROVE  RestoreFits
BY DEF RestoreFits, RestoreFit, Restoring

LEMMA WorkIsSerial ==
    ASSUME ~ KeysChange, SerialInv, NEW t \in Threads, ~ Restoring, Alone(t), Work(t)
    PROVE  SerialInv'
<1>t. /\ SaveInv /\ FilesSound /\ SnapshotSound /\ OneBusy /\ pc \in [Threads -> DiskStages]
      /\ restoring \in Seq(Models) /\ sequence \in [Models -> 1 .. MaxPk + 1]
      /\ save \in SaveRecords \cup {NoSave}
      /\ \A u \in Threads : ObjectFits(u)
      /\ registered = Early /\ listed \in {<<>>, Early, Archived}
  BY DEF SerialInv, SaveInv, DiskTypes, RestoreFits
<1>1. /\ BeginRegistered(t) \/ Step(t)
      /\ UNCHANGED <<registered, file, listed, save, restoring>>
  BY DEF Work, StoreStep
<1>2. WorkDone(t)
  BY <1>1, WorkEffect
<1>3. SaveInv'
  BY <1>t, WorkKeepsSaves
<1>4. FilesSound'
  BY <1>t, <1>1 DEF FilesSound
<1>5. \A u \in Threads \ {t} : Idle(u)
  <2>1. CASE pc[t] = "idle"
    BY <2>1 DEF Alone
  <2>2. CASE pc[t] # "idle"
    <3>1. pc[t] \in {"insert", "held"}
      <4>1. ~ BeginRegistered(t)
        BY <2>2 DEF BeginRegistered, Create, Get
      <4>2. Insert(t) => pc[t] = "insert"
        BY DEF Insert
      <4>3. Retag(t) => pc[t] = "held"
        BY DEF Retag, SaveCopy
      <4>4. Delete(t) => pc[t] = "held"
        BY Zenon DEF Delete
      <4> QED
        BY <1>1, <4>1, <4>2, <4>3, <4>4 DEF Step, Rename
    <3>2. ~ Idle(t)
      BY <3>1 DEF Idle
    <3> QED
      BY <1>t, <3>2 DEF OneBusy
  <2> QED
    BY <2>1, <2>2
<1>6. \A u \in Threads \ {t} : pc'[u] = pc[u] /\ Idle(u)'
  BY <1>t, <1>2, <1>5 DEF WorkDone, Idle
<1>7. OneBusy'
  BY <1>6 DEF OneBusy
<1>8. ~ Restoring'
  BY <1>2, <1>6 DEF Restoring, Idle, WorkDone
<1>9. \A u \in Threads : ObjectFits(u)'
  <2> SUFFICES ASSUME NEW u \in Threads, u # t PROVE ObjectFits(u)'
    BY <1>2 DEF WorkDone
  <2> QED
    BY <1>6 DEF ObjectFits, Idle
<1>10. SnapshotSound'
  <2> SUFFICES ASSUME save # NoSave, save.rows # NoFile, save.todo # <<>>
               PROVE  Beyond(save.rows, sequence[Head(save.todo)])'
    BY <1>t, <1>1 DEF SnapshotSound
  <2>1. PICK m \in Models : m = Head(save.todo)
    BY <1>t, HeadAndTail DEF SaveRecords
  <2>2. Beyond(save.rows, sequence[m])
    BY <1>t, <2>1 DEF SnapshotSound
  <2>3. sequence[m] <= sequence'[m]
    BY <1>2 DEF WorkDone
  <2>4. sequence[m] \in Int /\ sequence'[m] \in Int
    BY <1>2, <1>t DEF WorkDone, StoreSound
  <2>5. Beyond(save.rows, sequence'[m])
    BY <2>2, <2>3, <2>4 DEF Beyond, Pks
  <2> QED
    BY <1>1, <2>1, <2>5
<1>11. RestoreFits'
  BY <1>t, <1>1, <1>8 DEF RestoreFits, RestoreFit, Restoring
<1> QED
  BY <1>1, <1>2, <1>3, <1>4, <1>7, <1>9, <1>10, <1>11, <1>t DEF SerialInv, WorkDone

\* A step that leaves store and objects alone.
LEMMA QuietStep ==
    ASSUME SerialInv, NEW t \in Threads, NEW stage, stage \notin {"insert", "held"},
           UNCHANGED <<store, object>>, pc' = [pc EXCEPT ![t] = stage]
    PROVE  /\ StoreSound' /\ \A u \in Threads : ObjectFits(u)'
           /\ pc'[t] = stage /\ \A u \in Threads \ {t} : pc'[u] = pc[u]
<1>1. /\ StoreSound /\ pc \in [Threads -> DiskStages] /\ \A u \in Threads : ObjectFits(u)
      /\ UNCHANGED <<table, sequence, holder, tagged, object>>
  BY DEF SerialInv, SaveInv, DiskTypes, store
<1>2. StoreSound'
  BY <1>1 DEF StoreSound
<1>3. pc'[t] = stage /\ \A u \in Threads \ {t} : pc'[u] = pc[u]
  BY <1>1
<1>4. ASSUME NEW u \in Threads PROVE ObjectFits(u)'
  BY <1>1, <1>3 DEF ObjectFits, KeyIsFree
<1> QED
  BY <1>2, <1>3, <1>4

LEMMA SaveIsSerial ==
    ASSUME SerialInv, NEW t \in Threads, ~ Restoring, Save(t)
    PROVE  SerialInv'
<1>t. /\ SaveInv /\ StoreSound /\ FilesSound /\ SnapshotSound /\ OneBusy
      /\ pc \in [Threads -> DiskStages]
      /\ restoring \in Seq(Models) /\ save \in SaveRecords \cup {NoSave}
      /\ file \in [Models -> File \cup {NoFile}]
      /\ registered = Early /\ listed \in {<<>>, Early, Archived}
      /\ save # NoSave <=> \E u \in Threads : pc[u] = "save"
  BY DEF SerialInv, SaveInv, DiskTypes, RestoreFits, OneSaver
<1>f. \A s \in SaveRecords : s # NoSave
  BY FilesAreNotNone
<1>1. SaveInv'
  BY <1>t, BeginSaveKeepsSaves, ReadRowsKeepsSaves, WriteFileKeepsSaves,
     EndSaveKeepsSaves DEF Save
<1>2. /\ \E stage \in {"idle", "save"} : pc' = [pc EXCEPT ![t] = stage]
      /\ UNCHANGED <<store, object, registered, restoring>> /\ Idle(t)
  <2>1. CASE BeginSave(t)
    BY <2>1 DEF BeginSave, Idle
  <2>2. CASE ReadRows(t)
    BY <2>2, <1>t DEF ReadRows, memory, Idle
  <2>3. CASE WriteFile(t)
    BY <2>3, <1>t DEF WriteFile, memory, Idle
  <2>4. CASE EndSave(t)
    BY <2>4 DEF EndSave, Idle
  <2> QED
    BY <2>1, <2>2, <2>3, <2>4 DEF Save
<1>3. PICK stage \in {"idle", "save"} : pc' = [pc EXCEPT ![t] = stage]
  BY <1>2
<1>4. /\ StoreSound' /\ \A u \in Threads : ObjectFits(u)'
      /\ pc'[t] = stage /\ \A u \in Threads \ {t} : pc'[u] = pc[u]
  BY <1>2, <1>3, QuietStep
<1>5. OneBusy' /\ ~ Restoring'
  BY <1>t, <1>2, <1>4 DEF OneBusy, Idle, Restoring
<1>6. RestoreFits'
  BY <1>t, <1>2, <1>5 DEF RestoreFits, RestoreFit, Restoring
<1>7. /\ listed' \in {<<>>, Early, Archived}
      /\ FilesSound' /\ SnapshotSound'
  <2>1. CASE BeginSave(t)
    BY <2>1, <1>t DEF BeginSave, SaveOrder, disk, FilesSound, SnapshotSound
  <2>2. CASE ReadRows(t)
    <3>1. /\ pc[t] = "save" /\ save.todo # <<>>
          /\ save' = [save EXCEPT !.rows = table[Head(save.todo)]]
          /\ UNCHANGED <<sequence, file, listed>>
      BY <2>2 DEF ReadRows, memory, store, disk
    <3>2. PICK was \in SaveRecords : was = save
      BY <1>t, <3>1
    <3>3. PICK m \in Models : m = Head(was.todo)
      BY <3>1, <3>2, HeadAndTail DEF SaveRecords
    <3>4. PICK rows : rows = table[m]
      OBVIOUS
    <3>5. UniqueKeys(rows) /\ Beyond(rows, sequence[m])
      BY <1>t, <3>3, <3>4 DEF StoreSound, TableSound
    <3>6. /\ save'.models = was.models /\ save'.todo = was.todo /\ save'.rows = rows
      <4>1. save' = [was EXCEPT !.rows = rows]
        BY <3>1, <3>2, <3>3, <3>4
      <4> QED
        BY <4>1 DEF SaveRecords
    <3>7. was.models = Early
      BY <1>t, <1>f, <3>2 DEF SnapshotSound
    <3>8. SnapshotSound'
      BY <3>1, <3>2, <3>3, <3>5, <3>6, <3>7 DEF SnapshotSound
    <3> QED
      BY <1>t, <3>1, <3>8 DEF FilesSound
  <2>3. CASE WriteFile(t)
    <3>1. /\ pc[t] = "save" /\ save.todo # <<>> /\ save.rows # NoFile
          /\ save' = [save EXCEPT !.todo = Tail(@), !.rows = NoFile]
          /\ UNCHANGED <<sequence, listed>>
      BY <2>3 DEF WriteFile, memory, store
    <3>2. PICK was \in SaveRecords : was = save
      BY <1>t, <3>1
    <3>3. PICK m \in Models : m = Head(was.todo)
      BY <3>1, <3>2, HeadAndTail DEF SaveRecords
    <3>4. /\ was.models = Early /\ UniqueKeys(was.rows)
          /\ Beyond(was.rows, sequence[m])
      BY <1>t, <1>f, <3>1, <3>2, <3>3 DEF SnapshotSound
    <3>5. save'.models = was.models /\ save'.rows = NoFile
      <4>1. save' = [was EXCEPT !.todo = Tail(was.todo), !.rows = NoFile]
        BY <3>1, <3>2
      <4> QED
        BY <4>1 DEF SaveRecords
    <3>6. SnapshotSound'
      BY <3>4, <3>5 DEF SnapshotSound
    <3>7. PICK written : written = [rows |-> was.rows, next |-> sequence[m]]
      OBVIOUS
    <3>8. FileSound(written)
      BY <3>4, <3>7 DEF FileSound
    <3>9. file' = [file EXCEPT ![m] = written] \/ file' = file
      BY <2>3, <3>2, <3>3, <3>7 DEF WriteFile
    <3>10. \A n \in Models : file'[n] = file[n] \/ file'[n] = written
      BY <1>t, <3>9
    <3>11. FilesSound'
      BY <1>t, <3>8, <3>10 DEF FilesSound
    <3> QED
      BY <1>t, <3>1, <3>6, <3>11
  <2>4. CASE EndSave(t)
    <3>1. /\ pc[t] = "save" /\ listed' \in {save.models, listed} /\ save' = NoSave
          /\ file' = file
      BY <2>4 DEF EndSave
    <3>2. save.models = Early
      BY <1>t, <3>1 DEF SnapshotSound
    <3> QED
      BY <1>t, <3>1, <3>2 DEF FilesSound, SnapshotSound
  <2> QED
    BY <2>1, <2>2, <2>3, <2>4 DEF Save
<1> QED
  BY <1>1, <1>2, <1>4, <1>5, <1>6, <1>7, <1>t DEF SerialInv

RestoreStages == {"idle", "extract", "clear", "load"}

\* What a step of the restoring thread must show.
LEMMA RestoreStep ==
    ASSUME SerialInv, NEW t \in Threads, save = NoSave, Alone(t),
           pc[t] \in RestoreStages, NEW stage \in RestoreStages,
           pc' = [pc EXCEPT ![t] = stage], UNCHANGED <<object, registered, save>>,
           StoreSound', FilesSound', file' \in [Models -> File \cup {NoFile}],
           listed' \in {<<>>, Early, Archived}, restoring' \in Seq(Models),
           \A s \in settled' : s \in settled /\ file'[s[1]] = file[s[1]]
                                             /\ table'[s[1]] = table[s[1]],
           RestoreFit(t)'
    PROVE  SerialInv'
<1>t. /\ DiskTypes /\ OneSaver /\ SettledAreKept /\ OneBusy
      /\ pc \in [Threads -> DiskStages] /\ registered = Early
  BY DEF SerialInv, SaveInv, DiskTypes
<1>1. \A u \in Threads \ {t} : Idle(u)
  BY <1>t DEF Alone, OneBusy, Idle, RestoreStages
<1>2. pc'[t] = stage /\ \A u \in Threads \ {t} : pc'[u] = pc[u]
  BY <1>t
<1>3. \A u \in Threads \ {t} : Idle(u)'
  BY <1>1, <1>2 DEF Idle
<1>4. OneBusy'
  BY <1>3 DEF OneBusy
<1>5. OneSaver'
  BY <1>t, <1>2 DEF OneSaver, RestoreStages
<1>6. \A u \in Threads : ObjectFits(u)'
  BY <1>2, <1>3 DEF ObjectFits, Idle, RestoreStages
<1>7. \A u \in Threads : RestoreFit(u)'
  BY <1>3 DEF RestoreFit, Idle
<1>8. RestoreFits' /\ SnapshotSound'
  BY <1>7 DEF RestoreFits, SnapshotSound
<1>9. DiskTypes'
  <2>1. table' \in [Models -> Tables] /\ sequence' \in [Models -> 1 .. MaxPk + 1]
    BY DEF StoreSound
  <2>2. pc' \in [Threads -> DiskStages]
    BY <1>t DEF DiskStages, RestoreStages
  <2>3. settled' \subseteq Models \X Pks
    BY <1>t DEF DiskTypes
  <2> QED
    BY <1>t, <2>1, <2>2, <2>3 DEF DiskTypes
<1>10. SettledAreKept'
  <2> SUFFICES ASSUME NEW m \in Models, NEW p \in Pks, <<m, p>> \in settled'
               PROVE  ReadOrOnDisk(m, p)'
    BY DEF SettledAreKept
  <2>1. <<m, p>> \in settled /\ file'[m] = file[m] /\ table'[m] = table[m]
    <3>1. PICK s : s = <<m, p>>
      OBVIOUS
    <3>2. s \in settled /\ file'[s[1]] = file[s[1]] /\ table'[s[1]] = table[s[1]]
      BY <3>1
    <3> QED
      BY <3>1, <3>2
  <2>2. OnDisk(m, p)
    BY <1>t, <2>1 DEF SettledAreKept, ReadOrOnDisk
  <2> QED
    BY <2>1, <2>2 DEF ReadOrOnDisk, OnDisk
<1> QED
  BY <1>t, <1>4, <1>5, <1>6, <1>8, <1>9, <1>10 DEF SerialInv, SaveInv

LEMMA ArchiveTyped ==
    /\ Archived \in Seq(Models) /\ Early \in Seq(Models)
    /\ ToSet(Archived) \subseteq Models /\ ToSet(Early) \subseteq Models
    /\ \A m \in ToSet(Archived) : Archive[m] \in File /\ Archive[m] # NoFile
BY FilesAssumption, FilesAreNotNone, ElementOfSeq, LenProperties DEF ToSet

LEMMA ExtractIsSerial ==
    ASSUME ArchiveIsSound, SerialInv, NEW t \in Threads, save = NoSave, Alone(t),
           Extract(t)
    PROVE  SerialInv'
<1>t. /\ StoreSound /\ FilesSound /\ RestoreFit(t)
      /\ file \in [Models -> File \cup {NoFile}]
      /\ pc \in [Threads -> DiskStages]
      /\ restoring \in Seq(Models) /\ listed \in {<<>>, Early, Archived}
  BY DEF SerialInv, SaveInv, DiskTypes, RestoreFits
<1>1. PICK m : m = Head(restoring)
  OBVIOUS
<1>2. /\ pc[t] = "extract" /\ restoring # <<>>
      /\ file' = [file EXCEPT ![m] = Archive[m]]
      /\ restoring' = Tail(restoring)
      /\ settled' = {s \in settled : s[1] # m}
      /\ UNCHANGED <<table, sequence, holder, tagged, pc, object, registered, listed, save>>
  BY <1>1 DEF Extract, memory, store
<1>3. /\ m \in Models /\ restoring' \in Seq(Models)
      /\ m \in ToSet(restoring)
      /\ \A n \in ToSet(restoring) : n = m \/ n \in ToSet(restoring')
      /\ ToSet(restoring') \subseteq ToSet(restoring)
  BY <1>t, <1>1, <1>2, HeadAndTail
<1>4. m \in ToSet(Archived)
  BY <1>t, <1>2, <1>3 DEF RestoreFit
<1>5. PICK data \in File : data = Archive[m] /\ FileSound(data)
  BY <1>4, ArchiveTyped DEF ArchiveIsSound
<1>6. /\ file' \in [Models -> File \cup {NoFile}] /\ file'[m] = data
      /\ \A n \in Models : n # m => file'[n] = file[n]
  BY <1>t, <1>2, <1>3, <1>5
<1>7. FilesSound'
  BY <1>t, <1>5, <1>6 DEF FilesSound
<1>8. StoreSound'
  BY <1>t, <1>2 DEF StoreSound
<1>9. RestoreFit(t)'
  <2>1. \A n \in ToSet(Archived) : n \in ToSet(restoring') \/ file'[n] = Archive[n]
    BY <1>t, <1>2, <1>3, <1>5, <1>6, ArchiveTyped DEF RestoreFit
  <2>2. pc'[t] = "extract" /\ ToSet(restoring') \subseteq ToSet(Archived)
    BY <1>t, <1>2, <1>3 DEF RestoreFit
  <2> QED
    BY <2>1, <2>2 DEF RestoreFit
<1>10. \A s \in settled' : s \in settled /\ file'[s[1]] = file[s[1]]
                                         /\ table'[s[1]] = table[s[1]]
  <2> SUFFICES ASSUME NEW s \in settled' PROVE s \in settled /\ file'[s[1]] = file[s[1]]
    BY <1>2
  <2>1. s \in settled /\ s[1] # m
    BY <1>2
  <2>2. s[1] \in Models
    BY <2>1 DEF SerialInv, SaveInv, DiskTypes
  <2> QED
    BY <1>6, <2>1, <2>2
<1>11. pc' = [pc EXCEPT ![t] = "extract"] /\ "extract" \in RestoreStages
  BY <1>t, <1>2 DEF RestoreStages
<1>12. listed' \in {<<>>, Early, Archived} /\ UNCHANGED <<object, registered, save>>
  BY <1>t, <1>2
<1> QED
  BY <1>2, <1>3, <1>6, <1>7, <1>8, <1>9, <1>10, <1>11, <1>12, RestoreStep

LEMMA LoadNextIsSerial ==
    ASSUME ArchiveIsSound, SerialInv, NEW t \in Threads, save = NoSave, Alone(t),
           LoadNext(t)
    PROVE  SerialInv'
<1>t. /\ StoreSound /\ FilesSound /\ RestoreFit(t)
      /\ file \in [Models -> File \cup {NoFile}]
      /\ pc \in [Threads -> DiskStages] /\ registered = Early
      /\ restoring \in Seq(Models) /\ listed \in {<<>>, Early, Archived}
  BY DEF SerialInv, SaveInv, DiskTypes, RestoreFits
<1>1. PICK m : m = Head(restoring)
  OBVIOUS
<1>2. /\ pc[t] = "load" /\ restoring # <<>>
      /\ IF m \in ToSet(Early) /\ file[m] # NoFile THEN LoadFile(m, file[m])
                                                   ELSE UNCHANGED store
      /\ restoring' = Tail(restoring)
      /\ settled' = {s \in settled : s[1] # m}
      /\ UNCHANGED <<pc, object, registered, file, listed, save>>
  BY <1>1, <1>t DEF LoadNext, disk
<1>3. /\ m \in Models /\ restoring' \in Seq(Models)
      /\ \A n \in ToSet(restoring) : n = m \/ n \in ToSet(restoring')
  BY <1>t, <1>1, <1>2, HeadAndTail
<1>4. listed = Archived /\ Extracted /\ \A n \in Models : OfArchive(n)
  BY <1>t, <1>2 DEF RestoreFit
<1>5. /\ StoreSound'
      /\ \A n \in Models : n # m => table'[n] = table[n]
      /\ OfArchive(m)'
      /\ m \in ToSet(Archived) \cap ToSet(Early) => table'[m] = Archive[m].rows
  <2>1. CASE m \in ToSet(Early) /\ file[m] # NoFile /\ m \in ToSet(Archived)
    <3>1. PICK data : data = file[m]
      OBVIOUS
    <3>2. data = Archive[m] /\ data \in File /\ FileSound(data)
      BY <2>1, <3>1, <1>4, ArchiveTyped DEF Extracted, ArchiveIsSound
    <3>3. PICK rows, next, hold, tags :
            /\ rows = table[m] /\ next = sequence[m] /\ hold = holder[m] /\ tags = tagged[m]
      OBVIOUS
    <3>4. TableSound(rows, next, hold, tags)
      BY <1>t, <1>3, <3>3 DEF StoreSound
    <3>5. \A p \in Pks : rows[p] # NoRow => rows[p] = data.rows[p]
      BY <1>3, <1>4, <2>1, <3>2, <3>3 DEF OfArchive
    <3>6. /\ LoadTable(data, rows, hold) = data.rows
          /\ LoadSequence(data, hold, next) = data.next
          /\ TableSound(data.rows, data.next, LoadHolder(data, hold),
                        LoadTagged(data, hold, tags))
      BY <3>2, <3>4, <3>5, LoadedSound
    <3>7. PICK held, marked : held = LoadHolder(data, hold) /\ marked = LoadTagged(data, hold, tags)
      OBVIOUS
    <3>8. PICK new, after : new = data.rows /\ after = data.next
      OBVIOUS
    <3>9. TableSound(new, after, held, marked)
      BY <3>6, <3>7, <3>8
    <3>10. LoadFile(m, data)
      BY <1>2, <2>1, <3>1
    <3>11. /\ table' = [table EXCEPT ![m] = LoadTable(data, rows, hold)]
           /\ holder' = [holder EXCEPT ![m] = held]
           /\ tagged' = [tagged EXCEPT ![m] = marked]
           /\ sequence' = [sequence EXCEPT ![m] = LoadSequence(data, hold, next)]
      BY <3>3, <3>7, <3>10 DEF LoadFile
    <3>12. table' = [table EXCEPT ![m] = new] /\ sequence' = [sequence EXCEPT ![m] = after]
      BY <3>6, <3>8, <3>11
    <3>13. /\ StoreSound' /\ table'[m] = new
           /\ \A n \in Models : n # m => table'[n] = table[n]
      BY <1>t, <1>3, <3>9, <3>11, <3>12, OneTableSound
    <3> QED
      BY <2>1, <3>2, <3>8, <3>13 DEF OfArchive
  <2>2. CASE m \in ToSet(Early) /\ file[m] # NoFile /\ m \notin ToSet(Archived)
    <3>1. ToSet(restoring) \subseteq ToSet(Archived)
      BY <1>t, <1>2 DEF RestoreFit
    <3> QED
      BY <2>2, <3>1, <1>1, <1>2, <1>t, HeadAndTail
  <2>3. CASE ~ (m \in ToSet(Early) /\ file[m] # NoFile)
    <3>1. UNCHANGED <<table, sequence, holder, tagged>>
      BY <1>2, <2>3 DEF store
    <3>2. StoreSound'
      BY <1>t, <3>1 DEF StoreSound
    <3>3. m \in ToSet(Archived) \cap ToSet(Early) => FALSE
      BY <1>4, <2>3, ArchiveTyped DEF Extracted
    <3>4. OfArchive(m)'
      BY <1>3, <1>4, <3>1 DEF OfArchive
    <3> QED
      BY <3>1, <3>2, <3>3, <3>4
  <2> QED
    BY <2>1, <2>2, <2>3
<1>6. RestoreFit(t)'
  <2>1. \A n \in Models : OfArchive(n)'
    <3> SUFFICES ASSUME NEW n \in Models, n # m PROVE OfArchive(n)'
      BY <1>5
    <3> QED
      BY <1>4, <1>5 DEF OfArchive
  <2>2. \A n \in ToSet(Archived) \cap ToSet(Early) :
           n \in ToSet(restoring') \/ table'[n] = Archive[n].rows
    <3> SUFFICES ASSUME NEW n \in ToSet(Archived) \cap ToSet(Early), n # m
                 PROVE  n \in ToSet(restoring') \/ table'[n] = Archive[n].rows
      BY <1>5
    <3>1. n \in ToSet(restoring) \/ table[n] = Archive[n].rows
      BY <1>t, <1>2 DEF RestoreFit
    <3> QED
      BY <1>3, <1>5, <3>1, ArchiveTyped
  <2>3. ToSet(restoring') \subseteq ToSet(Archived)
    BY <1>t, <1>2, HeadAndTail DEF RestoreFit
  <2>4. pc'[t] = "load" /\ listed' = Archived /\ Extracted'
    BY <1>2, <1>4 DEF Extracted
  <2> QED
    BY <2>1, <2>2, <2>3, <2>4 DEF RestoreFit
<1>7. FilesSound'
  BY <1>t, <1>2 DEF FilesSound
<1>8. \A s \in settled' : s \in settled /\ file'[s[1]] = file[s[1]]
                                        /\ table'[s[1]] = table[s[1]]
  <2> SUFFICES ASSUME NEW s \in settled' PROVE s \in settled /\ table'[s[1]] = table[s[1]]
    BY <1>2
  <2>1. s \in settled /\ s[1] # m
    BY <1>2
  <2>2. s[1] \in Models
    BY <2>1 DEF SerialInv, SaveInv, DiskTypes
  <2> QED
    BY <1>5, <2>1, <2>2
<1>9. /\ pc' = [pc EXCEPT ![t] = "load"] /\ "load" \in RestoreStages
      /\ pc[t] \in RestoreStages
  BY <1>t, <1>2 DEF RestoreStages
<1>10. /\ listed' \in {<<>>, Early, Archived} /\ UNCHANGED <<object, registered, save>>
       /\ file' \in [Models -> File \cup {NoFile}]
  BY <1>t, <1>2
<1> QED
  BY <1>3, <1>5, <1>6, <1>7, <1>8, <1>9, <1>10, RestoreStep

LEMMA ClearIsSerial ==
    ASSUME SerialInv, NEW t \in Threads, save = NoSave, Alone(t), Clear(t)
    PROVE  SerialInv'
<1>t. /\ FilesSound /\ RestoreFit(t)
      /\ file \in [Models -> File \cup {NoFile}]
      /\ pc \in [Threads -> DiskStages]
      /\ listed \in {<<>>, Early, Archived}
  BY DEF SerialInv, SaveInv, DiskTypes, RestoreFits
<1>1. /\ pc[t] = "clear" /\ pc' = [pc EXCEPT ![t] = "load"]
      /\ table' = [m \in Models |-> NoRows] /\ sequence' = [m \in Models |-> 1]
      /\ holder' = [m \in Models |-> NoHolder] /\ tagged' = [m \in Models |-> NoTagged]
      /\ restoring' = listed /\ settled' = {}
      /\ UNCHANGED <<object, registered, file, listed, save>>
  BY DEF Clear, disk
<1>2. StoreSound'
  <2>1. /\ NoRows \in Tables /\ 1 \in 1 .. MaxPk + 1
        /\ NoHolder \in [Keys -> 0 .. MaxPk] /\ NoTagged \in [Tags -> SUBSET Pks]
    BY EmptySound DEF TableSound
  <2> QED
    BY <1>1, <2>1, EmptySound DEF StoreSound
<1>3. listed = Archived /\ Extracted
  BY <1>t, <1>1 DEF RestoreFit
<1>4. \A m \in Models : OfArchive(m)'
  <2> SUFFICES ASSUME NEW m \in Models PROVE OfArchive(m)'
    OBVIOUS
  <2>1. table'[m] = NoRows /\ \A p \in Pks : NoRows[p] = NoRow
    BY <1>1 DEF NoRows
  <2> QED
    BY <2>1 DEF OfArchive
<1>5. RestoreFit(t)'
  BY <1>t, <1>1, <1>3, <1>4, ArchiveTyped DEF RestoreFit, Extracted
<1>6. FilesSound'
  BY <1>t, <1>1 DEF FilesSound
<1>7. pc[t] \in RestoreStages /\ "load" \in RestoreStages
  BY <1>1 DEF RestoreStages
<1>8. /\ listed' \in {<<>>, Early, Archived} /\ restoring' \in Seq(Models)
      /\ UNCHANGED <<object, registered, save>>
      /\ file' \in [Models -> File \cup {NoFile}]
  BY <1>t, <1>1, <1>3, ArchiveTyped
<1>9. \A s \in settled' : s \in settled /\ file'[s[1]] = file[s[1]]
                                        /\ table'[s[1]] = table[s[1]]
  BY <1>1
<1> QED
  BY <1>1, <1>2, <1>5, <1>6, <1>7, <1>8, <1>9, RestoreStep

\* The steps of a restore that leave tables and files alone.
LEMMA TurnIsSerial ==
    ASSUME SerialInv, NEW t \in Threads, save = NoSave, Alone(t),
           BeginRestore(t) \/ ExtractMeta(t) \/ EndRestore(t)
    PROVE  SerialInv'
<1>t. /\ StoreSound /\ FilesSound /\ RestoreFit(t)
      /\ file \in [Models -> File \cup {NoFile}]
      /\ pc \in [Threads -> DiskStages]
      /\ restoring \in Seq(Models) /\ listed \in {<<>>, Early, Archived}
  BY DEF SerialInv, SaveInv, DiskTypes, RestoreFits
<1>1. /\ UNCHANGED <<table, sequence, holder, tagged, object, registered, file, save, settled>>
      /\ restoring' \in Seq(Models) /\ listed' \in {<<>>, Early, Archived}
      /\ pc[t] \in RestoreStages
      /\ \E stage \in RestoreStages : pc' = [pc EXCEPT ![t] = stage] /\ RestoreFit(t)'
  <2>1. CASE BeginRestore(t)
    <3>1. /\ pc[t] = "idle" /\ pc' = [pc EXCEPT ![t] = "extract"] /\ restoring' = Archived
          /\ UNCHANGED <<table, sequence, holder, tagged, object, registered, file, listed,
                         save, settled>>
      BY <2>1 DEF BeginRestore, store, disk
    <3>2. RestoreFit(t)'
      BY <1>t, <3>1 DEF RestoreFit
    <3> QED
      BY <1>t, <3>1, <3>2, ArchiveTyped DEF RestoreStages
  <2>2. CASE ExtractMeta(t)
    <3>1. /\ pc[t] = "extract" /\ restoring = <<>> /\ listed' = Archived
          /\ pc' = [pc EXCEPT ![t] = "clear"]
          /\ UNCHANGED <<table, sequence, holder, tagged, object, registered, file, save,
                         restoring, settled>>
      BY <2>2 DEF ExtractMeta, store
    <3>2. ToSet(restoring) = {}
      BY <3>1 DEF ToSet
    <3>3. Extracted'
      BY <1>t, <3>1, <3>2 DEF RestoreFit, Extracted
    <3>4. RestoreFit(t)'
      BY <1>t, <3>1, <3>3 DEF RestoreFit
    <3> QED
      BY <1>t, <3>1, <3>4 DEF RestoreStages
  <2>3. CASE EndRestore(t)
    <3>1. /\ pc[t] = "load" /\ pc' = [pc EXCEPT ![t] = "idle"]
          /\ UNCHANGED <<table, sequence, holder, tagged, object, registered, file, listed,
                         save, restoring, settled>>
      BY <2>3 DEF EndRestore, store, disk
    <3>2. RestoreFit(t)'
      BY <1>t, <3>1 DEF RestoreFit
    <3> QED
      BY <1>t, <3>1, <3>2 DEF RestoreStages
  <2> QED
    BY <2>1, <2>2, <2>3
<1>2. StoreSound' /\ FilesSound'
  BY <1>t, <1>1 DEF StoreSound, FilesSound
<1>3. PICK stage \in RestoreStages : pc' = [pc EXCEPT ![t] = stage] /\ RestoreFit(t)'
  BY <1>1
<1>4. \A s \in settled' : s \in settled /\ file'[s[1]] = file[s[1]]
                                        /\ table'[s[1]] = table[s[1]]
  BY <1>1
<1>5. file' \in [Models -> File \cup {NoFile}] /\ UNCHANGED <<object, registered, save>>
  BY <1>t, <1>1
<1> QED
  BY <1>1, <1>2, <1>3, <1>4, <1>5, RestoreStep

\* What a restart makes of the files.
LEMMA RestartLoads ==
    ASSUME SerialInv, Restart
    PROVE  /\ StoreSound'
           /\ \A m \in ToSet(listed) \cap ToSet(Early) :
                 file[m] # NoFile => /\ table'[m] = file[m].rows
                                     /\ sequence'[m] = file[m].next
<1> USE StoreAssumption
<1>t. FilesSound /\ file \in [Models -> File \cup {NoFile}]
  BY DEF SerialInv, SaveInv, DiskTypes
<1>e. /\ NoRows \in Tables /\ 1 \in 1 .. MaxPk + 1
      /\ NoHolder \in [Keys -> 0 .. MaxPk] /\ NoTagged \in [Tags -> SUBSET Pks]
  BY EmptySound DEF TableSound
<1> DEFINE found == {m \in ToSet(listed) \cap ToSet(Early) : file[m] # NoFile}
<1>1. /\ table' = [m \in Models |-> IF m \in found
                      THEN LoadTable(file[m], NoRows, NoHolder) ELSE NoRows]
      /\ holder' = [m \in Models |-> IF m \in found
                      THEN LoadHolder(file[m], NoHolder) ELSE NoHolder]
      /\ tagged' = [m \in Models |-> IF m \in found
                      THEN LoadTagged(file[m], NoHolder, NoTagged) ELSE NoTagged]
      /\ sequence' = [m \in Models |-> IF m \in found
                      THEN LoadSequence(file[m], NoHolder, 1) ELSE 1]
  BY DEF Restart
<1>2. ASSUME NEW m \in Models, m \in found
      PROVE  /\ LoadTable(file[m], NoRows, NoHolder) = file[m].rows
             /\ LoadSequence(file[m], NoHolder, 1) = file[m].next
             /\ TableSound(file[m].rows, file[m].next, LoadHolder(file[m], NoHolder),
                           LoadTagged(file[m], NoHolder, NoTagged))
  <2>1. PICK data : data = file[m]
    OBVIOUS
  <2>2. data \in File /\ FileSound(data)
    BY <1>t, <1>2, <2>1 DEF FilesSound
  <2>3. \A p \in Pks : NoRows[p] # NoRow => NoRows[p] = data.rows[p]
    BY DEF NoRows
  <2>4. /\ LoadTable(data, NoRows, NoHolder) = data.rows
        /\ LoadSequence(data, NoHolder, 1) = data.next
        /\ TableSound(data.rows, data.next, LoadHolder(data, NoHolder),
                      LoadTagged(data, NoHolder, NoTagged))
    BY <2>2, <2>3, EmptySound, LoadedSound
  <2> QED
    BY <2>1, <2>4
<1>f. found \subseteq Models
  BY ArchiveTyped
<1>g. \A m \in ToSet(listed) \cap ToSet(Early) : file[m] # NoFile => m \in found
  OBVIOUS
<1> HIDE DEF found
<1>3. ASSUME NEW m \in Models
      PROVE  TableSound(table'[m], sequence'[m], holder'[m], tagged'[m])
  <2>1. CASE m \in found
    <3>1. /\ table'[m] = LoadTable(file[m], NoRows, NoHolder)
          /\ holder'[m] = LoadHolder(file[m], NoHolder)
          /\ tagged'[m] = LoadTagged(file[m], NoHolder, NoTagged)
          /\ sequence'[m] = LoadSequence(file[m], NoHolder, 1)
      BY <1>1, <2>1
    <3> QED
      BY <1>2, <2>1, <3>1
  <2>2. CASE m \notin found
    <3>1. /\ table'[m] = NoRows /\ holder'[m] = NoHolder /\ tagged'[m] = NoTagged
          /\ sequence'[m] = 1
      BY <1>1, <2>2
    <3> QED
      BY <3>1, EmptySound
  <2> QED
    BY <2>1, <2>2
<1>4. StoreSound'
  <2>1. \A m \in Models : /\ table'[m] \in Tables /\ sequence'[m] \in 1 .. MaxPk + 1
                          /\ holder'[m] \in [Keys -> 0 .. MaxPk]
                          /\ tagged'[m] \in [Tags -> SUBSET Pks]
    BY <1>3 DEF TableSound
  <2>2. /\ table' = [m \in Models |-> table'[m]]
        /\ sequence' = [m \in Models |-> sequence'[m]]
        /\ holder' = [m \in Models |-> holder'[m]]
        /\ tagged' = [m \in Models |-> tagged'[m]]
    BY <1>1
  <2> QED
    BY <1>3, <2>1, <2>2 DEF StoreSound
<1>5. ASSUME NEW m \in found
      PROVE  table'[m] = file[m].rows /\ sequence'[m] = file[m].next
  BY <1>1, <1>2, <1>f, <1>5
<1> QED
  BY <1>4, <1>5, <1>g

LEMMA RestartIsSerial ==
    ASSUME SerialInv, Restart
    PROVE  SerialInv'
<1>1. SaveInv' /\ StoreSound'
  BY RestartKeepsSaves, RestartLoads DEF SerialInv
<1>2. /\ pc' = [t \in Threads |-> "idle"] /\ registered' = Early /\ save' = NoSave
      /\ restoring' = <<>> /\ file' = file /\ listed' = listed
  BY DEF Restart, disk
<1>3. FilesSound' /\ listed' \in {<<>>, Early, Archived}
  BY <1>2 DEF SerialInv, FilesSound
<1>4. SnapshotSound' /\ OneBusy' /\ \A t \in Threads : ObjectFits(t)'
  BY <1>2 DEF SnapshotSound, OneBusy, Idle, ObjectFits
<1>5. RestoreFits'
  BY <1>2 DEF RestoreFits, RestoreFit
<1> QED
  BY <1>1, <1>2, <1>3, <1>4, <1>5 DEF SerialInv

LEMMA StutterIsSerial ==
    ASSUME SerialInv, UNCHANGED allVars
    PROVE  SerialInv'
<1>1. /\ UNCHANGED <<table, sequence, holder, tagged, pc, object>>
      /\ UNCHANGED <<registered, file, listed, save, restoring, settled>>
  BY DEF allVars, vars, store
<1>2. SaveInv'
  BY <1>1 DEF SerialInv, SaveInv, DiskTypes, OneSaver, SettledAreKept, ReadOrOnDisk, OnDisk
<1>3. StoreSound' /\ FilesSound' /\ SnapshotSound'
  BY <1>1 DEF SerialInv, StoreSound, FilesSound, SnapshotSound
<1>4. OneBusy' /\ \A t \in Threads : ObjectFits(t)'
  BY <1>1 DEF SerialInv, OneBusy, Idle, ObjectFits, KeyIsFree
<1>5. RestoreFits'
  BY <1>1 DEF SerialInv, RestoreFits, RestoreFit, Restoring, OfArchive, Extracted
<1> QED
  BY <1>1, <1>2, <1>3, <1>4, <1>5 DEF SerialInv

LEMMA SerialInvariance ==
    ASSUME ~ KeysChange, ArchiveIsSound
    PROVE  PSerialSpec => []SerialInv
<1>1. SerialInv /\ [PSerialNext]_allVars => SerialInv'
  <2> SUFFICES ASSUME SerialInv, [PSerialNext]_allVars PROVE SerialInv'
    OBVIOUS
  <2>1. ASSUME NEW t \in Threads, save = NoSave, Alone(t), Restore(t) PROVE SerialInv'
    BY <2>1, ExtractIsSerial, ClearIsSerial, LoadNextIsSerial, TurnIsSerial DEF Restore
  <2>2. ASSUME NEW t \in Threads, ~ Restoring, Alone(t), Work(t) PROVE SerialInv'
    BY <2>2, WorkIsSerial
  <2>3. ASSUME NEW t \in Threads, ~ Restoring, Save(t) PROVE SerialInv'
    BY <2>3, SaveIsSerial
  <2> QED
    BY <2>1, <2>2, <2>3, RestartIsSerial, StutterIsSerial DEF PSerialNext
<1> QED
  BY <1>1, SerialInitially, PTL DEF PSerialSpec

\* Whatever saves, failed writes, crashes and restores came before, and however
\* rows were inserted while a save ran, no file hands out the primary key of a row
\* that is in it (save_to_disk reads the rows before the sequence).
THEOREM FilesIssueFresh ==
    ASSUME ~ KeysChange, ArchiveIsSound
    PROVE  PSerialSpec => []FilesIssueFreshPks
<1>1. SerialInv => FilesIssueFreshPks
  BY DEF SerialInv, FilesSound, FileSound, Beyond, FilesIssueFreshPks
<1> QED
  BY <1>1, SerialInvariance, PTL

\* A query answers from an index what a scan of the table would, also after any
\* number of saves, restarts and restores (QuerySet._get_candidate_pks).
THEOREM PlansAlwaysAgree ==
    ASSUME ~ KeysChange, ArchiveIsSound
    PROVE  PSerialSpec => []PlansAgree
<1>1. SerialInv => PlansAgree
  BY QueriesAgree DEF SerialInv, PlansAgree
<1> QED
  BY <1>1, SerialInvariance, PTL

\* A restart has all the rows of each listed file, none of them refused by a unique
\* index, and a sequence beyond them (load_from_disk).
THEOREM RestartsRestore ==
    ASSUME ~ KeysChange, ArchiveIsSound, ToSet(Archived) \subseteq ToSet(Early)
    PROVE  PSerialSpec => RestartRestores
<1> DEFINE Held ==
        \A m \in ToSet(listed) : file[m] # NoFile =>
            /\ table'[m] = file[m].rows
            /\ \A p \in Pks : table'[m][p] # NoRow => p < sequence'[m]
<1>1. SerialInv /\ [PSerialNext]_allVars => [Restart => Held]_allVars
  <2> SUFFICES ASSUME SerialInv, Restart, NEW m \in ToSet(listed), file[m] # NoFile
               PROVE  /\ table'[m] = file[m].rows
                      /\ \A p \in Pks : table'[m][p] # NoRow => p < sequence'[m]
    OBVIOUS
  <2>1. m \in ToSet(Early)
    <3>1. ToSet(<<>>) = {}
      BY DEF ToSet
    <3> QED
      BY <3>1 DEF SerialInv
  <2>2. table'[m] = file[m].rows /\ sequence'[m] = file[m].next
    BY <2>1, RestartLoads
  <2>3. FileSound(file[m])
    BY <2>1, ArchiveTyped DEF SerialInv, FilesSound
  <2> QED
    BY <2>2, <2>3 DEF FileSound, Beyond
<1> QED
  BY <1>1, SerialInvariance, PTL DEF PSerialSpec, RestartRestores

\* A restore that has the store to itself ends with the rows of the archive and no
\* others in every registered table (backup_restore in settings_views.py).
THEOREM RestoresHold ==
    ASSUME ~ KeysChange, ArchiveIsSound
    PROVE  PSerialSpec => RestoreHolds
<1> DEFINE Held ==
        \A t \in Threads : EndRestore(t) =>
            \A m \in ToSet(registered) :
                table[m] = IF m \in ToSet(Archived) THEN Archive[m].rows ELSE NoRows
<1>1. SerialInv /\ [PSerialNext]_allVars => [Held]_allVars
  <2> SUFFICES ASSUME SerialInv, NEW t \in Threads, EndRestore(t),
                      NEW m \in ToSet(registered)
               PROVE  table[m] = IF m \in ToSet(Archived) THEN Archive[m].rows ELSE NoRows
    OBVIOUS
  <2>1. pc[t] = "load" /\ ToSet(restoring) = {}
    BY DEF EndRestore, ToSet
  <2>2. m \in ToSet(Early) /\ m \in Models
    BY ArchiveTyped DEF SerialInv
  <2>3. /\ OfArchive(m)
        /\ m \in ToSet(Archived) => table[m] = Archive[m].rows
    BY <2>1, <2>2 DEF SerialInv, RestoreFits, RestoreFit
  <2> QED
    BY <2>3 DEF OfArchive
<1> QED
  BY <1>1, SerialInvariance, PTL DEF PSerialSpec, RestoreHolds
===============================================================================
